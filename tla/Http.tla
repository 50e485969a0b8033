-------------------------------- MODULE Http --------------------------------
(***************************************************************************)
(* How the module reads a request and writes a response: httpd/request.h   *)
(* (header list, query, percent decoding), httpd/response.h (headers and   *)
(* cookies), utils/cookie.h (the Cookie header, the value of Set-Cookie).  *)
(*                                                                         *)
(* Texts that are parsed are sequences of character codes.  Texts that are *)
(* only put together are what they say: a Set-Cookie line is a record.     *)
(***************************************************************************)
EXTENDS Integers, SequencesExt

CONSTANT MaxExpire      \* 253402300799, the last second of the year 9999

ASSUME ExpireAssumption == MaxExpire \in Nat

Whitespace == 9 .. 13 \cup {32}
Space      == 32
Percent    == 37
Amp        == 38
Plus       == 43
Semi       == 59
Eq         == 61
Quest      == 63

\* map[key] = value.
Assign(map, key, value) == [k \in {key} \cup DOMAIN map |-> IF k = key THEN value ELSE map[k]]

\* The place of c in s from a place on, 0 for npos.
Find(s, c, from) == SelectInSubSeq(s, from, Len(s), LAMBDA x : x = c)

------------------------------------------------------------------------------
(* request.h *)

hex_to_byte(c) ==
    IF c \in 97 .. 122 THEN c - 97 + 10
    ELSE IF c \in 65 .. 90 THEN c - 65 + 10 ELSE c - 48

hexstr_to_char(in, from) == (hex_to_byte(in[from]) * 16 + hex_to_byte(in[from + 1])) % 256

\* The result, and whether there is one: an escape at the very end may be cut off.
Decoded(text) == [ok |-> TRUE, out |-> text]
Failed        == [ok |-> FALSE, out |-> <<>>]

DecodedAt(in, i) ==
    IF in[i] = Percent THEN hexstr_to_char(in, i + 1) ELSE IF in[i] = Plus THEN Space ELSE in[i]

Behind(c, rest) == [ok |-> rest.ok, out |-> <<c>> \o rest.out]

url_decode(in) ==
    LET From[i \in 1 .. Len(in) + 1] ==
          IF i > Len(in) THEN Decoded(<<>>)
          ELSE IF in[i] = Percent /\ i + 2 > Len(in) THEN Failed
          ELSE Behind(DecodedAt(in, i), From[IF in[i] = Percent THEN i + 3 ELSE i + 1])
    IN  From[1]

\* Mutant: the name goes up to the last '='.
SplitAtLast(param) == SelectLastInSeq(param, LAMBDA x : x = Eq)

Split(param) == Find(param, Eq, 1)

\* A parameter without '=', or with nothing after it, has an empty value; one that
\* cannot be decoded is left out.  (length() - 1 of an empty one is the largest size_t.)
add_param(params, param) ==
    LET split == Split(param)
        bare  == split = 0 \/ split >= Len(param)
        key   == url_decode(SubSeq(param, 1, IF split = 0 THEN Len(param) ELSE split - 1))
        value == IF bare THEN Decoded(<<>>) ELSE url_decode(SubSeq(param, split + 1, Len(param)))
    IN  IF key.ok /\ value.ok THEN Assign(params, key.out, value.out) ELSE params

\* The loop of set_query_param: what stands between one '&' and the next.
Pieces(query) ==
    LET From[curr \in 1 .. Len(query) + 1] ==
          LET end_param == Find(query, Amp, curr)
          IN  IF end_param = 0 THEN <<SubSeq(query, curr, Len(query))>>
              ELSE <<SubSeq(query, curr, end_param - 1)>> \o From[end_param + 1]
    IN  From[1]

\* _query_parameters after copy_uri.
set_query_param(url) ==
    LET pos == Find(url, Quest, 1)
    IN  IF pos = 0 THEN <<>>
        ELSE FoldLeft(add_param, <<>>, Pieces(SubSeq(url, pos + 1, Len(url))))

get_query_param(params, name) == IF name \in DOMAIN params THEN params[name] ELSE <<>>

\* Where the walk over nginx' list goes on in the next part.
PartFirst == 1

\* The headers in the order of the walk.  Only the first part of a list can be empty.
HeaderWalk(parts) ==
    LET From[at \in (DOMAIN parts) \X (Nat \ {0})] ==
          LET p == at[1]
              i == at[2]
          IN  IF i <= Len(parts[p]) THEN <<parts[p][i]>> \o From[<<p, i + 1>>]
              ELSE IF p = Len(parts) THEN <<>>
              ELSE From[<<p + 1, PartFirst>>]
    IN  From[<<1, 1>>]

copy_header(headers, h) == IF h.hash = 0 THEN headers ELSE Assign(headers, h.key, h.value)

copy_headers(parts) == FoldLeft(copy_header, <<>>, HeaderWalk(parts))

get_header(headers, name) == IF name \in DOMAIN headers THEN headers[name] ELSE <<>>

------------------------------------------------------------------------------
(* cookie.h *)

\* Mutant: the name may begin anywhere.
NameBeginsAnywhere(header, at) == TRUE

NameBegins(header, at) == at = 1 \/ header[at - 1] \in Whitespace \cup {Semi}

\* The loop of cookieExists and getCookie: the place after the first name that begins
\* where a name may and that ends before one of the places asked for; 0 if there is none.
AfterName(header, name, ends) ==
    LET Hits(pos) == {i \in pos .. Len(header) - Len(name) + 1 :
                        SubSeq(header, i, i + Len(name) - 1) = name}
        From[pos \in 1 .. Len(header) + 2] ==
          IF Hits(pos) = {} THEN 0
          ELSE LET at    == Min(Hits(pos))
                   after == at + Len(name)
               IN  IF ~NameBegins(header, at) THEN From[at + 1]
                   ELSE IF after \in ends THEN after ELSE From[after + 1]
    IN  From[1]

Places(header, c) == {pos \in DOMAIN header : header[pos] = c}

\* The name may be "name=value", too.
cookieExists(header, name) ==
    0 # AfterName(header, name,
                  IF Contains(name, Eq) THEN Places(header, Semi) \cup {Len(header) + 1}
                  ELSE Places(header, Eq))

getCookie(header, name) ==
    LET pos == AfterName(header, name, Places(header, Eq))
        end == Find(header, Semi, pos + 1)
    IN  IF pos = 0 THEN <<>>
        ELSE SubSeq(header, pos + 1, IF end = 0 THEN Len(header) ELSE end - 1)

Forever == -1
NoLine  == [name |-> <<>>, value |-> <<>>, age |-> Forever, attrs |-> {}]

\* An empty value deletes, "=deleted" with Max-Age=0.  url_encode returns nothing.
setCookie(name, value, expire, attrs, encode_url) ==
    CASE value = <<>> -> [name |-> name, value |-> <<>>, age |-> 0, attrs |-> attrs]
      [] value # <<>> /\ expire > MaxExpire -> NoLine
      [] OTHER -> [name |-> name, value |-> IF encode_url THEN <<>> ELSE value,
                   age |-> IF expire > 0 THEN expire ELSE Forever, attrs |-> attrs]

------------------------------------------------------------------------------
(* response.h *)

NewResponse == [status |-> 0, headers |-> <<>>, cookies |-> <<>>, type |-> "", content |-> <<>>]

\* Mutant: cookies are kept in the map of headers like the rest.
add_headerMapOnly(rep, h, value) ==
    IF h = "Content-Type" THEN [rep EXCEPT !.type = value]
    ELSE [rep EXCEPT !.headers = Assign(@, h, value)]

\* There is no else after the first case: a cookie is also kept as a header.
add_header(rep, h, value) ==
    LET r == IF h = "Set-Cookie" THEN [rep EXCEPT !.cookies = Append(@, value)] ELSE rep
    IN  IF h = "Content-Type" THEN [r EXCEPT !.type = value]
        ELSE [r EXCEPT !.headers = Assign(@, h, value)]

set_status(rep, status, content) ==
    [rep EXCEPT !.status = status, !.content = IF content # <<>> THEN content ELSE @]

set_mime_type(rep, mime) == [rep EXCEPT !.type = mime]

\* What nginx sends.  All headers of the map go out, in any order and whether or not
\* headers_out has a field for them, and after them the cookies.
send_headers(rep) ==
    [status |-> rep.status, type |-> rep.type, content_length_n |-> Len(rep.content),
     headers |-> rep.headers, cookies |-> rep.cookies, body |-> rep.content]

SetCookieLines(wire) ==
    (IF "Set-Cookie" \in DOMAIN wire.headers THEN <<wire.headers["Set-Cookie"]>> ELSE <<>>)
       \o wire.cookies

==============================================================================
