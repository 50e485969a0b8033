------------------------------ MODULE Exchange ------------------------------
(***************************************************************************)
(* A browser and the two handlers of ngx_ad.cc, over the texts that go     *)
(* between them: a page puts a query together, the browser sends it with a *)
(* Cookie header, the handler (mapping_ku6.h, or the cookies of mapping.h) *)
(* reads both and answers, and the browser takes the Set-Cookie lines into *)
(* its jar.  Which partner is chosen and what is logged is in Mapping.     *)
(***************************************************************************)
EXTENDS Codec, Http

CONSTANTS
    Keys, Texts,      \* names and values of parameters
    Junk,             \* parameters that are not names and values, or cannot be decoded
    Foreign,          \* cookies other hosts of the domain set, as <<name, value>>
    Uids, Times,      \* what mapping.h stores in amz and t_<pid>
    Ms, Randoms,      \* the numbers of an rmid
    Lifetime,         \* of a cookie, in seconds (3153600000)
    Pixel,            \* the bytes of the gif
    MaxParams, MaxExchanges   \* bounds

VARIABLES
    stage,    \* "page", "sent", "answered", or "lost" when no answer will come
    url,      \* what the page has put together
    given,    \* history: the parameters it means
    jar,      \* the cookies of the browser
    parts,    \* the headers of the request, in the parts of nginx' list
    sentJar,  \* history: the cookies the request was sent with
    wire,     \* the response
    asked,    \* history: the cookies the handler wanted to set, in order
    exchanges

vars == <<stage, url, given, jar, parts, sentJar, wire, asked, exchanges>>

\* The names of cookies: "a", "amz" and "t_4".
A   == <<97>>
Amz == <<97, 109, 122>>
T   == <<116, 95, 52>>

Path == <<47>>

Char == 0 .. 255

\* Neither the name nor the value of a cookie holds a blank or a ';', and the name no '='.
\* nginx takes no header with a NUL in it.
CookieText == Seq(Char \ (Whitespace \cup {0, Semi}))
CookieName == Seq(Char \ (Whitespace \cup {0, Semi, Eq})) \ {<<>>}

\* Other hosts may set an a of their own, but not an empty one.
ASSUME CookieAssumption ==
    /\ Foreign \subseteq CookieName \X CookieText
    /\ \A c \in Foreign : c[1] = A => c[2] # <<>>
    /\ Uids \cup Times \subseteq CookieText /\ BASE_STRING \in CookieText

\* A key holds no '='.  Junk names none of the keys, or cannot be decoded.
ASSUME ParamAssumption ==
    /\ Keys \cup Texts \cup Junk \subseteq Seq(Char)
    /\ \A key \in Keys : ~Contains(key, Eq)
    /\ \A param \in Junk : ~Contains(param, Amp) /\ Keys \cap DOMAIN add_param(<<>>, param) = {}

\* Seven digits and three, from 1971 to 2081.
ASSUME NumberAssumption ==
    Ms \subseteq Pow[6] + 1 .. Pow[7] - 1 /\ Randoms \subseteq Pow[2] .. Pow[3] - 1

ASSUME AnswerAssumption == Lifetime \in 0 .. MaxExpire /\ Pixel \in Seq(Char)

Init ==
    /\ stage = "page" /\ url = Path /\ given = <<>>
    /\ jar = <<>> /\ sentJar = <<>>
    /\ parts = <<<<>>>> /\ wire = send_headers(NewResponse)
    /\ asked = <<>> /\ exchanges = 0

------------------------------------------------------------------------------
(* The page and the browser *)

\* Letters, digits, and '=', which may stand in a value as it is.
Unescaped == 48 .. 57 \cup 65 .. 90 \cup 97 .. 122 \cup {Eq}
HexDigit(n) == IF n < 10 THEN 48 + n ELSE 55 + n

\* Percent encoding, as a page or a partner does it.
Escaped(c) ==
    IF c \in Unescaped THEN <<c>>
    ELSE IF c = Space THEN <<Plus>> ELSE <<Percent, HexDigit(c \div 16), HexDigit(c % 16)>>

Escape(text) == FlattenSeq([n \in DOMAIN text |-> Escaped(text[n])])

Extend(param) == url' = url \o <<IF url = Path THEN Quest ELSE Amp>> \o param

Params == Len(Pieces(url)) - (IF url = Path THEN 1 ELSE 0)

PutParam(key, text) ==
    /\ stage = "page" /\ Params < MaxParams
    /\ Extend(Escape(key) \o <<Eq>> \o Escape(text))
    /\ given' = Assign(given, key, text)
    /\ UNCHANGED <<stage, jar, parts, sentJar, wire, asked, exchanges>>

PutJunk(param) ==
    /\ stage = "page" /\ Params < MaxParams
    /\ Extend(param)
    /\ UNCHANGED <<stage, given, jar, parts, sentJar, wire, asked, exchanges>>

\* Another host of the domain sets a cookie.
SetForeign(c) ==
    /\ stage = "page" /\ url = Path
    /\ jar' = Assign(jar, c[1], c[2])
    /\ UNCHANGED <<stage, url, given, parts, sentJar, wire, asked, exchanges>>

\* The browser writes its cookies in some order, "name=value; name=value".
CookieHeader(order) ==
    FlattenSeq([n \in DOMAIN order |->
        (IF n = 1 THEN <<>> ELSE <<Semi, Space>>) \o order[n] \o <<Eq>> \o jar[order[n]]])

Header(key, value, hash) == [key |-> key, value |-> value, hash |-> hash]

\* nginx fills one part of its list and goes on in the next; a header it has taken out
\* stays in the list with a hash of zero.
Send ==
    /\ stage = "page" /\ exchanges < MaxExchanges
    /\ \E order \in SetToSeqs(DOMAIN jar) :
          LET list == <<Header("Host", <<104>>, 1), Header("Cookie", <<>>, 0)>>
                        \o (IF jar = <<>> THEN <<>> ELSE <<Header("Cookie", CookieHeader(order), 1)>>)
          IN  \E size \in 1 .. Len(list) :
                 parts' = IF size = Len(list) THEN <<list>>
                          ELSE <<SubSeq(list, 1, size), SubSeq(list, size + 1, Len(list))>>
    /\ stage' = "sent" /\ sentJar' = jar
    /\ exchanges' = exchanges + 1
    /\ UNCHANGED <<url, given, jar, wire, asked>>

\* A browser's treatment of one Set-Cookie line.
Store(cookies, line) ==
    IF line.name = <<>> THEN cookies
    ELSE IF line.age = 0 THEN Restrict(cookies, DOMAIN cookies \ {line.name})
    ELSE Assign(cookies, line.name, line.value)

Receive ==
    /\ stage = "answered"
    /\ jar' = FoldLeft(Store, jar, SetCookieLines(wire))
    /\ stage' = "page" /\ url' = Path /\ given' = <<>> /\ asked' = <<>>
    /\ wire' = send_headers(NewResponse) /\ sentJar' = <<>>
    /\ UNCHANGED <<parts, exchanges>>

\* The connection is closed without an answer.
GiveUp ==
    /\ stage = "lost"
    /\ stage' = "page" /\ url' = Path /\ given' = <<>> /\ sentJar' = <<>>
    /\ UNCHANGED <<jar, parts, wire, asked, exchanges>>

------------------------------------------------------------------------------
(* The handlers *)

Gif == base64_decode(base64_encode(Pixel))

\* What both handlers begin with.
GifResponse ==
    LET r1 == set_mime_type([NewResponse EXCEPT !.content = Gif], "image/gif")
        r2 == add_header(r1, "Cache-control", "no-cache,must-revalidate")
        r3 == add_header(r2, "Expires", "0")
    IN  add_header(r3, "Content-Length", Len(Gif))

Cookie(name) == getCookie(get_header(copy_headers(parts), "Cookie"), name)

\* Mutant: every redirect gets an rmid of its own.
Ku6RmidFresh(ms, random) == createRmidCookie(ms, random)

Ku6Rmid(ms, random) == IF Cookie(A) # <<>> THEN Cookie(A) ELSE createRmidCookie(ms, random)

\* The size of the buffer for the Location; its fixed text before and after the rmid, and
\* the NUL at its end.
l_buffer == 100
LocationBytes(rmid) == 43 + Len(rmid) + 10 + 1

\* ngx_http_handler_mapping_ku6: a redirect, never a cookie.  A Location that is too long
\* for l_buffer may do no harm.
Ku6 ==
    /\ stage = "sent"
    /\ \E ms \in Ms, random \in Randoms :
          wire' = send_headers(add_header(set_status(GifResponse, 302, <<>>), "Location",
                                          [dspid |-> 100026, dspuid |-> Ku6Rmid(ms, random)]))
    /\ stage' = "answered" /\ asked' = <<>> /\ parts' = <<<<>>>>
    /\ UNCHANGED <<url, given, jar, sentJar, exchanges>>

\* sprintf writes past the end of l_buffer, which is undefined; the worker is ended.
Ku6Overflows ==
    /\ stage = "sent"
    /\ \E ms \in Ms, random \in Randoms : LocationBytes(Ku6Rmid(ms, random)) > l_buffer
    /\ stage' = "lost" /\ parts' = <<<<>>>>
    /\ UNCHANGED <<url, given, jar, sentJar, wire, asked, exchanges>>

Call(name, value, attrs) == [name |-> name, value |-> value, attrs |-> attrs]
Domain == {"path", "domain"}

\* The cookies of mapping.h: a if there is none, amz for Miaozhen if there is none, the
\* time of a visit.
MappingCalls ==
    {c1 \o c2 \o c3 :
       c1 \in {<<>>} \cup (IF Cookie(A) # <<>> THEN {}
                           ELSE {<<Call(A, createRmidCookie(ms, random), Domain)>> :
                                   ms \in Ms, random \in Randoms}),
       c2 \in {<<>>} \cup (IF Cookie(Amz) # <<>> THEN {}
                           ELSE {<<Call(Amz, uid, Domain)>> : uid \in Uids}),
       c3 \in {<<>>} \cup {<<Call(T, time, {})>> : time \in Times}}

AddCookie(rep, c) ==
    add_header(rep, "Set-Cookie", setCookie(c.name, c.value, Lifetime, c.attrs, FALSE))

SetCookies(rep, calls) == FoldLeft(AddCookie, rep, calls)

MappingAnswers ==
    /\ stage = "sent"
    /\ \E calls \in MappingCalls, status \in {200, 302} :
          /\ asked' = calls
          /\ wire' = send_headers(set_status(SetCookies(GifResponse, calls), status, <<>>))
    /\ stage' = "answered" /\ parts' = <<<<>>>>
    /\ UNCHANGED <<url, given, jar, sentJar, exchanges>>

Next ==
    \/ \E key \in Keys, text \in Texts : PutParam(key, text)
    \/ \E param \in Junk : PutJunk(param)
    \/ \E c \in Foreign : SetForeign(c)
    \/ Send \/ Ku6 \/ Ku6Overflows \/ MappingAnswers \/ Receive \/ GiveUp

Spec == Init /\ [][Next]_vars

------------------------------------------------------------------------------
(* Properties *)

\* copy_uri against what a query means: every parameter that was put into it, escaped,
\* is read as it was meant, the last one if there are several, and parameters that
\* are empty, bare or cut off in an escape take nothing from the others.
ParamsAreRead ==
    \A key \in Keys :
       get_query_param(set_query_param(url), key) = get_query_param(given, key)

\* copy_headers, getCookie and cookieExists against the jar: in whatever order the
\* cookies were sent, and wherever the parts of the list end, each name gives its own
\* value, and not that of a name it begins or ends, nor a part of another value.
CookiesAreRead ==
    stage = "sent" =>
       LET header == get_header(copy_headers(parts), "Cookie")
       IN  \A name \in {A, Amz, T} :
              /\ getCookie(header, name) = get_header(sentJar, name)
              /\ cookieExists(header, name) <=> name \in DOMAIN sentJar
              /\ name \in DOMAIN sentJar => cookieExists(header, name \o <<Eq>> \o sentJar[name])

\* What a call of set_cookie means, an empty value being a removal.
Put(cookies, c) ==
    IF c.value = <<>> THEN Restrict(cookies, DOMAIN cookies \ {c.name})
    ELSE Assign(cookies, c.name, c.value)

\* setCookie, add_header and send_headers: although the last cookie goes out twice, the
\* jar ends as if the handler's calls had been carried out one after the other.
JarAsAsked ==
    [][stage = "answered" =>
          jar' = FoldLeft(Put, jar, asked)]_vars

\* The two numbers of an rmid.
RmidOf(str) == <<base62_decode(SubSeq(str, 1, 7)), base62_decode(SubSeq(str, 8, Len(str)))>>

\* mapping_ku6::handle: a browser that has an rmid is redirected under it, however many
\* other cookies it sends; another one under an rmid of ten digits that tell apart the
\* two numbers it was made of.  The body is the gif, of the length the headers say.  This
\* is promised up to the 46 bytes of rmid that l_buffer has room for: no request is lost
\* but one that brings a longer a, and of the answer to that one nothing is said.
RedirectedAsOneself ==
    LET long == A \in DOMAIN sentJar /\ Len(sentJar[A]) > 46
    IN  /\ stage = "lost" => long
        /\ (stage = "answered" /\ ~long /\ "Location" \in DOMAIN wire.headers) =>
              LET dspuid == wire.headers["Location"].dspuid
              IN  /\ SetCookieLines(wire) = <<>>
                  /\ wire.body = Pixel /\ wire.content_length_n = wire.headers["Content-Length"]
                  /\ IF A \in DOMAIN sentJar THEN dspuid = sentJar[A]
                     ELSE RmidOf(dspuid) \in Ms \X Randoms

==============================================================================
