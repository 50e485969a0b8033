------------------------------- MODULE Handler -------------------------------
(***************************************************************************)
(* The decisions of handler::mapping (src/handler/mapping.h) as operators: *)
(* what one request r.gif / m.gif / ad.gif / bd.gif, carrying the cookies  *)
(* of a browser, makes the cookie-mapping handler answer and log.          *)
(*                                                                         *)
(* Data is abstracted to what the handler tells apart.  A request is a     *)
(* record                                                                  *)
(*   page   "r", "m", "ad" or "bd": the gif named in the URL;              *)
(*   letter the value of the parameter ext when it is a one-letter code,   *)
(*          "" when it is a number or absent;                              *)
(*   num    its atoi value when it is not a known letter (0 if absent);    *)
(*   exts   how many times "ext=" occurs in the URL;                       *)
(*   s      the parameter s, NoSource when it is absent or empty;          *)
(*   ids    the user-id parameters: a function from parameter names to the *)
(*          code of the party whose id the value is.                       *)
(* The cookies are a record [a, amz, t]: the rmid, the Miaozhen id and,    *)
(* for every pid, the time in cookie t_<pid>.                              *)
(* A partner is the record model::partner: expires, weight and url are     *)
(* functions on pids (of url only the domain matters), self tells whether  *)
(* a self URL is configured, uid is the name of the id parameter.          *)
(***************************************************************************)
EXTENDS Integers, FiniteSets, FiniteSetsExt

CONSTANT IntMax       \* the largest C++ int, 2^31 - 1 in the program

NoSource == -1
NoRmid   == 0
NoUid    == 0
NoTime   == -1

\* The ext letters as handleExt assigns them.
ExtLetters == [q |-> 2, a |-> 3, s |-> 5, m |-> 6, y |-> 8, x |-> 6,
               k |-> 10, f |-> 11, b |-> 12, t |-> 13]

\* enum class ext_type: the codes the letters are documented to stand for.
ext_type == [q |-> 2, a |-> 3, s |-> 5, m |-> 6, y |-> 8, x |-> 9,
             k |-> 10, f |-> 11, b |-> 12, t |-> 13]

mapping_vec == {2, 3, 5, 6, 8, 10, 11, 21, 26, 27, 29, 31}

ERROR_BAD_EXT    == 4
ERROR_NO_URL     == 5
ERROR_COOKIE_GET == 7

------------------------------------------------------------------------------
(* handleExt *)

ExtCode(r) == IF r.letter \in DOMAIN ExtLetters THEN ExtLetters[r.letter] ELSE r.num

\* The code of the requesting party; a page of its own stands in for a missing ext.
PageExt(r) ==
    IF ExtCode(r) # 0 THEN ExtCode(r)
    ELSE IF r.page = "ad" THEN 4
    ELSE IF r.page = "bd" THEN 1
    ELSE 0

\* Tencent comes back with two ext parameters, of which the last one names the source.
TwoExts(r) == r.s = NoSource /\ r.exts = 2

Ext(r) == IF TwoExts(r) THEN ext_type.q ELSE PageExt(r)

\* Mutant: the source is taken from ext_ after ext_ has been overwritten.
SourceAfterExt(r) == IF r.s # NoSource THEN r.s ELSE Ext(r)

Source(r) == IF r.s # NoSource THEN r.s ELSE PageExt(r)
Flag(r) == IF r.s # NoSource \/ TwoExts(r) THEN 0 ELSE 1

AidPage(r) == ExtCode(r) = 0 /\ r.page = "ad"

\* The partner record of Ext(r) is dereferenced without checking that it is there.
MissingExtPartner(r, tb) ==
    /\ Source(r) \in DOMAIN tb
    /\ Source(r) # Ext(r)
    /\ ~AidPage(r)
    /\ Ext(r) \notin DOMAIN tb

UidName(r, tb) ==
    IF AidPage(r) THEN "aid"
    ELSE IF Source(r) \notin DOMAIN tb THEN ""
    ELSE tb[Ext(r)].uid

\* The user id: the parameter the partner names, else the parameter uid.
Param(r, name) == IF name \in DOMAIN r.ids THEN r.ids[name] ELSE NoUid

Uid(r, tb) ==
    LET name == UidName(r, tb)
    IN  IF name = "" THEN NoUid
        ELSE IF Param(r, name) # NoUid THEN Param(r, name)
        ELSE Param(r, "uid")

------------------------------------------------------------------------------
(* recordCookieLog *)

IsNew(c) == c.a = NoRmid

\* Mutant: an existing rmid is not looked at.
SetsRmidAlways(r, c) == Flag(r) = 1

\* Whether a new rmid is created and sent in Set-Cookie a.
SetsRmid(r, c) == IsNew(c) /\ Flag(r) = 1

\* Mutant: a request without a cookie gets an rmid on every leg.
RmidOnEveryLeg(r, c, fresh) == IF IsNew(c) THEN fresh ELSE c.a

\* The rmid the request is served under; fresh is what createRmidCookie returns.
Rmid(r, c, fresh) ==
    IF ~IsNew(c) THEN c.a ELSE IF SetsRmid(r, c) THEN fresh ELSE NoRmid

\* Mutant: a return without the cookie is not an error.
ErrorIgnoringCookie(r, c, tb) == IF Source(r) \notin DOMAIN tb THEN ERROR_BAD_EXT ELSE 0

Error(r, c, tb) ==
    IF IsNew(c) /\ Flag(r) = 0 THEN ERROR_COOKIE_GET
    ELSE IF Source(r) \notin DOMAIN tb THEN ERROR_BAD_EXT
    ELSE 0

\* Whether there is a Set-Cookie amz; setCookie turns an empty uid into a deletion.
SetsAmz(r, c) == Ext(r) = ext_type.m /\ c.amz = NoUid

------------------------------------------------------------------------------
(* The mobile test of handle: ua is how often the User-Agent matches. *)

Mobile(r, ua) == Ext(r) # 4 /\ ua > 1

------------------------------------------------------------------------------
(* checkVaildExpire *)

\* int arithmetic: a sum past IntMax wraps to the negative numbers.
Wrap(n) == ((n + IntMax + 1) % (2 * (IntMax + 1))) - (IntMax + 1)

\* Mutant: a cycle ends one unit early.
ExpiredTooSoon(t, expire, now) == Wrap(t + expire) <= now

Expired(t, expire, now) == Wrap(t + expire) < now

\* Mutant: the cookie holds a time that is still to come.
TimeCookieAhead(now) == Wrap(now + 1)

\* What atoi reads back from the time that handle writes into cookie t_<pid>.
TimeCookie(now) == Wrap(now)

\* The pair of partners that just sent the browser here and left no time cookie.
JustBack(ext, pid) == (ext = 6 /\ pid = 4) \/ (ext = 4 /\ pid = 7)

Weight(p, pid) == IF pid \in DOMAIN p.weight THEN p.weight[pid] ELSE 0

Winners(ext, p, c, now) ==
    {pid \in DOMAIN p.expires :
        \/ c.t[pid] = NoTime /\ ~JustBack(ext, pid)
        \/ c.t[pid] # NoTime /\ Expired(c.t[pid], p.expires[pid], now)}

\* Mutant: the comparison is turned around.
MinWeight(p, W) == Min({Weight(p, pid) : pid \in W} \cup {1000})

MaxWeight(p, W) == Max({0} \cup {Weight(p, pid) : pid \in W})

WeightSum(p, W) == MapThenSumSet(LAMBDA pid : Weight(p, pid), W)

\* The pids the shuffled list of heaviest winners may start with, {0} for "none".
checkVaildExpire(ext, p, c, now) ==
    LET W        == Winners(ext, p, c, now)
        heaviest == {pid \in W : Weight(p, pid) = MaxWeight(p, W)}
    IN  IF DOMAIN p.weight = {} \/ heaviest = {} \/ WeightSum(p, W) = 0
        THEN {0}
        ELSE heaviest

------------------------------------------------------------------------------
(* log_save: which requests are sent to the queue of the mapping store. *)

\* Mutant: the rmid is not looked at.
SendsScyllaUnchecked(r, rmid, uid, m) ==
    /\ uid # NoUid /\ m = 0
    /\ IF Ext(r) = ext_type.q THEN Flag(r) = 1 ELSE Ext(r) \in mapping_vec

SendsScylla(r, rmid, uid, m) ==
    /\ rmid # NoRmid /\ uid # NoUid /\ m = 0
    /\ IF Ext(r) = ext_type.q THEN Flag(r) = 1 ELSE Ext(r) \in mapping_vec

==============================================================================
