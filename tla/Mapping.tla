------------------------------- MODULE Mapping -------------------------------
(***************************************************************************)
(* Cookie mapping as a browser lives it.  A page embeds a pixel; the       *)
(* handler of src/handler/mapping.h answers it with an image, or with a    *)
(* redirect to the partner that is due; the partner redirects the browser  *)
(* back to the handler, which picks the next partner, and so on: a chain   *)
(* of requests that shares nothing but the cookies of the browser.         *)
(*                                                                         *)
(* A request carries the cookies the browser held when it was SENT, the    *)
(* cookies of its answer enter the jar when the answer ARRIVES, and other  *)
(* tabs, the clock and the user move in between.  handle() itself is one   *)
(* step: a worker runs it to the end, with a handler object of its own     *)
(* (ngx_ad.cc), before it looks at another request.                        *)
(*                                                                         *)
(* Every request is served from one of Tables, the partner tables that     *)
(* the workers hold: each worker loads its own (module Partners).          *)
(***************************************************************************)
EXTENDS Handler

CONSTANTS
    Tabs,           \* the tabs of the browser
    Pids,           \* the pids that occur in the tables
    Tables,         \* partner tables: functions from codes to partner records
    StartRequests,  \* the pixels that pages embed
    Policies,       \* which of the cookies "a", "amz", "t" a browser keeps
    UaMatches,      \* how often its User-Agent matches android|iphone|ipad
    MaxTime, MaxStarts, MaxClears   \* bounds: clock, chains, cookie clearings

ASSUME BoundsAssumption ==
    /\ IntMax \in Nat /\ MaxTime \in Nat /\ MaxTime <= IntMax /\ MaxStarts \in Nat /\ MaxClears \in Nat
    /\ Pids \subseteq Nat \ {0} /\ IsFiniteSet(Tabs)
    /\ Policies \subseteq SUBSET {"a", "amz", "t"}
    /\ UaMatches \subseteq Nat

\* Sums of a cookie's time and a cycle stay below the int limit.
ASSUME TablesAssumption ==
    \A tb \in Tables : \A s \in DOMAIN tb :
        /\ s \in Nat
        /\ DOMAIN tb[s].expires \subseteq Pids /\ IsFiniteSet(DOMAIN tb[s].expires)
        /\ \A pid \in DOMAIN tb[s].expires :
              tb[s].expires[pid] \in Nat /\ MaxTime + tb[s].expires[pid] <= IntMax
        /\ \A pid \in DOMAIN tb[s].weight : tb[s].weight[pid] \in Nat

\* A page embeds the pixel of a party with an id of that party.
ASSUME RequestsAssumption ==
    \A r \in StartRequests : \A name \in DOMAIN r.ids :
        r.ids[name] \in Nat /\ r.ids[name] = Ext(r)

VARIABLES
    now,      \* time(nullptr), in units of the model
    kept, ua, \* the browser: the cookies it keeps, the matches of its User-Agent
    jar,      \* the cookies it holds
    tab,      \* what each tab waits for
    nextRmid, \* the next value of createRmidCookie
    pairs,    \* the messages sent to the queue mapping_scylla
    last,     \* history: the time of the redirect to each pid that arrived last
    starts, clears

vars == <<now, kept, ua, jar, tab, nextRmid, pairs, last, starts, clears>>

NoCookies == [a |-> NoRmid, amz |-> NoUid, t |-> [pid \in Pids |-> NoTime]]
NoLine    == -1   \* no Set-Cookie line; a line with NoUid deletes the cookie
Idle      == [st |-> "idle"]
NoLeg     == [source |-> NoSource, rmid |-> NoRmid, via |-> 0]

Init ==
    /\ now = 0
    /\ kept \in Policies /\ ua \in UaMatches
    /\ jar = NoCookies
    /\ tab = [t \in Tabs |-> Idle]
    /\ nextRmid = 1
    /\ pairs = {}
    /\ last = [pid \in Pids |-> NoTime]
    /\ starts = 0 /\ clears = 0

------------------------------------------------------------------------------
(* Where an answer sends the browser. *)

Nowhere      == [to |-> "nowhere", pid |-> 0, source |-> NoSource, escaped |-> FALSE]
SelfUrl      == [to |-> "self", pid |-> 0, source |-> NoSource, escaped |-> FALSE]
WorkerCrash  == [to |-> "crash", pid |-> 0, source |-> NoSource, escaped |-> FALSE]

\* url_replace of the partner's URL.  For pid 7 the code computes an escaped copy
\* in a variable that shadows url, so that the URL leaves as it was configured.
PartnerUrl(pid, source) ==
    [to |-> "partner", pid |-> pid, source |-> source, escaped |-> FALSE]

\* The partners that come back: Miaozhen (4), Tencent (12) and Admaster (7).  In an
\* unescaped URL "&s=" ends Admaster's parameter redir, and s does not come back.
Returning == {4, 7, 12}

FromMiaozhen(loc) ==
    [page |-> "m", letter |-> "m", num |-> 0, exts |-> 1, s |-> loc.source, ids |-> [mid |-> 6]]

FromTencent(loc) ==
    [page |-> "r", letter |-> "", num |-> loc.source, exts |-> 2, s |-> NoSource,
     ids |-> [tuid |-> 2]]

FromAdmaster(loc) ==
    [page |-> "r", letter |-> "", num |-> 4, exts |-> 1,
     s |-> IF loc.escaped THEN loc.source ELSE NoSource, ids |-> [uid |-> 4]]

BackFrom(loc) ==
    IF loc.pid = 4 THEN FromMiaozhen(loc)
    ELSE IF loc.pid = 12 THEN FromTencent(loc)
    ELSE FromAdmaster(loc)

------------------------------------------------------------------------------
(* The handler. *)

Req(t)       == tab[t].req
Cookies(t)   == tab[t].cookies
RmidOf(t)    == Rmid(Req(t), Cookies(t), nextRmid)
Partner(t, tb) == tb[Source(Req(t))]

\* What handle has established once recordCookieLog has returned without an error
\* for an open partner and a request that is not a mobile one: dofilter is next.
Filtering(t, tb) ==
    /\ ~MissingExtPartner(Req(t), tb)
    /\ Error(Req(t), Cookies(t), tb) = 0
    /\ Partner(t, tb).open # 0
    /\ ~Mobile(Req(t), ua)

dofilter(t, tb) == checkVaildExpire(Ext(Req(t)), Partner(t, tb), Cookies(t), now)

TencentSelf(t, tb, pid) == Ext(Req(t)) = ext_type.q /\ pid = 12 /\ Partner(t, tb).self

\* log_save and the answer: the log record, the message for the mapping store, the
\* cookies that are set (pid # 0 for cookie t_<pid>) and the location.
Answer(t, tb, m, pid, error, timePid, loc) ==
    LET r   == Req(t)
        uid == Uid(r, tb)
        new == SetsRmid(r, Cookies(t))
    IN  /\ tab' = [tab EXCEPT ![t] =
              [st |-> "resp", req |-> r, cookies |-> Cookies(t), loc |-> loc,
               set |-> [a |-> IF new THEN nextRmid ELSE NoRmid,
                        amz |-> IF SetsAmz(r, Cookies(t)) THEN uid ELSE NoLine,
                        pid |-> timePid, time |-> TimeCookie(now)],
               log |-> [source |-> Source(r), ext |-> Ext(r), f |-> Flag(r), m |-> m,
                        uid |-> uid, rmid |-> RmidOf(t), winner |-> pid, error |-> error],
               prev |-> tab[t].prev]]
        /\ nextRmid' = IF new THEN nextRmid + 1 ELSE nextRmid
        /\ pairs' = IF SendsScylla(r, RmidOf(t), uid, m)
                    THEN pairs \cup {[ext |-> Ext(r), rmid |-> RmidOf(t), uid |-> uid]}
                    ELSE pairs

\* The request of tab t is handled by a worker whose partner table is tb.
EndError(t, tb) ==
    LET e == Error(Req(t), Cookies(t), tb)
    IN  /\ ~MissingExtPartner(Req(t), tb) /\ e # 0
        /\ Answer(t, tb, 0, 0, e, 0, Nowhere)

EndClosed(t, tb) ==
    /\ ~MissingExtPartner(Req(t), tb) /\ Error(Req(t), Cookies(t), tb) = 0
    /\ Partner(t, tb).open = 0
    /\ Answer(t, tb, 0, 0, 0, 0, Nowhere)

EndMobile(t, tb) ==
    /\ ~MissingExtPartner(Req(t), tb) /\ Error(Req(t), Cookies(t), tb) = 0
    /\ Partner(t, tb).open # 0 /\ Mobile(Req(t), ua)
    /\ Answer(t, tb, 1, 0, 0, 0, Nowhere)

\* Tencent counts as its own source: the browser goes to Tencent's self URL.
GoTencentSelf(t, tb) ==
    /\ Filtering(t, tb)
    /\ \E pid \in dofilter(t, tb) :
          /\ TencentSelf(t, tb, pid) /\ 2 \in DOMAIN tb
          /\ Answer(t, tb, 0, pid, 0, 0, SelfUrl)

NobodyDue(t, tb) ==
    /\ Filtering(t, tb)
    /\ 0 \in dofilter(t, tb)
    /\ Answer(t, tb, 0, 0, 0, 0, IF Partner(t, tb).self THEN SelfUrl ELSE Nowhere)

NoUrl(t, tb) ==
    /\ Filtering(t, tb)
    /\ \E pid \in dofilter(t, tb) \ {0} :
          /\ ~TencentSelf(t, tb, pid) /\ pid \notin Partner(t, tb).url
          /\ Answer(t, tb, 0, pid, ERROR_NO_URL, pid, Nowhere)

\* Mutant: the browser is redirected without the cookie t_<pid>.
GoPartnerUntimed(t, tb) ==
    /\ Filtering(t, tb)
    /\ \E pid \in dofilter(t, tb) \ {0} :
          /\ ~TencentSelf(t, tb, pid) /\ pid \in Partner(t, tb).url
          /\ Answer(t, tb, 0, pid, 0, 0, PartnerUrl(pid, Source(Req(t))))

GoPartner(t, tb) ==
    /\ Filtering(t, tb)
    /\ \E pid \in dofilter(t, tb) \ {0} :
          /\ ~TencentSelf(t, tb, pid) /\ pid \in Partner(t, tb).url
          /\ Answer(t, tb, 0, pid, 0, pid, PartnerUrl(pid, Source(Req(t))))

\* Undefined behaviour: the end() iterator of partners is dereferenced, or (pid 7) the
\* uninitialized string url is read.  The worker may die and the request with it.
Crash(t, tb) ==
    /\ \/ MissingExtPartner(Req(t), tb)
       \/ /\ Filtering(t, tb)
          /\ \E pid \in dofilter(t, tb) \ {0} :
                \/ TencentSelf(t, tb, pid) /\ 2 \notin DOMAIN tb
                \/ ~TencentSelf(t, tb, pid) /\ pid = 7 /\ 7 \in Partner(t, tb).url
    /\ tab' = [tab EXCEPT ![t] = Idle]
    /\ UNCHANGED <<nextRmid, pairs>>

Handle(t) ==
    /\ tab[t].st = "req"
    /\ \E tb \in Tables :
          \/ EndError(t, tb) \/ EndClosed(t, tb) \/ EndMobile(t, tb)
          \/ GoTencentSelf(t, tb) \/ NobodyDue(t, tb) \/ NoUrl(t, tb)
          \/ GoPartner(t, tb) \/ Crash(t, tb)
    /\ UNCHANGED <<now, kept, ua, jar, last, starts, clears>>

------------------------------------------------------------------------------
(* The browser, the partners and the user. *)

\* Besides the cookies the request remembers, for the properties only, the redirects
\* that had arrived when it was sent and the leg of the chain it follows.
Send(t, r, prev) ==
    tab' = [tab EXCEPT ![t] = [st |-> "req", req |-> r, cookies |-> jar,
                               seen |-> last, prev |-> prev]]

\* A page with a pixel of the system is opened in tab t.
Start(t) ==
    /\ tab[t].st = "idle" /\ starts < MaxStarts
    /\ \E r \in StartRequests : Send(t, r, NoLeg)
    /\ starts' = starts + 1
    /\ UNCHANGED <<now, kept, ua, jar, nextRmid, pairs, last, clears>>

\* The answer arrives: its cookies enter the jar and its location is followed.
Receive(t) ==
    /\ tab[t].st = "resp"
    /\ LET s == tab[t].set
       IN  jar' = [a   |-> IF s.a # NoRmid /\ "a" \in kept THEN s.a ELSE jar.a,
                   amz |-> IF s.amz # NoLine /\ "amz" \in kept THEN s.amz ELSE jar.amz,
                   t   |-> IF s.pid # 0 /\ "t" \in kept
                           THEN [jar.t EXCEPT ![s.pid] = s.time] ELSE jar.t]
    /\ IF tab[t].loc.to = "partner"
       THEN /\ tab' = [tab EXCEPT ![t] =
                          [st |-> "away", loc |-> tab[t].loc,
                           prev |-> [source |-> tab[t].loc.source, rmid |-> tab[t].log.rmid,
                                     via |-> tab[t].loc.pid]]]
            /\ last' = [last EXCEPT ![tab[t].loc.pid] = tab[t].set.time]
       ELSE /\ tab' = [tab EXCEPT ![t] = Idle]
            /\ UNCHANGED last
    /\ UNCHANGED <<now, kept, ua, nextRmid, pairs, starts, clears>>

\* The partner redirects the browser back to the handler.
Return(t) ==
    /\ tab[t].st = "away" /\ tab[t].loc.pid \in Returning
    /\ Send(t, BackFrom(tab[t].loc), tab[t].prev)
    /\ UNCHANGED <<now, kept, ua, jar, nextRmid, pairs, last, starts, clears>>

\* The tab is closed while it waits, or the partner does not come back.
Abandon(t) ==
    /\ tab[t].st \in {"resp", "away"}
    /\ tab' = [tab EXCEPT ![t] = Idle]
    /\ UNCHANGED <<now, kept, ua, jar, nextRmid, pairs, last, starts, clears>>

\* The user clears the cookies.
Clear ==
    /\ clears < MaxClears
    /\ clears' = clears + 1
    /\ jar' = NoCookies
    /\ last' = [pid \in Pids |-> NoTime]
    /\ UNCHANGED <<now, kept, ua, tab, nextRmid, pairs, starts>>

Tick ==
    /\ now < MaxTime
    /\ now' = now + 1
    /\ UNCHANGED <<kept, ua, jar, tab, nextRmid, pairs, last, starts, clears>>

Next ==
    \/ \E t \in Tabs : Start(t) \/ Handle(t) \/ Receive(t) \/ Return(t) \/ Abandon(t)
    \/ Clear \/ Tick

Spec == Init /\ [][Next]_vars

\* A chain moves on: nginx serves the request, the browser takes the answer and
\* follows it, the partner redirects back or the tab is given up.
Progress(t) == Handle(t) \/ Receive(t) \/ Return(t) \/ Abandon(t)

FairSpec == Spec /\ \A t \in Tabs : WF_vars(Progress(t))

------------------------------------------------------------------------------
(* Properties *)

TimeOrNone == 0 .. MaxTime \cup {NoTime}

CookieSet ==
    [a : Nat, amz : Nat, t : [Pids -> TimeOrNone]]

TabOK(t) ==
    /\ tab[t].st \in {"idle", "req", "resp", "away"}
    /\ tab[t].st = "req" =>
          /\ tab[t].cookies \in CookieSet /\ tab[t].cookies.a < nextRmid
          /\ tab[t].seen \in [Pids -> TimeOrNone]
          /\ \A name \in DOMAIN tab[t].req.ids : tab[t].req.ids[name] \in Nat
    /\ tab[t].st = "resp" =>
          /\ tab[t].set.a \in Nat /\ tab[t].set.a < nextRmid
          /\ tab[t].set.amz \in Nat \cup {NoLine}
          /\ tab[t].set.pid \in Pids \cup {0} /\ tab[t].set.time \in 0 .. now
          /\ tab[t].loc.to = "partner" => tab[t].loc.pid \in Pids

\* The type invariant: the cookies of the jar and of the requests under way hold
\* times the clock has reached, and only rmids that were created.
TypeOK ==
    /\ now \in 0 .. MaxTime
    /\ kept \in Policies /\ ua \in UaMatches
    /\ jar \in CookieSet /\ jar.a < nextRmid /\ \A pid \in Pids : jar.t[pid] <= now
    /\ last \in [Pids -> TimeOrNone] /\ \A pid \in Pids : last[pid] <= now
    /\ nextRmid \in Nat \ {0}
    /\ starts \in 0 .. MaxStarts /\ clears \in 0 .. MaxClears
    /\ DOMAIN tab = Tabs
    /\ \A t \in Tabs : TabOK(t)

\* Every pid with a cycle has a URL, in every table.
UrlsComplete ==
    \A tb \in Tables : \A s \in DOMAIN tb : DOMAIN tb[s].expires \subseteq tb[s].url

\* The cookies t_<pid> of a browser that keeps them tell where it has been: those of
\* the jar all redirects that have arrived, those of a request the ones that had
\* arrived when it was sent; an answer sets exactly the cookie of its redirect.
CookiesTrackVisits ==
    (UrlsComplete /\ "t" \in kept) =>
       /\ jar.t = last
       /\ \A t \in Tabs :
             /\ tab[t].st = "req" => tab[t].cookies.t = tab[t].seen
             /\ tab[t].st = "resp" =>
                   tab[t].set.pid = (IF tab[t].loc.to = "partner" THEN tab[t].loc.pid ELSE 0)

\* checkVaildExpire and the cookie t_<pid>: a browser that keeps its cookies is not
\* sent to a partner again before the cycle of that partner, in the table of some
\* worker, has passed since the last redirect that had arrived when it asked.
NoEarlyRepeat ==
    [][(UrlsComplete /\ "t" \in kept) =>
         \A t \in Tabs :
            (tab[t].st = "req" /\ tab'[t].st = "resp" /\ tab'[t].loc.to = "partner") =>
               LET pid == tab'[t].loc.pid
                   src == tab'[t].loc.source
               IN  \/ tab[t].seen[pid] = NoTime
                   \/ \E tb \in Tables :
                         /\ src \in DOMAIN tb /\ pid \in DOMAIN tb[src].expires
                         /\ tab[t].seen[pid] + tb[src].expires[pid] < now]_vars

\* recordCookieLog: a request that a partner sends back with its source is logged
\* under the rmid of the leg before it, or under none when the cookie is gone.
ChainIdentity ==
    \A t \in Tabs :
       (tab[t].st = "resp" /\ tab[t].log.f = 0 /\ tab[t].prev.via # 0) =>
          tab[t].log.rmid \in {NoRmid, tab[t].prev.rmid}

\* recordCookieLog: a browser that has an rmid keeps it until it clears its cookies,
\* however many chains it goes through.  It can lose it to one other rmid only: that of a
\* request which another tab had sent before the first rmid arrived, and whose answer
\* arrives after it.
RmidKept ==
    [][\/ jar.a = NoRmid \/ jar'.a \in {jar.a, NoRmid}
       \/ /\ Cardinality(Tabs) > 1
          /\ \E t \in Tabs : /\ tab[t].st = "resp" /\ tab'[t].st # "resp"
                             /\ tab[t].cookies.a = NoRmid /\ tab[t].set.a = jar'.a]_vars

\* handleExt: when Miaozhen or Tencent sends the browser back, the handler serves the
\* request for the source whose redirect it follows.
SourceKept ==
    \A t \in Tabs :
       (tab[t].st = "resp" /\ tab[t].prev.via \in {4, 12}) =>
          tab[t].log.source = tab[t].prev.source

\* The comment at pid 7 in handle: "redir=...&s=${source} needs escaping", so that
\* Admaster, too, sends the browser back with the source of the chain.
AdmasterKeepsSource ==
    \A t \in Tabs :
       (tab[t].st = "resp" /\ tab[t].prev.via = 7) =>
          tab[t].log.source = tab[t].prev.source

\* log_save: a pair that goes to the mapping store joins an rmid that was created
\* with an id of the very party under whose code it is stored.
PairIntegrity ==
    \A p \in pairs : p.rmid \in 1 .. nextRmid - 1 /\ p.uid = p.ext

\* checkVaildExpire against what it is for: the browser goes to a partner that is due
\* and as heavy as any that is due, and stays or goes home only if nobody with a
\* positive weight is due.
Due(p, c, pid, t) == c.t[pid] = NoTime \/ c.t[pid] + p.expires[pid] < t

WinnerIsBest ==
    [][\A t \in Tabs :
         (tab[t].st = "req" /\ tab'[t].st = "resp" /\ tab'[t].log.error = 0
            /\ tab'[t].log.m = 0) =>
            \E tb \in Tables :
               LET l   == tab'[t].log
                   p   == tb[l.source]
                   due == {pid \in DOMAIN p.expires :
                             /\ Due(p, tab[t].cookies, pid, now)
                             /\ ~(JustBack(l.ext, pid) /\ tab[t].cookies.t[pid] = NoTime)}
               IN  /\ l.source \in DOMAIN tb
                   /\ \/ p.open = 0
                      \/ /\ l.winner \in due /\ Weight(p, l.winner) > 0
                         /\ \A q \in due : Weight(p, q) <= Weight(p, l.winner)
                      \/ l.winner = 0 /\ \A q \in due : Weight(p, q) <= 0]_vars

\* The comment in dofilter: a partner without a URL is "treated as impossible to
\* redirect to", so the time of a mapping is only kept for a partner that was visited.
TimeCookieMeansVisit ==
    \A pid \in Pids : jar.t[pid] # NoTime => last[pid] # NoTime

\* handle: every chain of redirects comes to an end, for a browser that keeps its
\* cookies and for one that keeps none.
ChainTerminates ==
    \A t \in Tabs : tab[t].st # "idle" ~> tab[t].st = "idle"

==============================================================================
