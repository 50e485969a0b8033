---------------------------- MODULE MappingProofs ----------------------------
(***************************************************************************)
(* Proofs about Mapping, for every number of tabs, every partner table,    *)
(* every set of pixels and every bound.  TypeOK is inductive by itself;    *)
(* what goes with it is, for NoEarlyRepeat, CookiesTrackVisits (the        *)
(* handler only sees cookies, the property speaks of redirects), for       *)
(* SourceKept SourceInv, for PairIntegrity RequestsOwn, and for the rmid   *)
(* of a browser with one tab OneIdentity.                                  *)
(***************************************************************************)
EXTENDS Mapping, FiniteSetTheorems, WellFoundedInduction, TLAPS

USE DEF NoSource, NoRmid, NoUid, NoTime

------------------------------------------------------------------------------
(* The arithmetic and the choice of checkVaildExpire *)

\* Wrap changes nothing below the int limit.
LEMMA WrapIsIdentity ==
    ASSUME NEW n \in Nat, n <= IntMax
    PROVE  Wrap(n) = n
<1> DEFINE a == n + IntMax + 1
           b == 2 * (IntMax + 1)
<1>1. a \in Nat /\ b \in Nat /\ b > 0 /\ a < b
  BY BoundsAssumption
<1>2. a % b = a
  BY <1>1
<1> QED
  BY <1>1, <1>2, BoundsAssumption DEF Wrap

\* checkVaildExpire answers 0 or one of its winners, a pid that has a cycle.
LEMMA ChosenIsWinner ==
    ASSUME NEW ext, NEW p, NEW c, NEW time,
           NEW pid \in checkVaildExpire(ext, p, c, time), pid # 0
    PROVE  pid \in Winners(ext, p, c, time) /\ pid \in DOMAIN p.expires
<1>1. pid \in Winners(ext, p, c, time)
  BY DEF checkVaildExpire
<1> QED
  BY <1>1 DEF Winners

\* A pid that dofilter chooses in a state of the system, for the request of tab t.
LEMMA ChosenPid ==
    ASSUME NEW t \in Tabs, NEW tb \in Tables, Filtering(t, tb),
           NEW pid \in dofilter(t, tb), pid # 0
    PROVE  /\ Source(Req(t)) \in DOMAIN tb
           /\ pid \in Winners(Ext(Req(t)), Partner(t, tb), Cookies(t), now)
           /\ pid \in DOMAIN Partner(t, tb).expires
           /\ pid \in Pids
<1>1. Source(Req(t)) \in DOMAIN tb
  BY DEF Filtering, Error, ERROR_BAD_EXT, ERROR_COOKIE_GET
<1>2. pid \in Winners(Ext(Req(t)), Partner(t, tb), Cookies(t), now)
      /\ pid \in DOMAIN Partner(t, tb).expires
  BY ChosenIsWinner DEF dofilter
<1> QED
  BY <1>1, <1>2, TablesAssumption DEF Partner

------------------------------------------------------------------------------
(* Type correctness *)

\* A user id taken from the parameters of a request is a number, whichever
\* parameter handleExt reads it from.
LEMMA UidIsNat ==
    ASSUME NEW r, NEW tb, \A name \in DOMAIN r.ids : r.ids[name] \in Nat
    PROVE  Uid(r, tb) \in Nat
  BY DEF Uid, Param

\* What an answer with a well-typed location changes is well-typed again.
LEMMA AnswerType ==
    ASSUME TypeOK,
           NEW t \in Tabs, NEW tb \in Tables, tab[t].st = "req",
           NEW m, NEW pid, NEW error, NEW timePid \in Pids \cup {0}, NEW loc,
           loc.to = "partner" => loc.pid \in Pids,
           Answer(t, tb, m, pid, error, timePid, loc),
           UNCHANGED <<now, kept, ua, jar, last, starts, clears>>
    PROVE  TypeOK'
<1>1. /\ nextRmid' \in Nat \ {0} /\ nextRmid' >= nextRmid
      /\ SetsRmid(Req(t), Cookies(t)) => nextRmid' = nextRmid + 1
  BY DEF Answer, TypeOK
<1>2. TimeCookie(now) \in 0 .. now
  BY WrapIsIdentity, BoundsAssumption DEF TypeOK, TimeCookie
<1>3. Uid(Req(t), tb) \in Nat
  BY UidIsNat DEF TypeOK, TabOK, Req
<1>4. DOMAIN tab' = Tabs /\ \A u \in Tabs \ {t} : tab'[u] = tab[u]
  BY DEF Answer, TypeOK
<1>5. /\ tab'[t].st = "resp" /\ tab'[t].loc = loc
      /\ tab'[t].set = [a |-> IF SetsRmid(Req(t), Cookies(t)) THEN nextRmid ELSE NoRmid,
                        amz |-> IF SetsAmz(Req(t), Cookies(t))
                                THEN Uid(Req(t), tb) ELSE NoLine,
                        pid |-> timePid, time |-> TimeCookie(now)]
  BY DEF Answer, TypeOK
<1>6. /\ tab'[t].set.a \in Nat /\ tab'[t].set.a < nextRmid' /\ tab'[t].set.amz \in Nat \cup {NoLine}
      /\ tab'[t].set.pid \in Pids \cup {0} /\ tab'[t].set.time \in 0 .. now'
  <2>1. tab'[t].set.a = (IF SetsRmid(Req(t), Cookies(t)) THEN nextRmid ELSE NoRmid)
    BY <1>5
  <2>2. tab'[t].set.amz = (IF SetsAmz(Req(t), Cookies(t)) THEN Uid(Req(t), tb) ELSE NoLine)
    BY <1>5
  <2>3. tab'[t].set.pid = timePid /\ tab'[t].set.time = TimeCookie(now) /\ now' = now
    BY <1>5
  <2>4. tab'[t].set.a \in Nat /\ tab'[t].set.a < nextRmid'
    BY <2>1, <1>1 DEF TypeOK
  <2>5. tab'[t].set.amz \in Nat \cup {NoLine}
    BY <2>2, <1>3
  <2> QED
    BY <2>3, <2>4, <2>5, <1>2
<1>7. ASSUME NEW u \in Tabs
      PROVE  TabOK(u)'
  <2>1. CASE u = t
    BY <2>1, <1>5, <1>6 DEF TabOK
  <2>2. CASE u # t
    BY <2>2, <1>1, <1>4 DEF TypeOK, TabOK, CookieSet
  <2> QED
    BY <2>1, <2>2
<1>8. jar'.a < nextRmid'
  BY <1>1 DEF TypeOK, CookieSet
<1> QED
  BY <1>1, <1>4, <1>7, <1>8 DEF TypeOK

\* handle leaves a well-typed state, whichever way it answers.
LEMMA HandleType ==
    ASSUME TypeOK, NEW t \in Tabs, Handle(t)
    PROVE  TypeOK'
<1> USE DEF Nowhere, SelfUrl, PartnerUrl
<1>1. PICK tb \in Tables :
          \/ EndError(t, tb) \/ EndClosed(t, tb) \/ EndMobile(t, tb)
          \/ GoTencentSelf(t, tb) \/ NobodyDue(t, tb) \/ NoUrl(t, tb)
          \/ GoPartner(t, tb) \/ Crash(t, tb)
  BY DEF Handle
<1>2. tab[t].st = "req" /\ UNCHANGED <<now, kept, ua, jar, last, starts, clears>>
  BY DEF Handle
<1>3. CASE EndError(t, tb)
  BY <1>2, <1>3, AnswerType DEF EndError
<1>4. CASE EndClosed(t, tb)
  BY <1>2, <1>4, AnswerType DEF EndClosed
<1>5. CASE EndMobile(t, tb)
  BY <1>2, <1>5, AnswerType DEF EndMobile
<1>6. CASE GoTencentSelf(t, tb)
  BY <1>2, <1>6, AnswerType DEF GoTencentSelf
<1>7. CASE NobodyDue(t, tb)
  <2>1. CASE Partner(t, tb).self
    BY <2>1, <1>2, <1>7, AnswerType DEF NobodyDue
  <2>2. CASE ~Partner(t, tb).self
    BY <2>2, <1>2, <1>7, AnswerType DEF NobodyDue
  <2> QED
    BY <2>1, <2>2
<1>8. CASE NoUrl(t, tb)
  <2>1. PICK pid \in dofilter(t, tb) \ {0} : Answer(t, tb, 0, pid, ERROR_NO_URL, pid, Nowhere)
    BY <1>8 DEF NoUrl
  <2>2. pid \in Pids
    BY <1>8, ChosenPid DEF NoUrl
  <2> QED
    BY <2>1, <2>2, <1>2, AnswerType
<1>9. CASE GoPartner(t, tb)
  <2>1. PICK pid \in dofilter(t, tb) \ {0} :
            Answer(t, tb, 0, pid, 0, pid, PartnerUrl(pid, Source(Req(t))))
    BY <1>9 DEF GoPartner
  <2>2. pid \in Pids
    BY <1>9, ChosenPid DEF GoPartner
  <2> QED
    BY <2>1, <2>2, <1>2, AnswerType
<1>10. CASE Crash(t, tb)
  <2>1. /\ DOMAIN tab' = Tabs /\ tab'[t].st = "idle" /\ nextRmid' = nextRmid
        /\ \A u \in Tabs \ {t} : tab'[u] = tab[u]
    BY <1>10 DEF Crash, TypeOK, Idle
  <2>2. ASSUME NEW u \in Tabs
        PROVE  TabOK(u)'
    BY <2>1, <1>2 DEF TypeOK, TabOK
  <2> QED
    BY <2>1, <2>2, <1>2 DEF TypeOK
<1> QED
  BY <1>1, <1>3, <1>4, <1>5, <1>6, <1>7, <1>8, <1>9, <1>10

\* A page that embeds a pixel starts a chain in a well-typed state.
LEMMA StartType ==
    ASSUME TypeOK, NEW t \in Tabs, Start(t)
    PROVE  TypeOK'
<1>1. PICK r \in StartRequests : Send(t, r, NoLeg)
  BY DEF Start
<1>2. /\ starts' \in 0 .. MaxStarts
      /\ UNCHANGED <<now, kept, ua, jar, nextRmid, pairs, last, clears>>
  BY BoundsAssumption DEF Start, TypeOK
<1>3. /\ DOMAIN tab' = Tabs /\ \A u \in Tabs \ {t} : tab'[u] = tab[u]
      /\ tab'[t].st = "req" /\ tab'[t].req = r /\ tab'[t].cookies = jar /\ tab'[t].seen = last
  BY <1>1 DEF Send, TypeOK
<1>4. ASSUME NEW u \in Tabs
      PROVE  TabOK(u)'
  BY <1>2, <1>3, RequestsAssumption DEF TypeOK, TabOK
<1> QED
  BY <1>2, <1>3, <1>4 DEF TypeOK

\* A partner that sends the browser back leaves a well-typed state.
LEMMA ReturnType ==
    ASSUME TypeOK, NEW t \in Tabs, Return(t)
    PROVE  TypeOK'
<1>1. /\ Send(t, BackFrom(tab[t].loc), tab[t].prev)
      /\ UNCHANGED <<now, kept, ua, jar, nextRmid, pairs, last, starts, clears>>
  BY DEF Return
<1>2. \A name \in DOMAIN BackFrom(tab[t].loc).ids : BackFrom(tab[t].loc).ids[name] \in Nat
  BY DEF BackFrom, FromMiaozhen, FromTencent, FromAdmaster
<1>3. /\ DOMAIN tab' = Tabs /\ \A u \in Tabs \ {t} : tab'[u] = tab[u]
      /\ tab'[t].st = "req" /\ tab'[t].req = BackFrom(tab[t].loc)
      /\ tab'[t].cookies = jar /\ tab'[t].seen = last
  BY <1>1 DEF Send, TypeOK
<1>4. ASSUME NEW u \in Tabs
      PROVE  TabOK(u)'
  BY <1>1, <1>2, <1>3 DEF TypeOK, TabOK
<1> QED
  BY <1>1, <1>3, <1>4 DEF TypeOK

\* The cookies and the redirect of an answer leave a well-typed state.
LEMMA ReceiveType ==
    ASSUME TypeOK, NEW t \in Tabs, Receive(t)
    PROVE  TypeOK'
<1>1. /\ tab[t].st = "resp" /\ TabOK(t)
      /\ UNCHANGED <<now, kept, ua, nextRmid, pairs, starts, clears>>
  BY DEF Receive, TypeOK
<1>2. tab[t].set.time \in TimeOrNone /\ tab[t].set.time <= now
  <2>1. tab[t].set.time \in 0 .. now
    BY <1>1 DEF TabOK
  <2>2. now \in 0 .. MaxTime /\ MaxTime \in Nat
    BY BoundsAssumption DEF TypeOK
  <2> QED
    BY <2>1, <2>2 DEF TimeOrNone
<1>3. /\ jar' \in CookieSet /\ jar'.a < nextRmid' /\ \A pid \in Pids : jar'.t[pid] <= now'
  <2>1. jar'.a \in Nat /\ jar'.a < nextRmid /\ jar'.amz \in Nat
    BY <1>1 DEF Receive, TypeOK, TabOK, CookieSet
  <2>2. jar'.t \in [Pids -> TimeOrNone] /\ \A pid \in Pids : jar'.t[pid] <= now
    <3>1. jar.t \in [Pids -> TimeOrNone] /\ \A pid \in Pids : jar.t[pid] <= now
      BY DEF TypeOK, CookieSet
    <3>3. CASE tab[t].set.pid # 0 /\ "t" \in kept
      <4>1. jar'.t = [jar.t EXCEPT ![tab[t].set.pid] = tab[t].set.time]
        BY <3>3 DEF Receive
      <4> QED
        BY <3>1, <4>1, <1>2
    <3>4. CASE ~(tab[t].set.pid # 0 /\ "t" \in kept)
      BY <3>1, <3>4 DEF Receive
    <3> QED
      BY <3>3, <3>4
  <2>3. jar' = [a |-> jar'.a, amz |-> jar'.amz, t |-> jar'.t]
    BY DEF Receive
  <2> QED
    BY <1>1, <2>1, <2>2, <2>3 DEF CookieSet
<1>4. last' \in [Pids -> TimeOrNone] /\ \A pid \in Pids : last'[pid] <= now'
  <2>1. last \in [Pids -> TimeOrNone] /\ \A pid \in Pids : last[pid] <= now
    BY DEF TypeOK
  <2>3. CASE tab[t].loc.to = "partner"
    <3>1. last' = [last EXCEPT ![tab[t].loc.pid] = tab[t].set.time]
      BY <2>3 DEF Receive
    <3> QED
      BY <1>1, <1>2, <2>1, <3>1
  <2>4. CASE tab[t].loc.to # "partner"
    BY <1>1, <2>1, <2>4 DEF Receive
  <2> QED
    BY <2>3, <2>4
<1>5. /\ DOMAIN tab' = Tabs /\ \A u \in Tabs \ {t} : tab'[u] = tab[u]
      /\ tab'[t].st \in {"away", "idle"}
  BY DEF Receive, TypeOK, Idle
<1>6. ASSUME NEW u \in Tabs
      PROVE  TabOK(u)'
  BY <1>1, <1>5 DEF TypeOK, TabOK
<1> QED
  BY <1>1, <1>3, <1>4, <1>5, <1>6 DEF TypeOK

\* A tab that is given up leaves a well-typed state.
LEMMA AbandonType ==
    ASSUME TypeOK, NEW t \in Tabs, Abandon(t)
    PROVE  TypeOK'
<1>1. /\ DOMAIN tab' = Tabs /\ \A u \in Tabs \ {t} : tab'[u] = tab[u]
      /\ tab'[t].st = "idle"
      /\ UNCHANGED <<now, kept, ua, jar, nextRmid, pairs, last, starts, clears>>
  BY DEF Abandon, TypeOK, Idle
<1>2. ASSUME NEW u \in Tabs
      PROVE  TabOK(u)'
  BY <1>1 DEF TypeOK, TabOK
<1> QED
  BY <1>1, <1>2 DEF TypeOK

\* Clearing the cookies and the passing of time leave a well-typed state.
LEMMA ClearAndTickType ==
    ASSUME TypeOK, Clear \/ Tick
    PROVE  TypeOK'
<1>1. CASE Clear
  <2>1. /\ jar' \in CookieSet /\ jar'.a = 0 /\ jar'.t = [pid \in Pids |-> -1]
        /\ last' = [pid \in Pids |-> -1] /\ clears' \in 0 .. MaxClears
        /\ UNCHANGED <<now, kept, ua, tab, nextRmid, starts>>
    BY <1>1, BoundsAssumption DEF Clear, NoCookies, CookieSet, TimeOrNone, TypeOK
  <2>2. ASSUME NEW u \in Tabs
        PROVE  TabOK(u)'
    BY <2>1 DEF TypeOK, TabOK
  <2> QED
    BY <2>1, <2>2 DEF TypeOK, TimeOrNone
<1>2. CASE Tick
  <2>1. /\ now' \in 0 .. MaxTime /\ now' = now + 1
        /\ UNCHANGED <<kept, ua, jar, tab, nextRmid, last, starts, clears>>
    BY <1>2, BoundsAssumption DEF Tick, TypeOK
  <2>2. ASSUME NEW u \in Tabs
        PROVE  TabOK(u)'
    BY <2>1 DEF TypeOK, TabOK
  <2>3. \A pid \in Pids : jar.t[pid] <= now' /\ last[pid] <= now'
    BY <2>1 DEF TypeOK, CookieSet, TimeOrNone
  <2> QED
    BY <2>1, <2>2, <2>3 DEF TypeOK
<1> QED
  BY <1>1, <1>2

\* Type correctness: the cookies of the browser, of its requests and of the answers
\* to them hold times the clock has reached and rmids that were created.
THEOREM TypeCorrect == Spec => []TypeOK
<1>1. Init => TypeOK
  BY BoundsAssumption DEF Init, TypeOK, TabOK, NoCookies, CookieSet, TimeOrNone, Idle
<1>2. TypeOK /\ [Next]_vars => TypeOK'
  <2> SUFFICES ASSUME TypeOK, [Next]_vars PROVE TypeOK'
    OBVIOUS
  <2>1. ASSUME NEW t \in Tabs, Start(t) PROVE TypeOK'
    BY <2>1, StartType
  <2>2. ASSUME NEW t \in Tabs, Handle(t) PROVE TypeOK'
    BY <2>2, HandleType
  <2>3. ASSUME NEW t \in Tabs, Receive(t) PROVE TypeOK'
    BY <2>3, ReceiveType
  <2>4. ASSUME NEW t \in Tabs, Return(t) PROVE TypeOK'
    BY <2>4, ReturnType
  <2>5. ASSUME NEW t \in Tabs, Abandon(t) PROVE TypeOK'
    BY <2>5, AbandonType
  <2>6. CASE Clear \/ Tick
    BY <2>6, ClearAndTickType
  <2>7. CASE UNCHANGED vars
    BY <2>7 DEF vars, TypeOK, TabOK
  <2> QED
    BY <2>1, <2>2, <2>3, <2>4, <2>5, <2>6, <2>7 DEF Next
<1> QED
  BY <1>1, <1>2, PTL DEF Spec

------------------------------------------------------------------------------
(* The cookies t_<pid> tell where the browser has been *)

\* The part of CookiesTrackVisits that speaks of one tab.
TabTracks(t) ==
    /\ tab[t].st = "req" => tab[t].cookies.t = tab[t].seen
    /\ tab[t].st = "resp" =>
          tab[t].set.pid = (IF tab[t].loc.to = "partner" THEN tab[t].loc.pid ELSE 0)

\* An answer that sets the cookie of the redirect it makes keeps the cookies in step.
LEMMA AnswerTracks ==
    ASSUME TypeOK, NEW t \in Tabs, NEW tb \in Tables, \A u \in Tabs : TabTracks(u),
           NEW m, NEW pid, NEW error, NEW timePid, NEW loc,
           timePid = (IF loc.to = "partner" THEN loc.pid ELSE 0),
           Answer(t, tb, m, pid, error, timePid, loc)
    PROVE  \A u \in Tabs : TabTracks(u)'
<1>1. \A u \in Tabs \ {t} : tab'[u] = tab[u]
  BY DEF Answer, TypeOK
<1>2. tab'[t].st = "resp" /\ tab'[t].loc = loc /\ tab'[t].set.pid = timePid
  BY DEF Answer, TypeOK
<1>3. TabTracks(t)'
  BY <1>2 DEF TabTracks
<1>4. \A u \in Tabs \ {t} : TabTracks(u)'
  BY <1>1 DEF TabTracks
<1> QED
  BY <1>3, <1>4

\* handle keeps them in step when every pid with a cycle has a URL: then the answer
\* that sets a cookie without a redirect (NoUrl) is never given.
LEMMA HandleTracks ==
    ASSUME TypeOK, UrlsComplete, NEW t \in Tabs, \A u \in Tabs : TabTracks(u), Handle(t)
    PROVE  \A u \in Tabs : TabTracks(u)'
<1> USE DEF Nowhere, SelfUrl, PartnerUrl
<1>1. PICK tb \in Tables :
          \/ EndError(t, tb) \/ EndClosed(t, tb) \/ EndMobile(t, tb)
          \/ GoTencentSelf(t, tb) \/ NobodyDue(t, tb) \/ NoUrl(t, tb)
          \/ GoPartner(t, tb) \/ Crash(t, tb)
  BY DEF Handle
<1>2. CASE EndError(t, tb)
  BY <1>2, AnswerTracks DEF EndError
<1>3. CASE EndClosed(t, tb)
  BY <1>3, AnswerTracks DEF EndClosed
<1>4. CASE EndMobile(t, tb)
  <2>1. Answer(t, tb, 1, 0, 0, 0, Nowhere)
    BY <1>4 DEF EndMobile
  <2> QED
    BY <2>1, AnswerTracks
<1>5. CASE GoTencentSelf(t, tb)
  <2>1. PICK pid \in dofilter(t, tb) : Answer(t, tb, 0, pid, 0, 0, SelfUrl)
    BY <1>5 DEF GoTencentSelf
  <2> QED
    BY <2>1, AnswerTracks
<1>6. CASE NobodyDue(t, tb)
  <2>1. CASE Partner(t, tb).self
    BY <2>1, <1>6, AnswerTracks DEF NobodyDue
  <2>2. CASE ~Partner(t, tb).self
    BY <2>2, <1>6, AnswerTracks DEF NobodyDue
  <2> QED
    BY <2>1, <2>2
<1>7. CASE NoUrl(t, tb)
  <2>1. PICK pid \in dofilter(t, tb) \ {0} : pid \notin Partner(t, tb).url
    BY <1>7 DEF NoUrl
  <2>2. Source(Req(t)) \in DOMAIN tb /\ pid \in DOMAIN Partner(t, tb).expires
    BY <1>7, ChosenPid DEF NoUrl
  <2> QED
    BY <2>1, <2>2 DEF UrlsComplete, Partner
<1>8. CASE GoPartner(t, tb)
  <2>1. PICK pid \in dofilter(t, tb) \ {0} :
            Answer(t, tb, 0, pid, 0, pid, PartnerUrl(pid, Source(Req(t))))
    BY <1>8 DEF GoPartner
  <2> QED
    BY <2>1, AnswerTracks
<1>9. CASE Crash(t, tb)
  BY <1>9 DEF Crash, TypeOK, Idle, TabTracks
<1> QED
  BY <1>1, <1>2, <1>3, <1>4, <1>5, <1>6, <1>7, <1>8, <1>9

\* The answer that arrives writes the time of its redirect into the jar and into the
\* history alike.
LEMMA ReceiveTracks ==
    ASSUME TypeOK, "t" \in kept, NEW t \in Tabs, jar.t = last,
           \A u \in Tabs : TabTracks(u), Receive(t)
    PROVE  jar'.t = last' /\ \A u \in Tabs : TabTracks(u)'
<1>1. /\ tab[t].set.pid = (IF tab[t].loc.to = "partner" THEN tab[t].loc.pid ELSE 0)
      /\ tab[t].loc.to = "partner" => tab[t].loc.pid \in Pids /\ tab[t].loc.pid # 0
  BY BoundsAssumption DEF Receive, TabTracks, TypeOK, TabOK
<1>2. jar'.t = last'
  <2>1. CASE tab[t].loc.to = "partner"
    BY <1>1, <2>1 DEF Receive
  <2>2. CASE tab[t].loc.to # "partner"
    BY <1>1, <2>2 DEF Receive
  <2> QED
    BY <2>1, <2>2
<1>3. /\ \A u \in Tabs \ {t} : tab'[u] = tab[u]
      /\ tab'[t].st \in {"away", "idle"}
  BY DEF Receive, TypeOK, Idle
<1> QED
  BY <1>2, <1>3 DEF TabTracks

\* One step of the system keeps CookiesTrackVisits.
LEMMA TracksStep ==
    ASSUME TypeOK, CookiesTrackVisits, [Next]_vars
    PROVE  CookiesTrackVisits'
<1>1. kept' = kept
  BY DEF Next, vars, Start, Handle, Receive, Return, Abandon, Clear, Tick
<1> SUFFICES ASSUME UrlsComplete, "t" \in kept
             PROVE  jar'.t = last' /\ \A u \in Tabs : TabTracks(u)'
  BY <1>1 DEF CookiesTrackVisits, TabTracks, UrlsComplete
<1>2. jar.t = last /\ \A u \in Tabs : TabTracks(u)
  BY DEF CookiesTrackVisits, TabTracks
<1>3. ASSUME NEW t \in Tabs, Start(t) \/ Return(t) \/ Abandon(t)
      PROVE  jar'.t = last' /\ \A u \in Tabs : TabTracks(u)'
  <2>1. jar' = jar /\ last' = last /\ \A u \in Tabs \ {t} : tab'[u] = tab[u]
    BY <1>3 DEF Start, Return, Abandon, Send, TypeOK
  <2>2. \/ tab'[t].st = "idle"
        \/ tab'[t].st = "req" /\ tab'[t].cookies = jar /\ tab'[t].seen = last
    BY <1>3 DEF Start, Return, Abandon, Send, Idle, TypeOK
  <2> QED
    BY <1>2, <2>1, <2>2 DEF TabTracks
<1>4. ASSUME NEW t \in Tabs, Handle(t)
      PROVE  jar'.t = last' /\ \A u \in Tabs : TabTracks(u)'
  <2>1. jar' = jar /\ last' = last
    BY <1>4 DEF Handle
  <2> QED
    BY <1>2, <1>4, <2>1, HandleTracks
<1>5. ASSUME NEW t \in Tabs, Receive(t)
      PROVE  jar'.t = last' /\ \A u \in Tabs : TabTracks(u)'
  BY <1>2, <1>5, ReceiveTracks
<1>6. CASE Clear
  BY <1>2, <1>6 DEF Clear, NoCookies, TabTracks
<1>7. CASE Tick
  BY <1>2, <1>7 DEF Tick, TabTracks
<1>8. CASE UNCHANGED vars
  BY <1>2, <1>8 DEF vars, TabTracks
<1> QED
  BY <1>3, <1>4, <1>5, <1>6, <1>7, <1>8 DEF Next

\* In a browser that keeps them, the cookies t_<pid> of the jar and of every request
\* under way record exactly the redirects that have arrived: handle sets the cookie of
\* the redirect it makes and no other.
THEOREM CookiesTrack == Spec => []CookiesTrackVisits
<1>1. Init => CookiesTrackVisits
  BY DEF Init, CookiesTrackVisits, NoCookies, Idle
<1>2. TypeOK /\ CookiesTrackVisits /\ [Next]_vars => CookiesTrackVisits'
  BY TracksStep
<1> QED
  BY <1>1, <1>2, TypeCorrect, PTL DEF Spec

------------------------------------------------------------------------------
(* No partner is visited again before its cycle has passed *)

\* The only step that answers a request is handle's.
LEMMA OnlyHandle ==
    ASSUME TypeOK, [Next]_vars, NEW t \in Tabs, tab[t].st = "req", tab'[t].st = "resp"
    PROVE  Handle(t)
<1>1. ASSUME NEW u \in Tabs, Handle(u) PROVE Handle(t)
  <2>1. tab'[t] # tab[t]
    OBVIOUS
  <2>2. \A v \in Tabs \ {u} : tab'[v] = tab[v]
    BY <1>1 DEF Handle, EndError, EndClosed, EndMobile, GoTencentSelf, NobodyDue, NoUrl,
                GoPartner, Crash, Answer, TypeOK
  <2> QED
    BY <1>1, <2>1, <2>2
<1>2. ASSUME NEW u \in Tabs, Start(u) \/ Receive(u) \/ Return(u) \/ Abandon(u) PROVE FALSE
  BY <1>2 DEF Start, Receive, Return, Abandon, Send, Idle, TypeOK
<1>3. CASE Clear \/ Tick \/ UNCHANGED vars
  BY <1>3 DEF Clear, Tick, vars
<1> QED
  BY <1>1, <1>2, <1>3 DEF Next

\* Of its answers only GoPartner's has a partner for its location.
LEMMA OnlyGoPartner ==
    ASSUME TypeOK, [Next]_vars, NEW t \in Tabs,
           tab[t].st = "req", tab'[t].st = "resp", tab'[t].loc.to = "partner"
    PROVE  \E tb \in Tables : GoPartner(t, tb)
<1>1. Handle(t)
  BY OnlyHandle
<1>2. PICK tb \in Tables :
          \/ EndError(t, tb) \/ EndClosed(t, tb) \/ EndMobile(t, tb)
          \/ GoTencentSelf(t, tb) \/ NobodyDue(t, tb) \/ NoUrl(t, tb)
          \/ GoPartner(t, tb) \/ Crash(t, tb)
  BY <1>1 DEF Handle
<1>3. ASSUME NEW m, NEW pid, NEW error, NEW timePid, NEW loc,
             Answer(t, tb, m, pid, error, timePid, loc)
      PROVE  loc.to = "partner"
  BY <1>3 DEF Answer, TypeOK
<1>4. ~ (EndError(t, tb) \/ EndClosed(t, tb) \/ EndMobile(t, tb) \/ GoTencentSelf(t, tb))
  BY <1>3 DEF EndError, EndClosed, EndMobile, GoTencentSelf, Nowhere, SelfUrl
<1>5. ~ (NobodyDue(t, tb) \/ NoUrl(t, tb))
  BY <1>3 DEF NobodyDue, NoUrl, Nowhere, SelfUrl
<1>6. ~ Crash(t, tb)
  BY DEF Crash, TypeOK, Idle
<1> QED
  BY <1>2, <1>4, <1>5, <1>6

\* A browser that keeps its cookies is not redirected to a partner before the cycle of
\* that partner has passed since the last redirect that had arrived: checkVaildExpire
\* reads the cookie, and the cookie is the history.
THEOREM NoPartnerTwice == Spec => NoEarlyRepeat
<1> DEFINE
      Early(t) ==
         LET pid == tab'[t].loc.pid
             src == tab'[t].loc.source
         IN  \/ tab[t].seen[pid] = NoTime
             \/ \E tb \in Tables :
                   /\ src \in DOMAIN tb /\ pid \in DOMAIN tb[src].expires
                   /\ tab[t].seen[pid] + tb[src].expires[pid] < now
<1>1. ASSUME TypeOK, CookiesTrackVisits, [Next]_vars, UrlsComplete, "t" \in kept,
             NEW t \in Tabs,
             tab[t].st = "req", tab'[t].st = "resp", tab'[t].loc.to = "partner"
      PROVE  Early(t)
  <2>1. PICK tb \in Tables : GoPartner(t, tb)
    BY <1>1, OnlyGoPartner
  <2>2. PICK pid \in dofilter(t, tb) \ {0} :
            Answer(t, tb, 0, pid, 0, pid, PartnerUrl(pid, Source(Req(t))))
    BY <2>1 DEF GoPartner
  <2>3. tab'[t].loc.pid = pid /\ tab'[t].loc.source = Source(Req(t))
    BY <1>1, <2>2 DEF Answer, PartnerUrl, TypeOK
  <2>4. /\ Source(Req(t)) \in DOMAIN tb /\ pid \in DOMAIN Partner(t, tb).expires
        /\ pid \in Winners(Ext(Req(t)), Partner(t, tb), Cookies(t), now)
        /\ pid \in Pids
    BY <2>1, ChosenPid DEF GoPartner
  <2>5. Cookies(t).t[pid] = tab[t].seen[pid]
    BY <1>1 DEF CookiesTrackVisits, Cookies
  <2>6. \/ tab[t].seen[pid] = NoTime
        \/ /\ tab[t].seen[pid] # NoTime
           /\ Expired(tab[t].seen[pid], Partner(t, tb).expires[pid], now)
    BY <2>4, <2>5 DEF Winners
  <2>7. CASE tab[t].seen[pid] = NoTime
    BY <2>3, <2>7
  <2>8. CASE /\ tab[t].seen[pid] # NoTime
             /\ Expired(tab[t].seen[pid], Partner(t, tb).expires[pid], now)
    <3>1. tab[t].seen[pid] \in 0 .. MaxTime
      BY <1>1, <2>4, <2>8 DEF TypeOK, TabOK, TimeOrNone
    <3>2. /\ tb[Source(Req(t))].expires[pid] \in Nat
          /\ MaxTime + tb[Source(Req(t))].expires[pid] <= IntMax
      BY <2>4, TablesAssumption DEF Partner
    <3>3. Wrap(tab[t].seen[pid] + tb[Source(Req(t))].expires[pid])
            = tab[t].seen[pid] + tb[Source(Req(t))].expires[pid]
      BY <3>1, <3>2, WrapIsIdentity, BoundsAssumption
    <3> QED
      BY <2>3, <2>4, <2>8, <3>3 DEF Expired, Partner
  <2> QED
    BY <2>6, <2>7, <2>8
<1>2. TypeOK /\ CookiesTrackVisits /\ [Next]_vars =>
         [(UrlsComplete /\ "t" \in kept) =>
            \A t \in Tabs :
               (tab[t].st = "req" /\ tab'[t].st = "resp" /\ tab'[t].loc.to = "partner") =>
                  Early(t)]_vars
  BY <1>1
<1> QED
  BY <1>2, TypeCorrect, CookiesTrack, PTL DEF Spec, NoEarlyRepeat

------------------------------------------------------------------------------
(* The chain: whose request it is, for whom, and under which rmid *)

\* handle answers, and a redirect to a partner names the source of the request, which has a
\* record in the table; or the worker dies.
LEMMA HandleAnswers ==
    ASSUME TypeOK, NEW t \in Tabs, Handle(t)
    PROVE  \/ tab' = [tab EXCEPT ![t] = Idle] /\ UNCHANGED <<nextRmid, pairs>>
           \/ \E tb \in Tables : \E m, pid, error, timePid, loc :
                 /\ Answer(t, tb, m, pid, error, timePid, loc)
                 /\ loc.to = "partner" => loc.source = Source(Req(t)) /\ loc.source \in Nat
<1> USE DEF Nowhere, SelfUrl, PartnerUrl
<1>1. PICK tb \in Tables :
          \/ EndError(t, tb) \/ EndClosed(t, tb) \/ EndMobile(t, tb)
          \/ GoTencentSelf(t, tb) \/ NobodyDue(t, tb) \/ NoUrl(t, tb)
          \/ GoPartner(t, tb) \/ Crash(t, tb)
  BY DEF Handle
<1> DEFINE Goal == \E m, pid, error, timePid, loc :
                      /\ Answer(t, tb, m, pid, error, timePid, loc)
                      /\ loc.to = "partner" => loc.source = Source(Req(t)) /\ loc.source \in Nat
<1>2. ASSUME NEW m, NEW pid, NEW error, NEW timePid, NEW loc, loc.to # "partner",
             Answer(t, tb, m, pid, error, timePid, loc)
      PROVE  Goal
  BY <1>2
<1>3. ASSUME EndError(t, tb) \/ EndClosed(t, tb) \/ EndMobile(t, tb) PROVE Goal
  <2> HIDE DEF Goal
  <2> QED BY <1>2, <1>3 DEF EndError, EndClosed, EndMobile
<1>4. ASSUME GoTencentSelf(t, tb) \/ NoUrl(t, tb) PROVE Goal
  <2> HIDE DEF Goal
  <2> QED BY <1>2, <1>4 DEF GoTencentSelf, NoUrl
<1>5. ASSUME NobodyDue(t, tb) PROVE Goal
  <2> HIDE DEF Goal
  <2>1. (IF Partner(t, tb).self THEN SelfUrl ELSE Nowhere).to # "partner"
    OBVIOUS
  <2> QED BY <1>2, <1>5, <2>1 DEF NobodyDue
<1>6. ASSUME GoPartner(t, tb) PROVE Goal
  <2>1. PICK pid \in dofilter(t, tb) \ {0} :
            Answer(t, tb, 0, pid, 0, pid, PartnerUrl(pid, Source(Req(t))))
    BY <1>6 DEF GoPartner
  <2>2. Source(Req(t)) \in Nat
    BY <1>6, ChosenPid, TablesAssumption DEF GoPartner
  <2>3. PartnerUrl(pid, Source(Req(t))).source = Source(Req(t))
    OBVIOUS
  <2> QED BY <2>1, <2>2, <2>3
<1>7. ASSUME Crash(t, tb) PROVE tab' = [tab EXCEPT ![t] = Idle] /\ UNCHANGED <<nextRmid, pairs>>
  BY <1>7 DEF Crash
<1> HIDE DEF Goal
<1>8. Goal => \E m, pid, error, timePid, loc :
                 /\ Answer(t, tb, m, pid, error, timePid, loc)
                 /\ loc.to = "partner" => loc.source = Source(Req(t)) /\ loc.source \in Nat
  BY DEF Goal
<1> QED
  BY <1>1, <1>3, <1>4, <1>5, <1>6, <1>7, <1>8

\* What an answer leaves in the tab that waits for it.
LEMMA Answered ==
    ASSUME TypeOK, NEW t \in Tabs, NEW tb, NEW m, NEW pid, NEW error, NEW timePid, NEW loc,
           Answer(t, tb, m, pid, error, timePid, loc)
    PROVE  /\ DOMAIN tab' = Tabs /\ \A u \in Tabs \ {t} : tab'[u] = tab[u]
           /\ tab'[t].st = "resp" /\ tab'[t].loc = loc /\ tab'[t].prev = tab[t].prev
           /\ tab'[t].log.source = Source(Req(t)) /\ tab'[t].log.f = Flag(Req(t))
           /\ tab'[t].log.rmid = RmidOf(t)
           /\ tab'[t].set.a = (IF SetsRmid(Req(t), Cookies(t)) THEN nextRmid ELSE NoRmid)
           /\ tab'[t].cookies = tab[t].cookies
<1> DEFINE answer ==
      [st |-> "resp", req |-> Req(t), cookies |-> Cookies(t), loc |-> loc,
       set |-> [a |-> IF SetsRmid(Req(t), Cookies(t)) THEN nextRmid ELSE NoRmid,
                amz |-> IF SetsAmz(Req(t), Cookies(t)) THEN Uid(Req(t), tb) ELSE NoLine,
                pid |-> timePid, time |-> TimeCookie(now)],
       log |-> [source |-> Source(Req(t)), ext |-> Ext(Req(t)), f |-> Flag(Req(t)), m |-> m,
                uid |-> Uid(Req(t), tb), rmid |-> RmidOf(t), winner |-> pid, error |-> error],
       prev |-> tab[t].prev]
<1>1. tab' = [tab EXCEPT ![t] = answer]
  BY DEF Answer
<1>2. DOMAIN tab' = Tabs /\ tab'[t] = answer /\ \A u \in Tabs \ {t} : tab'[u] = tab[u]
  <2> HIDE DEF answer
  <2> QED BY <1>1 DEF TypeOK
<1> QED
  BY <1>2 DEF Cookies

\* The part of SourceKept that one tab needs: the source travels in the location of the
\* redirect, and from there in s (Miaozhen) or in the second ext (Tencent).
SourceInv(t) ==
    /\ tab[t].st = "req" /\ tab[t].prev.via \in {4, 12} =>
          Source(tab[t].req) = tab[t].prev.source
    /\ tab[t].st = "resp" =>
          /\ tab[t].loc.to = "partner" => tab[t].loc.source \in Nat
          /\ tab[t].prev.via \in {4, 12} => tab[t].log.source = tab[t].prev.source
    /\ tab[t].st = "away" =>
          /\ tab[t].loc.source \in Nat /\ tab[t].prev.source = tab[t].loc.source
          /\ tab[t].prev.via = tab[t].loc.pid

\* A request that Miaozhen or Tencent sends back names the source of the location.
LEMMA SourceComesBack ==
    ASSUME NEW loc, loc.source \in Nat, loc.pid \in {4, 12}
    PROVE  Source(BackFrom(loc)) = loc.source
<1>1. CASE loc.pid = 4
  BY <1>1 DEF BackFrom, FromMiaozhen, Source
<1>2. CASE loc.pid = 12
  <2> DEFINE r == FromTencent(loc)
  <2>1. /\ BackFrom(loc) = r /\ r.letter = "" /\ r.num = loc.source /\ r.s = -1 /\ r.page = "r"
    BY <1>2 DEF BackFrom, FromTencent
  <2> HIDE DEF r
  <2>2. "" \notin DOMAIN ExtLetters
    BY DEF ExtLetters
  <2>3. ExtCode(r) = loc.source
    BY <2>1, <2>2 DEF ExtCode
  <2>4. PageExt(r) = loc.source
    BY <2>1, <2>3 DEF PageExt
  <2> QED BY <2>1, <2>4 DEF Source
<1> QED
  BY <1>1, <1>2

LEMMA SourceStep ==
    ASSUME TypeOK, \A u \in Tabs : SourceInv(u), [Next]_vars
    PROVE  \A u \in Tabs : SourceInv(u)'
<1>1. ASSUME NEW t \in Tabs, \A u \in Tabs \ {t} : tab'[u] = tab[u], SourceInv(t)'
      PROVE  \A u \in Tabs : SourceInv(u)'
  <2>1. \A u \in Tabs \ {t} : SourceInv(u)'
    BY <1>1 DEF SourceInv
  <2> QED BY <1>1, <2>1
<1>2. ASSUME NEW t \in Tabs, Start(t) PROVE \A u \in Tabs : SourceInv(u)'
  <2>1. /\ \A u \in Tabs \ {t} : tab'[u] = tab[u]
        /\ tab'[t].st = "req" /\ tab'[t].prev.via = 0
    BY <1>2 DEF Start, Send, TypeOK, NoLeg
  <2> QED BY <1>1, <2>1 DEF SourceInv
<1>3. ASSUME NEW t \in Tabs, Handle(t) PROVE \A u \in Tabs : SourceInv(u)'
  <2>1. CASE tab' = [tab EXCEPT ![t] = Idle]
    <3>1. tab'[t].st = "idle" /\ \A u \in Tabs \ {t} : tab'[u] = tab[u]
      BY <2>1 DEF TypeOK, Idle
    <3> QED BY <1>1, <3>1 DEF SourceInv
  <2>2. ASSUME NEW tb, NEW m, NEW pid, NEW error, NEW timePid, NEW loc,
               Answer(t, tb, m, pid, error, timePid, loc),
               loc.to = "partner" => loc.source = Source(Req(t)) /\ loc.source \in Nat
        PROVE  \A u \in Tabs : SourceInv(u)'
    <3>1. /\ \A u \in Tabs \ {t} : tab'[u] = tab[u]
          /\ tab'[t].st = "resp" /\ tab'[t].loc = loc /\ tab'[t].prev = tab[t].prev
          /\ tab'[t].log.source = Source(Req(t))
      BY <2>2, Answered
    <3>2. tab[t].st = "req"
      BY <1>3 DEF Handle
    <3>3. SourceInv(t)'
      BY <2>2, <3>1, <3>2 DEF SourceInv, Req
    <3> QED BY <1>1, <3>1, <3>3
  <2> QED BY <1>3, <2>1, <2>2, HandleAnswers
<1>4. ASSUME NEW t \in Tabs, Receive(t) PROVE \A u \in Tabs : SourceInv(u)'
  <2>1. tab[t].st = "resp" /\ \A u \in Tabs \ {t} : tab'[u] = tab[u]
    BY <1>4 DEF Receive, TypeOK
  <2>2. CASE tab[t].loc.to = "partner"
    <3>1. /\ tab'[t].st = "away" /\ tab'[t].loc = tab[t].loc
          /\ tab'[t].prev.source = tab[t].loc.source /\ tab'[t].prev.via = tab[t].loc.pid
      BY <1>4, <2>2 DEF Receive, TypeOK
    <3> QED BY <1>1, <2>1, <2>2, <3>1 DEF SourceInv
  <2>3. CASE tab[t].loc.to # "partner"
    <3>1. tab'[t].st = "idle"
      BY <1>4, <2>3 DEF Receive, TypeOK, Idle
    <3> QED BY <1>1, <2>1, <3>1 DEF SourceInv
  <2> QED BY <2>2, <2>3
<1>5. ASSUME NEW t \in Tabs, Return(t) PROVE \A u \in Tabs : SourceInv(u)'
  <2>1. /\ tab[t].st = "away" /\ \A u \in Tabs \ {t} : tab'[u] = tab[u]
        /\ tab'[t].st = "req" /\ tab'[t].req = BackFrom(tab[t].loc) /\ tab'[t].prev = tab[t].prev
    BY <1>5 DEF Return, Send, TypeOK
  <2>2. tab[t].prev.via \in {4, 12} => Source(BackFrom(tab[t].loc)) = tab[t].prev.source
    BY <2>1, SourceComesBack DEF SourceInv
  <2> QED BY <1>1, <2>1, <2>2 DEF SourceInv
<1>6. ASSUME NEW t \in Tabs, Abandon(t) PROVE \A u \in Tabs : SourceInv(u)'
  <2>1. tab'[t].st = "idle" /\ \A u \in Tabs \ {t} : tab'[u] = tab[u]
    BY <1>6 DEF Abandon, TypeOK, Idle
  <2> QED BY <1>1, <2>1 DEF SourceInv
<1>7. CASE Clear \/ Tick \/ UNCHANGED vars
  BY <1>7 DEF Clear, Tick, vars, SourceInv
<1> QED
  BY <1>2, <1>3, <1>4, <1>5, <1>6, <1>7 DEF Next

\* handleExt: however long the chain and however many tabs there are, a request that Miaozhen
\* or Tencent sends back is served for the source whose redirect it follows.
THEOREM SourceComesAlong == Spec => []SourceKept
<1> DEFINE Inv == \A t \in Tabs : SourceInv(t)
<1>1. Init => Inv
  BY DEF Init, Idle, SourceInv
<1>2. TypeOK /\ Inv /\ [Next]_vars => Inv'
  BY SourceStep
<1>3. Inv => SourceKept
  BY DEF SourceInv, SourceKept
<1> QED
  BY <1>1, <1>2, <1>3, TypeCorrect, PTL DEF Spec

------------------------------------------------------------------------------
(* The pairs of the mapping store *)

\* The ids a request carries are those of the party it is from.
OwnIds(r) == \A name \in DOMAIN r.ids : r.ids[name] = Ext(r)

\* What a partner sends back carries that partner's id, under that partner's code.
LEMMA BackWithOwnIds ==
    ASSUME NEW loc
    PROVE  OwnIds(BackFrom(loc))
<1>1. OwnIds(FromMiaozhen(loc))
  <2> DEFINE r == FromMiaozhen(loc)
  <2>1. r.letter = "m" /\ r.exts = 1 /\ r.ids = [mid |-> 6]
    BY DEF FromMiaozhen
  <2> HIDE DEF r
  <2>2. "m" \in DOMAIN ExtLetters /\ ExtLetters["m"] = 6
    BY DEF ExtLetters
  <2>3. ExtCode(r) = 6
    BY <2>1, <2>2 DEF ExtCode
  <2>4. Ext(r) = 6
    BY <2>1, <2>3 DEF Ext, TwoExts, PageExt
  <2>5. \A name \in DOMAIN r.ids : r.ids[name] = 6
    BY <2>1
  <2> QED BY <2>4, <2>5 DEF OwnIds, r
<1>2. OwnIds(FromTencent(loc))
  <2> DEFINE r == FromTencent(loc)
  <2>1. r.s = -1 /\ r.exts = 2 /\ r.ids = [tuid |-> 2]
    BY DEF FromTencent
  <2> HIDE DEF r
  <2>2. Ext(r) = 2
    BY <2>1 DEF Ext, TwoExts, ext_type
  <2>3. \A name \in DOMAIN r.ids : r.ids[name] = 2
    BY <2>1
  <2> QED BY <2>2, <2>3 DEF OwnIds, r
<1>3. OwnIds(FromAdmaster(loc))
  <2> DEFINE r == FromAdmaster(loc)
  <2>1. r.letter = "" /\ r.num = 4
    BY DEF FromAdmaster
  <2>2. r.ids = [uid |-> 4] /\ r.exts = 1
    BY DEF FromAdmaster
  <2> HIDE DEF r
  <2>3. "" \notin DOMAIN ExtLetters
    BY DEF ExtLetters
  <2>4. ExtCode(r) = 4
    BY <2>1, <2>3 DEF ExtCode
  <2>5. Ext(r) = 4
    BY <2>2, <2>4 DEF Ext, TwoExts, PageExt
  <2>6. \A name \in DOMAIN r.ids : r.ids[name] = 4
    BY <2>2
  <2> QED BY <2>5, <2>6 DEF OwnIds, r
<1> QED
  BY <1>1, <1>2, <1>3 DEF BackFrom

\* So the id handleExt finds, if any, is the one of the party.
LEMMA UidIsOwn ==
    ASSUME NEW r, NEW tb, OwnIds(r), Uid(r, tb) # NoUid
    PROVE  Uid(r, tb) = Ext(r)
  BY DEF OwnIds, Uid, Param

\* The requests under way carry the ids of their own party.
RequestsOwn == \A t \in Tabs : tab[t].st = "req" => OwnIds(tab[t].req)

\* The pair log_save sends off.
LEMMA AnswerPairs ==
    ASSUME TypeOK, PairIntegrity, NEW t \in Tabs, tab[t].st = "req", OwnIds(Req(t)),
           NEW tb, NEW m, NEW pid, NEW error, NEW timePid, NEW loc,
           Answer(t, tb, m, pid, error, timePid, loc)
    PROVE  PairIntegrity'
<1>1. /\ nextRmid \in Nat \ {0} /\ Cookies(t).a \in Nat /\ Cookies(t).a < nextRmid
  BY DEF TypeOK, TabOK, CookieSet, Cookies
<1>2. nextRmid' = (IF SetsRmid(Req(t), Cookies(t)) THEN nextRmid + 1 ELSE nextRmid)
  BY DEF Answer
<1>3. nextRmid' \in Nat /\ nextRmid <= nextRmid'
  BY <1>1, <1>2
<1>4. \A p \in pairs : p.rmid \in 1 .. nextRmid' - 1 /\ p.uid = p.ext
  BY <1>1, <1>3 DEF PairIntegrity
<1>5. RmidOf(t) # NoRmid => RmidOf(t) \in 1 .. nextRmid' - 1
  BY <1>1, <1>2 DEF RmidOf, Rmid, IsNew, SetsRmid
<1>6. CASE SendsScylla(Req(t), RmidOf(t), Uid(Req(t), tb), m)
  <2> DEFINE p == [ext |-> Ext(Req(t)), rmid |-> RmidOf(t), uid |-> Uid(Req(t), tb)]
  <2>1. pairs' = pairs \cup {p}
    BY <1>6 DEF Answer
  <2>2. RmidOf(t) # NoRmid /\ Uid(Req(t), tb) # NoUid
    BY <1>6 DEF SendsScylla
  <2>3. Uid(Req(t), tb) = Ext(Req(t))
    BY <2>2, UidIsOwn
  <2>4. p.rmid \in 1 .. nextRmid' - 1 /\ p.uid = p.ext
    BY <1>5, <2>2, <2>3
  <2> HIDE DEF p
  <2> QED BY <1>4, <2>1, <2>4 DEF PairIntegrity
<1>7. CASE ~SendsScylla(Req(t), RmidOf(t), Uid(Req(t), tb), m)
  <2>1. pairs' = pairs
    BY <1>7 DEF Answer
  <2> QED BY <1>4, <2>1 DEF PairIntegrity
<1> QED
  BY <1>6, <1>7

LEMMA PairStep ==
    ASSUME TypeOK, RequestsOwn, PairIntegrity, [Next]_vars
    PROVE  RequestsOwn' /\ PairIntegrity'
<1>1. ASSUME NEW t \in Tabs, \A u \in Tabs \ {t} : tab'[u] = tab[u],
             tab'[t].st = "req" => OwnIds(tab'[t].req)
      PROVE  RequestsOwn'
  BY <1>1 DEF RequestsOwn, OwnIds
<1>2. UNCHANGED <<nextRmid, pairs>> => PairIntegrity'
  BY DEF PairIntegrity
<1>3. ASSUME NEW t \in Tabs, Start(t) PROVE RequestsOwn' /\ PairIntegrity'
  <2>1. PICK r \in StartRequests : Send(t, r, NoLeg)
    BY <1>3 DEF Start
  <2>2. tab'[t].req = r /\ \A u \in Tabs \ {t} : tab'[u] = tab[u]
    BY <2>1 DEF Send, TypeOK
  <2>3. OwnIds(r)
    BY RequestsAssumption DEF OwnIds
  <2>4. RequestsOwn'
    BY <1>1, <2>2, <2>3
  <2> QED BY <1>2, <1>3, <2>4 DEF Start
<1>4. ASSUME NEW t \in Tabs, Handle(t) PROVE RequestsOwn' /\ PairIntegrity'
  <2>1. CASE tab' = [tab EXCEPT ![t] = Idle] /\ UNCHANGED <<nextRmid, pairs>>
    <3>1. tab'[t].st = "idle" /\ \A u \in Tabs \ {t} : tab'[u] = tab[u]
      BY <2>1 DEF TypeOK, Idle
    <3> QED BY <1>1, <1>2, <2>1, <3>1
  <2>2. ASSUME NEW tb, NEW m, NEW pid, NEW error, NEW timePid, NEW loc,
               Answer(t, tb, m, pid, error, timePid, loc)
        PROVE  RequestsOwn' /\ PairIntegrity'
    <3>1. tab'[t].st = "resp" /\ \A u \in Tabs \ {t} : tab'[u] = tab[u]
      BY <2>2, Answered
    <3>2. tab[t].st = "req" /\ OwnIds(Req(t))
      BY <1>4 DEF Handle, RequestsOwn, Req
    <3>3. PairIntegrity'
      BY <2>2, <3>2, AnswerPairs
    <3> QED BY <1>1, <3>1, <3>3
  <2> QED BY <1>4, <2>1, <2>2, HandleAnswers
<1>5. ASSUME NEW t \in Tabs, Receive(t) \/ Abandon(t) PROVE RequestsOwn' /\ PairIntegrity'
  <2>1. /\ tab'[t].st \in {"away", "idle"} /\ UNCHANGED <<nextRmid, pairs>>
        /\ \A u \in Tabs \ {t} : tab'[u] = tab[u]
    BY <1>5 DEF Receive, Abandon, TypeOK, Idle
  <2> QED BY <1>1, <1>2, <2>1
<1>6. ASSUME NEW t \in Tabs, Return(t) PROVE RequestsOwn' /\ PairIntegrity'
  <2>1. /\ tab'[t].req = BackFrom(tab[t].loc) /\ UNCHANGED <<nextRmid, pairs>>
        /\ \A u \in Tabs \ {t} : tab'[u] = tab[u]
    BY <1>6 DEF Return, Send, TypeOK
  <2>2. OwnIds(tab'[t].req)
    BY <2>1, BackWithOwnIds
  <2> QED BY <1>1, <1>2, <2>1, <2>2
<1>7. CASE Clear \/ Tick \/ UNCHANGED vars
  <2>1. UNCHANGED <<tab, nextRmid>> /\ pairs' = pairs
    BY <1>7 DEF Clear, Tick, vars
  <2> QED BY <1>2, <2>1 DEF RequestsOwn, OwnIds
<1> QED
  BY <1>3, <1>4, <1>5, <1>6, <1>7 DEF Next

\* recordCookieLog and log_save: whatever table a worker holds and wherever a chain leads, a
\* pair that goes to the mapping store joins an rmid that was created with an id of the party
\* under whose code it is stored.
THEOREM PairsAreSound == Spec => []PairIntegrity
<1>1. Init => RequestsOwn /\ PairIntegrity
  BY DEF Init, Idle, RequestsOwn, PairIntegrity
<1> QED
  BY <1>1, PairStep, TypeCorrect, PTL DEF Spec

------------------------------------------------------------------------------
(* One tab, one identity *)

\* What the only tab of a browser knows of its rmid: on every leg the jar holds the rmid
\* the chain is under, or none, and an answer brings a new one only to an empty jar.
OneIdentity(t) ==
    /\ tab[t].st = "req" =>
          /\ jar.a \in {NoRmid, tab[t].cookies.a}
          /\ tab[t].prev.via # 0 => tab[t].cookies.a \in {NoRmid, tab[t].prev.rmid}
    /\ tab[t].st = "resp" =>
          /\ tab[t].set.a # NoRmid => jar.a = NoRmid /\ tab[t].log.rmid = tab[t].set.a
          /\ jar.a \in {NoRmid, tab[t].log.rmid}
          /\ (tab[t].log.f = 0 /\ tab[t].prev.via # 0) =>
                tab[t].log.rmid \in {NoRmid, tab[t].prev.rmid}
    /\ tab[t].st = "away" => jar.a \in {NoRmid, tab[t].prev.rmid}

LEMMA OneIdentityStep ==
    ASSUME TypeOK, NEW t, Tabs = {t}, OneIdentity(t), [Next]_vars
    PROVE  OneIdentity(t)'
<1>1. CASE Start(t)
  <2>1. /\ tab'[t].st = "req" /\ tab'[t].cookies = jar /\ tab'[t].prev.via = 0 /\ jar' = jar
    BY <1>1 DEF Start, Send, TypeOK, NoLeg
  <2> QED BY <2>1 DEF OneIdentity
<1>2. CASE Handle(t)
  <2>1. tab[t].st = "req" /\ jar' = jar
    BY <1>2 DEF Handle
  <2>2. CASE tab' = [tab EXCEPT ![t] = Idle]
    <3>1. tab'[t].st = "idle"
      BY <2>2 DEF TypeOK, Idle
    <3> QED BY <3>1 DEF OneIdentity
  <2>3. ASSUME NEW tb, NEW m, NEW pid, NEW error, NEW timePid, NEW loc,
               Answer(t, tb, m, pid, error, timePid, loc)
        PROVE  OneIdentity(t)'
    <3>1. /\ tab'[t].st = "resp" /\ tab'[t].prev = tab[t].prev
          /\ tab'[t].log.f = Flag(Req(t)) /\ tab'[t].log.rmid = RmidOf(t)
          /\ tab'[t].set.a = (IF SetsRmid(Req(t), Cookies(t)) THEN nextRmid ELSE NoRmid)
      BY <2>3, Answered
    <3>2. Cookies(t) = tab[t].cookies /\ jar.a \in {NoRmid, tab[t].cookies.a}
      BY <2>1 DEF OneIdentity, Cookies
    <3>3. SetsRmid(Req(t), Cookies(t)) =>
             tab[t].cookies.a = NoRmid /\ RmidOf(t) = nextRmid /\ Flag(Req(t)) = 1
      BY <3>2 DEF SetsRmid, RmidOf, Rmid, IsNew
    <3>4. ~SetsRmid(Req(t), Cookies(t)) => RmidOf(t) = tab[t].cookies.a
      BY <3>2 DEF SetsRmid, RmidOf, Rmid, IsNew
    <3> QED BY <2>1, <3>1, <3>2, <3>3, <3>4 DEF OneIdentity
  <2> QED BY <1>2, <2>2, <2>3, HandleAnswers
<1>3. CASE Receive(t)
  <2>1. /\ tab[t].st = "resp"
        /\ jar'.a = (IF tab[t].set.a # NoRmid /\ "a" \in kept THEN tab[t].set.a ELSE jar.a)
    BY <1>3 DEF Receive
  <2>2. jar'.a \in {NoRmid, tab[t].log.rmid}
    BY <2>1 DEF OneIdentity
  <2>3. CASE tab[t].loc.to = "partner"
    <3>1. tab'[t].st = "away" /\ tab'[t].prev.rmid = tab[t].log.rmid
      BY <1>3, <2>3 DEF Receive, TypeOK
    <3> QED BY <2>2, <3>1 DEF OneIdentity
  <2>4. CASE tab[t].loc.to # "partner"
    <3>1. tab'[t].st = "idle"
      BY <1>3, <2>4 DEF Receive, TypeOK, Idle
    <3> QED BY <3>1 DEF OneIdentity
  <2> QED BY <2>3, <2>4
<1>4. CASE Return(t)
  <2>1. /\ tab[t].st = "away" /\ tab'[t].st = "req" /\ tab'[t].cookies = jar
        /\ tab'[t].prev = tab[t].prev /\ jar' = jar
    BY <1>4 DEF Return, Send, TypeOK
  <2> QED BY <2>1 DEF OneIdentity
<1>5. CASE Abandon(t)
  <2>1. tab'[t].st = "idle"
    BY <1>5 DEF Abandon, TypeOK, Idle
  <2> QED BY <2>1 DEF OneIdentity
<1>6. CASE Clear
  <2>1. jar'.a = NoRmid /\ tab' = tab
    BY <1>6 DEF Clear, NoCookies
  <2> QED BY <2>1 DEF OneIdentity
<1>7. CASE Tick \/ UNCHANGED vars
  BY <1>7 DEF Tick, vars, OneIdentity
<1> QED
  BY <1>1, <1>2, <1>3, <1>4, <1>5, <1>6, <1>7 DEF Next

\* The invariant of a browser with one tab.
SingleTab == Cardinality(Tabs) = 1 => \A t \in Tabs : OneIdentity(t)

LEMMA SingleTabHolds == Spec => []SingleTab
<1>1. Init => SingleTab
  BY DEF Init, Idle, SingleTab, OneIdentity
<1>2. TypeOK /\ SingleTab /\ [Next]_vars => SingleTab'
  <2> SUFFICES ASSUME TypeOK, SingleTab, [Next]_vars, Cardinality(Tabs) = 1
               PROVE  \A t \in Tabs : OneIdentity(t)'
    BY DEF SingleTab
  <2>1. PICK t : Tabs = {t}
    BY FS_Singleton, BoundsAssumption
  <2>2. OneIdentity(t)'
    BY <2>1, OneIdentityStep DEF SingleTab
  <2> QED BY <2>1, <2>2
<1> QED
  BY <1>1, <1>2, TypeCorrect, PTL DEF Spec

\* recordCookieLog, in a browser with one tab: a request that a partner sends back with its
\* source is logged under the rmid of the leg before it, or under none.  With more tabs two
\* rmids can be created at the same time, and the property does not hold.
THEOREM ChainKeepsIdentity == Spec => [](Cardinality(Tabs) = 1 => ChainIdentity)
<1>1. SingleTab => (Cardinality(Tabs) = 1 => ChainIdentity)
  BY DEF SingleTab, OneIdentity, ChainIdentity
<1> QED
  BY <1>1, SingleTabHolds, PTL

\* Only the answer to a request without an rmid sets one, in any number of tabs.
NewIsNew(t) == tab[t].st = "resp" /\ tab[t].set.a # NoRmid => tab[t].cookies.a = NoRmid

LEMMA NewIsNewStep ==
    ASSUME TypeOK, \A u \in Tabs : NewIsNew(u), [Next]_vars
    PROVE  \A u \in Tabs : NewIsNew(u)'
<1>1. ASSUME NEW t \in Tabs, Handle(t), NEW u \in Tabs PROVE NewIsNew(u)'
  <2>1. ASSUME tab' = [tab EXCEPT ![t] = Idle] PROVE NewIsNew(u)'
    BY <2>1 DEF TypeOK, Idle, NewIsNew
  <2>2. ASSUME NEW tb, NEW m, NEW pid, NEW error, NEW timePid, NEW loc,
               Answer(t, tb, m, pid, error, timePid, loc)
        PROVE  NewIsNew(u)'
    <3>1. /\ tab'[t].set.a = (IF SetsRmid(Req(t), Cookies(t)) THEN nextRmid ELSE NoRmid)
          /\ tab'[t].cookies = tab[t].cookies /\ \A v \in Tabs \ {t} : tab'[v] = tab[v]
      BY <2>2, Answered
    <3>2. SetsRmid(Req(t), Cookies(t)) => tab[t].cookies.a = NoRmid
      BY DEF SetsRmid, IsNew, Cookies
    <3> QED BY <3>1, <3>2 DEF NewIsNew
  <2> QED BY <1>1, <2>1, <2>2, HandleAnswers
<1>2. ASSUME NEW t \in Tabs, Start(t) \/ Receive(t) \/ Return(t) \/ Abandon(t), NEW u \in Tabs
      PROVE  NewIsNew(u)'
  BY <1>2 DEF Start, Receive, Return, Abandon, Send, TypeOK, Idle, NewIsNew
<1>3. CASE Clear \/ Tick \/ UNCHANGED vars
  BY <1>3 DEF Clear, Tick, vars, NewIsNew
<1> QED BY <1>1, <1>2, <1>3 DEF Next

LEMMA NewIsNewHolds == Spec => [](\A t \in Tabs : NewIsNew(t))
<1>1. Init => \A t \in Tabs : NewIsNew(t)
  BY DEF Init, Idle, NewIsNew
<1>2. TypeOK /\ (\A t \in Tabs : NewIsNew(t)) /\ [Next]_vars => (\A t \in Tabs : NewIsNew(t))'
  BY NewIsNewStep
<1> QED BY <1>1, <1>2, TypeCorrect, PTL DEF Spec

\* recordCookieLog: a browser that has an rmid keeps it until it clears its cookies, however
\* many chains it goes through and in however many tabs, unless a request that had left
\* without an rmid is answered later; with one tab that cannot be.
THEOREM RmidStays == Spec => RmidKept
<1> DEFINE Kept == \/ jar.a = NoRmid \/ jar'.a \in {jar.a, NoRmid}
                   \/ /\ Cardinality(Tabs) > 1
                      /\ \E t \in Tabs : /\ tab[t].st = "resp" /\ tab'[t].st # "resp"
                                         /\ tab[t].cookies.a = NoRmid /\ tab[t].set.a = jar'.a
<1>1. ASSUME TypeOK, SingleTab, \A t \in Tabs : NewIsNew(t), [Next]_vars, jar.a # NoRmid
      PROVE  Kept
  <2>1. ASSUME NEW t \in Tabs, Receive(t) PROVE Kept
    <3>1. /\ tab[t].st = "resp" /\ tab'[t].st # "resp"
          /\ jar'.a = (IF tab[t].set.a # NoRmid /\ "a" \in kept THEN tab[t].set.a ELSE jar.a)
      <4>1. /\ tab[t].st = "resp"
            /\ jar'.a = (IF tab[t].set.a # NoRmid /\ "a" \in kept THEN tab[t].set.a ELSE jar.a)
        BY <2>1 DEF Receive
      <4>2. DOMAIN tab = Tabs
        BY <1>1 DEF TypeOK
      <4>3. CASE tab[t].loc.to = "partner"
        BY <2>1, <4>2, <4>3 DEF Receive
      <4>4. CASE tab[t].loc.to # "partner"
        BY <2>1, <4>2, <4>4 DEF Receive, Idle
      <4> QED BY <4>1, <4>3, <4>4
    <3>2. CASE tab[t].set.a = NoRmid
      BY <3>1, <3>2
    <3>3. CASE tab[t].set.a # NoRmid
      <4>1. tab[t].cookies.a = NoRmid
        BY <1>1, <3>1, <3>3 DEF NewIsNew
      <4>2. Cardinality(Tabs) # 1
        BY <1>1, <3>1, <3>3 DEF SingleTab, OneIdentity
      <4>3. Cardinality(Tabs) \in Nat /\ Cardinality(Tabs) # 0
        BY FS_CardinalityType, FS_EmptySet, BoundsAssumption
      <4>4. Cardinality(Tabs) > 1
        BY <4>2, <4>3
      <4> QED BY <3>1, <4>1, <4>4
    <3> QED BY <3>2, <3>3
  <2>2. CASE Clear
    BY <2>2 DEF Clear, NoCookies
  <2>3. ASSUME NEW t \in Tabs, Start(t) \/ Handle(t) \/ Return(t) \/ Abandon(t)
        PROVE  jar' = jar
    BY <2>3 DEF Start, Handle, Return, Abandon
  <2>4. CASE Tick \/ UNCHANGED vars
    BY <2>4 DEF Tick, vars
  <2> QED BY <1>1, <2>1, <2>2, <2>3, <2>4 DEF Next
<1>2. TypeOK /\ SingleTab /\ (\A t \in Tabs : NewIsNew(t)) /\ [Next]_vars => [Kept]_vars
  BY <1>1
<1> QED
  BY <1>2, TypeCorrect, SingleTabHolds, NewIsNewHolds, PTL DEF Spec, RmidKept

------------------------------------------------------------------------------
(* The heaviest partner that is due *)

\* A non-empty set of numbers has a least one.
LEMMA LeastNumber ==
    ASSUME NEW B, B \subseteq Nat, B # {}
    PROVE  \E n \in B : \A m \in Nat : m < n => m \notin B
<1> DEFINE R == OpToRel(<, Nat)
<1>1. IsWellFoundedOn(R, Nat)
  BY NatLessThanWellFounded
<1>2. PICK n \in B : \A m \in B : ~ (<<m, n>> \in R)
  <2> HIDE DEF R
  <2> QED BY <1>1, WFMin
<1> QED
  BY <1>2 DEF OpToRel

\* The element that the fold of WeightSum takes first, and what is left.
LEMMA TakenOut ==
    ASSUME NEW W, IsFiniteSet(W), NEW s \in SUBSET W, s # {}
    PROVE  LET x == CHOOSE x \in s : TRUE
           IN  /\ x \in s /\ s \ {x} \in SUBSET W
               /\ Cardinality(s) \in Nat /\ Cardinality(s \ {x}) \in Nat
               /\ Cardinality(s \ {x}) = Cardinality(s) - 1
<1> DEFINE x == CHOOSE x \in s : TRUE
<1>1. x \in s
  OBVIOUS
<1>2. IsFiniteSet(s)
  BY FS_Subset
<1> HIDE DEF x
<1>3. IsFiniteSet(s \ {x}) /\ Cardinality(s \ {x}) = Cardinality(s) - 1
  BY <1>1, <1>2, FS_RemoveElement
<1>4. Cardinality(s) \in Nat /\ Cardinality(s \ {x}) \in Nat
  BY <1>2, <1>3, FS_CardinalityType
<1>5. /\ x \in s /\ s \ {x} \in SUBSET W
      /\ Cardinality(s) \in Nat /\ Cardinality(s \ {x}) \in Nat
      /\ Cardinality(s \ {x}) = Cardinality(s) - 1
  BY <1>1, <1>3, <1>4
<1> QED
  BY <1>5 DEF x

\* The sum of the weights is a number, no less than any of them and zero where all of them
\* are.  The recursion of the fold is well defined because the set is finite.
LEMMA SumOfWeights ==
    ASSUME NEW p, NEW W, IsFiniteSet(W), \A pid \in W : Weight(p, pid) \in Nat
    PROVE  /\ WeightSum(p, W) \in Nat
           /\ WeightSum(p, W) = 0 <=> \A pid \in W : Weight(p, pid) = 0
           /\ \A pid \in W : Weight(p, pid) <= WeightSum(p, W)
<1> DEFINE iter[s \in SUBSET W] ==
             IF s = {} THEN 0
             ELSE LET x == CHOOSE x \in s : TRUE IN Weight(p, x) + iter[s \ {x}]
           first(s) == CHOOSE x \in s : TRUE
           Up(n) == {s \in SUBSET W : Cardinality(s) <= n}
           Turn(s, f) == IF s = {} THEN 0 ELSE Weight(p, first(s)) + f[s \ {first(s)}]
           Good(n) == \E f : f = [s \in Up(n) |-> Turn(s, f)]
<1>1. WeightSum(p, W) = iter[W]
  BY DEF WeightSum, MapThenSumSet, MapThenFoldSet
<1>2. ASSUME NEW s \in SUBSET W, s # {}
      PROVE  /\ first(s) \in s /\ s \ {first(s)} \in SUBSET W
             /\ Cardinality(s) \in Nat /\ Cardinality(s \ {first(s)}) \in Nat
             /\ Cardinality(s \ {first(s)}) = Cardinality(s) - 1
  BY <1>2, TakenOut
<1>3. /\ Cardinality(W) \in Nat /\ Cardinality({}) = 0
      /\ \A s \in SUBSET W : Cardinality(s) \in Nat /\ Cardinality(s) <= Cardinality(W)
  <2>1. \A s \in SUBSET W : IsFiniteSet(s) /\ Cardinality(s) <= Cardinality(W)
    BY FS_Subset
  <2>2. \A s \in SUBSET W : Cardinality(s) \in Nat
    BY <2>1, FS_CardinalityType
  <2> QED
    BY <2>1, <2>2, FS_CardinalityType, FS_EmptySet
\* The recursion is well defined.
<1>4. ASSUME NEW n \in Nat, \A m \in Nat : m < n => Good(m)
      PROVE  Good(n)
  <2>1. CASE n = 0
    <3> DEFINE f == [s \in Up(n) |-> 0]
    <3>1. \A s \in Up(n) : s = {}
      BY <1>2, <1>3, <2>1
    <3>2. f = [s \in Up(n) |-> Turn(s, f)]
      BY <3>1
    <3> QED
      BY <3>2
  <2>2. CASE n # 0
    <3>1. n - 1 \in Nat /\ n - 1 < n
      BY <2>2
    <3>2. PICK f : f = [s \in Up(n - 1) |-> Turn(s, f)]
      BY <1>4, <3>1
    <3> DEFINE g == [s \in Up(n) |-> Turn(s, f)]
    <3>3. ASSUME NEW s \in Up(n), s # {}
          PROVE  s \ {first(s)} \in Up(n - 1) /\ s \ {first(s)} \in Up(n)
      <4>1. s \in SUBSET W /\ Cardinality(s) <= n
        OBVIOUS
      <4> HIDE DEF first
      <4> QED
        BY <1>2, <3>1, <3>3, <4>1
    <3> HIDE DEF Up, first
    <3>4. ASSUME NEW s \in Up(n) PROVE g[s] = Turn(s, g)
      <4>1. CASE s = {}
        BY <4>1
      <4>2. CASE s # {}
        <5> DEFINE r == s \ {first(s)}
        <5>1. r \in Up(n - 1) /\ r \in Up(n)
          BY <3>3, <4>2
        <5> HIDE DEF r
        <5>2. g[r] = Turn(r, f) /\ f[r] = Turn(r, f)
          <6> HIDE DEF Turn
          <6>1. g[r] = Turn(r, f)
            BY <5>1
          <6>2. f[r] = [q \in Up(n - 1) |-> Turn(q, f)][r]
            BY <3>2
          <6> QED
            BY <5>1, <6>1, <6>2
        <5>3. g[s] = Weight(p, first(s)) + f[r]
          BY <4>2 DEF r
        <5>4. Turn(s, g) = Weight(p, first(s)) + g[r]
          <6> HIDE DEF g
          <6> QED BY <4>2 DEF r
        <5> QED
          BY <5>2, <5>3, <5>4
      <4> QED
        BY <4>1, <4>2
    <3>5. g = [s \in Up(n) |-> g[s]]
      OBVIOUS
    <3>6. g = [s \in Up(n) |-> Turn(s, g)]
      <4> HIDE DEF g, Turn
      <4> QED
        BY <3>4, <3>5
    <3> QED
      BY <3>6
  <2> QED
    BY <2>1, <2>2
<1>5. \A n \in Nat : Good(n)
  <2> DEFINE B == {n \in Nat : ~ Good(n)}
  <2> HIDE DEF Good
  <2> SUFFICES ASSUME B # {} PROVE FALSE
    OBVIOUS
  <2>1. PICK n \in B : \A m \in Nat : m < n => m \notin B
    <3>1. B \subseteq Nat
      OBVIOUS
    <3> HIDE DEF B
    <3> QED
      BY <3>1, LeastNumber
  <2> QED
    BY <1>4, <2>1
<1>6. iter = [s \in SUBSET W |-> Turn(s, iter)]
  <2>1. \E f : f = [s \in Up(Cardinality(W)) |-> Turn(s, f)]
    BY <1>3, <1>5
  <2>2. Up(Cardinality(W)) = SUBSET W
    BY <1>3
  <2>3. \E f : f = [s \in SUBSET W |->
                      IF s = {} THEN 0
                      ELSE LET x == CHOOSE x \in s : TRUE IN Weight(p, x) + f[s \ {x}]]
    BY <2>1, <2>2
  <2> QED
    BY <2>3
\* What it computes.
<1> DEFINE Right(s) == /\ iter[s] \in Nat
                       /\ iter[s] = 0 <=> \A x \in s : Weight(p, x) = 0
                       /\ \A x \in s : Weight(p, x) <= iter[s]
<1>7. ASSUME NEW n \in Nat,
             \A r \in SUBSET W : Cardinality(r) < n => Right(r),
             NEW s \in SUBSET W, Cardinality(s) = n
      PROVE  Right(s)
  <2>1. iter[s] = Turn(s, iter)
    <3> HIDE DEF iter, Turn
    <3> QED BY <1>6
  <2> HIDE DEF iter
  <2>2. CASE s = {}
    BY <2>1, <2>2
  <2>3. CASE s # {}
    <3> DEFINE x == first(s)
               r == s \ {first(s)}
    <3>1. x \in s /\ x \in W /\ r \in SUBSET W /\ Cardinality(r) < n
      BY <1>2, <1>7, <2>3
    <3>2. iter[s] = Weight(p, x) + iter[r] /\ Weight(p, x) \in Nat
      BY <2>1, <2>3, <3>1
    <3>3. Right(r)
      BY <1>7, <3>1
    <3>4. \A y \in s : y = x \/ y \in r
      OBVIOUS
    <3>5. r \subseteq s
      OBVIOUS
    <3> HIDE DEF x, r
    <3>6. iter[s] = 0 <=> Weight(p, x) = 0 /\ iter[r] = 0
      BY <3>2, <3>3
    <3>7. \A y \in r : Weight(p, y) \in Nat /\ Weight(p, y) <= iter[s]
      BY <3>1, <3>2, <3>3
    <3>8. Weight(p, x) <= iter[s]
      BY <3>2, <3>3
    <3>9. iter[s] \in Nat
      BY <3>2, <3>3
    <3>10. \A y \in s : Weight(p, y) <= iter[s]
      BY <3>4, <3>7, <3>8
    <3>11. iter[s] = 0 <=> \A y \in s : Weight(p, y) = 0
      BY <3>1, <3>3, <3>4, <3>5, <3>6
    <3> QED
      BY <3>9, <3>10, <3>11
  <2> QED
    BY <2>2, <2>3
<1>8. Right(W)
  <2> DEFINE B == {n \in Nat : \E s \in SUBSET W : Cardinality(s) = n /\ ~ Right(s)}
  <2> HIDE DEF Right
  <2>1. CASE B # {}
    <3>1. PICK n \in B : \A m \in Nat : m < n => m \notin B
      <4>1. B \subseteq Nat
        OBVIOUS
      <4> HIDE DEF B
      <4> QED
        BY <2>1, <4>1, LeastNumber
    <3>2. PICK s \in SUBSET W : Cardinality(s) = n /\ ~ Right(s)
      OBVIOUS
    <3>3. \A r \in SUBSET W : Cardinality(r) < n => Right(r)
      BY <1>3, <3>1
    <3> QED
      BY <1>7, <3>2, <3>3
  <2>2. CASE B = {}
    <3>1. W \in SUBSET W
      OBVIOUS
    <3> QED BY <1>3, <2>2, <3>1
  <2> QED
    BY <2>1, <2>2
<1> QED
  BY <1>1, <1>8

\* MaxWeight is the weight of some winner, or zero, and no winner is heavier.
LEMMA MaxOfWeights ==
    ASSUME NEW p, NEW W, IsFiniteSet(W), \A pid \in W : Weight(p, pid) \in Nat
    PROVE  /\ MaxWeight(p, W) \in {0} \cup {Weight(p, pid) : pid \in W}
           /\ \A pid \in W : Weight(p, pid) <= MaxWeight(p, W)
           /\ MaxWeight(p, W) \in Nat
<1> DEFINE S == {0} \cup {Weight(p, pid) : pid \in W}
           n == WeightSum(p, W)
           B == {n - x : x \in S}
<1>1. n \in Nat /\ \A pid \in W : Weight(p, pid) <= n
  BY SumOfWeights
<1>2. \A x \in S : x \in Nat /\ x <= n
  BY <1>1
<1> HIDE DEF n
<1>3. \A x \in S : n - x \in Nat
  BY <1>1, <1>2
<1>4. B \subseteq Nat /\ B # {}
  BY <1>3
<1>5. PICK b \in B : \A m \in Nat : m < b => m \notin B
  <2> HIDE DEF B
  <2> QED
    BY <1>4, LeastNumber
<1>6. PICK x \in S : b = n - x
  OBVIOUS
<1>7. ASSUME NEW y \in S PROVE x >= y
  <2>1. n - y \in B /\ n - y \in Nat
    BY <1>3
  <2>2. ~ (n - y < n - x)
    BY <1>5, <1>6, <2>1
  <2>3. x \in Nat /\ y \in Nat
    BY <1>2
  <2> HIDE DEF S, B
  <2> QED
    BY <1>1, <2>2, <2>3
<1>8. Max(S) \in S /\ \A y \in S : Max(S) >= y
  <2> HIDE DEF S
  <2> QED
    BY <1>7 DEF Max
<1>9. Max(S) \in Nat /\ \A pid \in W : Weight(p, pid) \in S
  BY <1>2, <1>8
<1>10. \A pid \in W : Weight(p, pid) <= Max(S)
  <2> HIDE DEF S
  <2> QED
    BY <1>8, <1>9
<1> QED
  BY <1>8, <1>9, <1>10 DEF MaxWeight

\* checkVaildExpire takes a winner of positive weight that is as heavy as any, and none only
\* if no winner weighs anything.
LEMMA ChosenIsHeaviest ==
    ASSUME NEW ext, NEW p, NEW c, NEW time, NEW W, W = Winners(ext, p, c, time),
           IsFiniteSet(W), 0 \notin W, \A pid \in W : Weight(p, pid) \in Nat,
           NEW pid \in checkVaildExpire(ext, p, c, time)
    PROVE  /\ pid # 0 => /\ pid \in W /\ Weight(p, pid) > 0
                         /\ \A q \in W : Weight(p, q) <= Weight(p, pid)
           /\ pid = 0 => \A q \in W : Weight(p, q) <= 0
<1> DEFINE heaviest == {q \in W : Weight(p, q) = MaxWeight(p, W)}
           none == DOMAIN p.weight = {} \/ heaviest = {} \/ WeightSum(p, W) = 0
<1>1. pid \in IF none THEN {0} ELSE heaviest
  BY DEF checkVaildExpire
<1>2. WeightSum(p, W) = 0 <=> \A q \in W : Weight(p, q) = 0
  BY SumOfWeights
<1>3. /\ MaxWeight(p, W) \in {0} \cup {Weight(p, q) : q \in W}
      /\ \A q \in W : Weight(p, q) <= MaxWeight(p, W)
      /\ MaxWeight(p, W) \in Nat
  BY MaxOfWeights
<1>4. CASE none
  <2>1. pid = 0
    BY <1>1, <1>4
  <2>2. CASE DOMAIN p.weight = {}
    BY <2>1, <2>2 DEF Weight
  <2>3. CASE heaviest = {}
    <3>1. \A q \in W : Weight(p, q) # MaxWeight(p, W)
      BY <2>3
    <3>2. MaxWeight(p, W) = 0
      BY <1>3, <3>1
    <3> QED
      BY <1>3, <2>1, <3>2
  <2>4. CASE WeightSum(p, W) = 0
    <3>1. \A q \in W : Weight(p, q) = 0
      BY <1>2, <2>4
    <3> QED
      BY <2>1, <3>1
  <2> QED
    BY <1>4, <2>2, <2>3, <2>4
<1>5. CASE ~ none
  <2>1. pid \in W /\ Weight(p, pid) = MaxWeight(p, W) /\ pid # 0
    BY <1>1, <1>5
  <2>2. \A q \in W : Weight(p, q) <= Weight(p, pid)
    BY <1>3, <2>1
  <2>3. PICK q \in W : Weight(p, q) # 0
    BY <1>2, <1>5
  <2>4. Weight(p, pid) \in Nat /\ Weight(p, q) \in Nat /\ Weight(p, q) <= Weight(p, pid)
    BY <2>1, <2>2
  <2>5. Weight(p, pid) > 0
    BY <2>3, <2>4
  <2> QED
    BY <2>1, <2>2, <2>5
<1> QED
  BY <1>4, <1>5

\* The partners that are due for the request of a tab.
DueFor(t, tb) ==
    {pid \in DOMAIN Partner(t, tb).expires :
        /\ Due(Partner(t, tb), Cookies(t), pid, now)
        /\ ~(JustBack(Ext(Req(t)), pid) /\ Cookies(t).t[pid] = NoTime)}

\* The winners are the partners that are due: below the int limit no cycle is lost.
LEMMA WinnersAreDue ==
    ASSUME TypeOK, NEW t \in Tabs, tab[t].st = "req", NEW tb \in Tables,
           Source(Req(t)) \in DOMAIN tb
    PROVE  /\ Winners(Ext(Req(t)), Partner(t, tb), Cookies(t), now) = DueFor(t, tb)
           /\ IsFiniteSet(DueFor(t, tb)) /\ 0 \notin DueFor(t, tb)
           /\ \A pid \in DueFor(t, tb) : Weight(Partner(t, tb), pid) \in Nat
<1> DEFINE p == Partner(t, tb)
           c == Cookies(t)
<1>1. /\ DOMAIN p.expires \subseteq Pids /\ IsFiniteSet(DOMAIN p.expires)
      /\ \A pid \in DOMAIN p.expires :
            p.expires[pid] \in Nat /\ MaxTime + p.expires[pid] <= IntMax
      /\ \A pid \in DOMAIN p.weight : p.weight[pid] \in Nat
  BY TablesAssumption DEF Partner
<1>2. \A pid \in Pids : c.t[pid] \in TimeOrNone
  BY DEF TypeOK, TabOK, CookieSet, Cookies
<1> HIDE DEF p, c
<1>3. ASSUME NEW pid \in DOMAIN p.expires, c.t[pid] # NoTime
      PROVE  Expired(c.t[pid], p.expires[pid], now) <=> c.t[pid] + p.expires[pid] < now
  <2>1. c.t[pid] \in 0 .. MaxTime
    BY <1>1, <1>2, <1>3 DEF TimeOrNone
  <2>2. c.t[pid] + p.expires[pid] \in Nat /\ c.t[pid] + p.expires[pid] <= IntMax
    BY <1>1, <2>1, BoundsAssumption
  <2> QED
    BY <2>2, WrapIsIdentity DEF Expired
<1>4. Winners(Ext(Req(t)), p, c, now) =
        {pid \in DOMAIN p.expires :
           Due(p, c, pid, now) /\ ~(JustBack(Ext(Req(t)), pid) /\ c.t[pid] = NoTime)}
  BY <1>3, Zenon DEF Winners, Due
<1>5. DueFor(t, tb) \subseteq DOMAIN p.expires
  BY DEF DueFor, p
<1>6. IsFiniteSet(DueFor(t, tb)) /\ 0 \notin DueFor(t, tb)
  BY <1>1, <1>5, FS_Subset, BoundsAssumption
<1>7. \A pid \in DueFor(t, tb) : Weight(p, pid) \in Nat
  BY <1>1 DEF Weight
<1> QED
  BY <1>4, <1>6, <1>7 DEF p, c, DueFor

\* checkVaildExpire and dofilter: whatever table a worker holds and however many partners it
\* has, a browser that is answered without an error goes to a partner that is due and as heavy
\* as any that is due, and to nobody only if no due partner weighs anything.
THEOREM HeaviestWins == Spec => WinnerIsBest
<1> DEFINE
      Best(t) ==
         \E tb \in Tables :
            LET l   == tab'[t].log
                p   == tb[l.source]
                due == {pid \in DOMAIN p.expires :
                          /\ Due(p, tab[t].cookies, pid, now)
                          /\ ~(JustBack(l.ext, pid) /\ tab[t].cookies.t[pid] = NoTime)}
            IN  /\ l.source \in DOMAIN tb
                /\ \/ p.open = 0
                   \/ /\ l.winner \in due /\ Weight(p, l.winner) > 0
                      /\ \A q \in due : Weight(p, q) <= Weight(p, l.winner)
                   \/ l.winner = 0 /\ \A q \in due : Weight(p, q) <= 0
<1>1. ASSUME TypeOK, [Next]_vars, NEW t \in Tabs,
             tab[t].st = "req", tab'[t].st = "resp", tab'[t].log.error = 0, tab'[t].log.m = 0
      PROVE  Best(t)
  <2>1. PICK tb \in Tables :
            \/ EndError(t, tb) \/ EndClosed(t, tb) \/ EndMobile(t, tb)
            \/ GoTencentSelf(t, tb) \/ NobodyDue(t, tb) \/ NoUrl(t, tb)
            \/ GoPartner(t, tb) \/ Crash(t, tb)
    BY <1>1, OnlyHandle DEF Handle
  <2>2. ASSUME NEW m, NEW pid, NEW error, NEW timePid, NEW loc,
               Answer(t, tb, m, pid, error, timePid, loc)
        PROVE  /\ tab'[t].log.source = Source(Req(t)) /\ tab'[t].log.ext = Ext(Req(t))
               /\ tab'[t].log.winner = pid /\ m = 0 /\ error = 0
    BY <1>1, <2>2 DEF Answer, TypeOK
  <2>3. ~ EndError(t, tb) /\ ~ EndMobile(t, tb)
    BY <2>2 DEF EndError, EndMobile
  <2>4. ~ NoUrl(t, tb) /\ ~ Crash(t, tb)
    BY <1>1, <2>2 DEF NoUrl, ERROR_NO_URL, Crash, TypeOK, Idle
  <2>5. CASE EndClosed(t, tb)
    <3>1. Source(Req(t)) \in DOMAIN tb /\ Partner(t, tb).open = 0
      BY <2>5 DEF EndClosed, Error, ERROR_BAD_EXT, ERROR_COOKIE_GET
    <3>2. tab'[t].log.source = Source(Req(t))
      BY <2>2, <2>5 DEF EndClosed
    <3> QED
      BY <3>1, <3>2 DEF Partner
  <2>6. CASE GoTencentSelf(t, tb) \/ NobodyDue(t, tb) \/ GoPartner(t, tb)
    <3>1. PICK pid \in dofilter(t, tb) : \E timePid, loc : Answer(t, tb, 0, pid, 0, timePid, loc)
      BY <2>6 DEF GoTencentSelf, NobodyDue, GoPartner
    <3>2. /\ tab'[t].log.source = Source(Req(t)) /\ tab'[t].log.ext = Ext(Req(t))
          /\ tab'[t].log.winner = pid
      BY <2>2, <3>1
    <3>3. Source(Req(t)) \in DOMAIN tb
      BY <2>6 DEF GoTencentSelf, NobodyDue, GoPartner, Filtering, Error, ERROR_BAD_EXT,
                  ERROR_COOKIE_GET
    <3>4. /\ Winners(Ext(Req(t)), Partner(t, tb), Cookies(t), now) = DueFor(t, tb)
          /\ IsFiniteSet(DueFor(t, tb)) /\ 0 \notin DueFor(t, tb)
          /\ \A q \in DueFor(t, tb) : Weight(Partner(t, tb), q) \in Nat
      BY <1>1, <3>3, WinnersAreDue
    <3>5. /\ pid # 0 =>
               /\ pid \in DueFor(t, tb) /\ Weight(Partner(t, tb), pid) > 0
               /\ \A q \in DueFor(t, tb) : Weight(Partner(t, tb), q) <= Weight(Partner(t, tb), pid)
          /\ pid = 0 => \A q \in DueFor(t, tb) : Weight(Partner(t, tb), q) <= 0
      BY <3>1, <3>4, ChosenIsHeaviest DEF dofilter
    <3> QED
      BY <3>2, <3>3, <3>5 DEF DueFor, Partner, Cookies
  <2> QED
    BY <2>1, <2>3, <2>4, <2>5, <2>6
<1>2. TypeOK /\ [Next]_vars =>
         [\A t \in Tabs :
            (tab[t].st = "req" /\ tab'[t].st = "resp" /\ tab'[t].log.error = 0
               /\ tab'[t].log.m = 0) => Best(t)]_vars
  BY <1>1
<1> QED
  BY <1>2, TypeCorrect, PTL DEF Spec, WinnerIsBest

==============================================================================
