# Verification of the cookie-mapping service

The repository is an nginx module with a few helper programs. A page of a
medium embeds a one-pixel image (`r.gif`, `m.gif`, `ad.gif`, `bd.gif`); the
module gives the browser an id of its own (the *rmid*, cookie `a`), records
which id the medium has for the same browser, and sends the browser on a tour
of partner companies that do the same. The specifications here model that
service, the texts it reads and writes, the loading of its configuration, the
path of its log records into hourly files and into the two stores they end in,
and the thread pool of the logger.

## The system

| Component | State | Operations | Modelled by |
|---|---|---|---|
| mapping handler, `src/handler/mapping.h` | none of its own: a handler object per request, the partner table of its worker, the cookies of the browser | `handle`, `handleExt`, `recordCookieLog`, `dofilter`, `checkVaildExpire`, `log_save` | `Handler`, `Mapping` |
| partner tables, `src/model/partner.h`, timer in `src/ngx_ad.cc` | `model::partners`, one map per worker | `syncPartners`, `ngx_timer_partner`, `init_worker` | `Partners` |
| message queues, `src/ngx_ad.h`, `log_save` | three boost queues in shared memory | `init_module` (create), `send` | `LogPipeline`, `Channel` |
| logger, `logger/logger.cc` | spdlog's queue, the PUB socket | three consumer threads, `main` | `LogPipeline`, `Channel` |
| thread pool, `logger/utils/threadPool.h` | task queue, mutex, condition variable | worker loop, `enqueue`, destructor | `ThreadPool` |
| ku6 handler, `src/handler/mapping_ku6.h` | none | `handle` | `Exchange` |
| request, response, cookie, `src/httpd`, `src/utils/cookie.h` | the maps of one request and one response | header list, query, percent decoding; `add_header`, `send_headers`; `getCookie`, `cookieExists`, `setCookie` | `Http`, `Exchange` |
| rmid, base62, base64, `src/utils/helper.h` | none | the functions themselves | `Codec`, `Exchange` |
| hour file sink, `logger/utils/log.h`; `log.mv.sh`, `mapping.redis.sh`, `etc/crontab` | open file, next rotation time, stdio's buffer | constructor, `_sink_it`, `flush`; the two cron jobs on the file of the past hour | `HourFileSink` |
| scylla writer and subscriber, `scripts/scylla` | the mapping tables, a month cached per session | `createClustersSession`, `insert`, the loop of the subscriber; `cinLog` and `saveCounter` are not modelled | `Store` |
| scylla cleaner, `scripts/scylla/clean` | the page it has fetched, its limit | `mappingClean`, `nextPage` | `Store` |
| redis loaders, `scripts/redis` | a pipeline of commands, a count, a Redis cluster per medium | twelve programs with the same loop | `RedisLoader` |
| `log_asio.h`, other shell scripts, configuration, compiler probes of CMake, vendored code | | | not modelled |

How they interact. nginx' master creates the queues and starts the workers.
Every worker loads its own partner table from Redis, at the start and every
five minutes. A request is handled by one worker in one go; it reads the table
of that worker and the cookies of the request, and sends one to three messages
before the answer goes out. The logger empties the queues into hourly files
and, for the pairs, onto a ZeroMQ PUB socket, to which the PHP subscriber of
the mapping store listens. Every hour cron feeds the file of the past hour to
the Redis loaders; the cleaner of the store is started by hand. Browser, partners, operator and supervisord are the
environment.

What is hard here. The legs of a chain share nothing but cookies, which travel
with a delay: requests carry the cookies of the moment they were sent, answers
change the jar when they arrive, and tabs, clearings and cookie policies move
in between. Workers hold tables of different age, and a table may be partial.
A send to a full queue blocks a whole worker. A logger that starts too early
loses threads without exiting. Every process may be killed between two steps.
The store is written with statements whose results nobody reads, stamped with
the month of a session that may be old, while the cleaner walks through it page
by page. A loader swallows exceptions and keeps half-executed pipelines. The
sink reads the clock three times at the turn of an hour and changes files only
when the next line comes, while cron takes the old one away. A killed process
can leave the mutex of a queue locked, and an exception in the sink ends
spdlog's thread and not the process. The texts are taken apart by hand:
unsigned lengths that wrap, names that are part of other names, logarithms that
round.

### What makes each part correct

* Handler: a chain keeps its identity and its source, stores only true pairs,
  sends a browser to the heaviest partner that is due, to none before its cycle
  has passed, and ends.
* Partner tables: a complete pass is as new as Redis was when it began, no pass
  takes an entry back, and the timer brings every worker up to date.
* Queues and logger: what arrives arrives once and in order, a stored pair has
  its log record, a blocked worker gets on.
* Hour files: a line is in the file of its hour, and a file that has been
  loaded is complete.
* Request and response: parameters, headers and cookies are read as the other
  side meant them, whatever their order; the browser's jar ends as the handler
  asked; codes give back what was put in.
* Thread pool: no lost wakeup, every accepted task once, a destructor that
  drains and returns.
* Store: no fresh row is deleted, no old row is missed, a sweep ends.
* Redis loaders: the newest pair of a key is the one that stays, and whatever
  is not stored is accounted for.

## Modules

* `Handler` has the decisions of `mapping.h` as operators over an abstract
  request (which gif, which `ext`, how many `ext=`, `s`, id parameters), the
  cookies `[a, amz, t]` and a partner record. Strings are gone; what the code
  does with them (letters to codes, two `ext=`, `atoi` of a time) is kept as a
  function on codes. `Wrap` is the wrap-around of `int` in `atoi(value) + expire`;
  no run reaches it, because `TablesAssumption` keeps the sums below `IntMax`.
* `Mapping` is the service as a browser lives it. `Handle(t)` is the whole of
  `handle`, with one disjunct per way out: `EndError`, `EndClosed`,
  `EndMobile`, `GoTencentSelf`, `NobodyDue`, `NoUrl`, `GoPartner`, and `Crash`
  for the undefined behaviour (the dereferenced `end()` iterator, the
  self-initialised string of pid 7). The disjuncts share `Answer`, which is
  `log_save` with the cookies of the response; a Set-Cookie `amz` with an empty uid
  is the deletion that `setCookie` makes of it. Around it, the environment:
  `Start` (a page), `Receive` (cookies enter the jar, the location is
  followed), `Return` (the partner redirects back, in the form the production
  URLs of `scripts/tests/mapping.log.prod` ask for), `Abandon`, `Clear`,
  `Tick`. Each request is served from any table of `Tables`.
* `MCMapping` instantiates it with tables cut from `mapping.log.prod`.
* `Partners` is `syncPartners` one HGETALL at a time, with its three early
  returns, the connections they leak, the `catch` that keeps an old entry, the
  timer that is armed again whatever happened, and worker exits. A hash is a
  version and a kind: it parses, does not parse, is gone, or is a key of
  another type.
* `LogPipeline` is `log_save`'s sends (each of them a step, because it may
  block), the queues, the consumer threads, spdlog's and ZeroMQ's buffers,
  the joins of `main` and supervisord. A process that is killed inside `send`
  or `receive` may leave the mutex of the queue `locked`; an exception of the
  sink (`WriterThrows`) ends spdlog's thread, after which its buffer fills and
  the consumer blocks (`broken`). Both, and every kill, come out of the budget
  `MaxFaults`; supervisord may give up at any exit. `Channel` is the abstract
  specification: a lossy channel that neither duplicates nor reorders.
  `LogChannel` and `ScyllaChannel` in `LogPipeline` are the refinement
  mappings: pending is what is buffered in the logger followed by what is in
  the queue. `MCLogPipeline` has the instance.
* `HourFileSink` is the sink behind the log queue and the two cron jobs on its
  files. `_sink_it` is four steps (compare, `Rotate`, `Open`, `Write`), because
  time passes between the readings of the clock; `time` is what `time(nullptr)`
  may answer, which the kernel takes from a coarser clock. A file is the set of
  lines in it, wherever it has been moved to. The file system may fail: `OpenFails`
  and `WriteFails` are the two exceptions of `file_helper`, which end spdlog's thread
  (`WriteFails` with earlier lines in a buffer that nobody flushes any more, on the
  file in part, or dropped); `FlushFails` is an `fflush` or `fclose` whose failure
  `file_helper` does not notice, and which loses lines while the thread goes on.
  `DirectoryAssumption` says what no file of the repository does: the sink writes to
  `/data/logs/cookie_mapping` (`logger.cc:50`) and `log.mv.sh:2` looks into
  `/data/mapping_logs`, and the model takes the two as names of one directory; if
  they are not, nothing is ever moved or loaded. Cron is punctual; the thread takes at most `Stall` over a line and
  leaves one in the buffer for at most `FlushAfter` (spdlog flushes when its
  queue has been empty for a second).
* `Codec` and `Http` are the pure functions, as operators: `helper.h`, and
  `request.h`, `response.h`, `cookie.h`. Texts that are parsed are sequences of
  character codes; texts that are only put together (a Set-Cookie line, a
  Location) are records. base64 characters are their places in the alphabet.
  The loops are recursive functions on the place they have come to (`url_decode`,
  `Pieces`, `HeaderWalk`, `AfterName`) or folds with a named step (`add_param`,
  `copy_header`, `PutDigit`, `AddDigit`), so that they can be reasoned about.
* `Exchange` composes them: a page builds a URL, the browser sends it with its
  cookies in any order and its headers spread over the parts of nginx' list,
  `Ku6` or `MappingAnswers` reads and answers, the browser stores the
  cookies. `Ku6` and `Ku6Overflows` are the two outcomes of `mapping_ku6::handle`:
  it prints the Location into `char l_buffer[100]` (`mapping_ku6.h:46`), which has
  room for an rmid of 46 bytes; with a longer cookie `a` the `sprintf` is undefined,
  and the model lets it do no harm (`Ku6`) or end the worker, so that the browser
  never gets an answer (`Ku6Overflows`, `GiveUp`). An overflow that the worker
  survives with other damage is not modelled, and nothing is claimed about a request
  with such a cookie. `MappingAnswers` is
  what `mapping.h` does with cookies and gif, and leaves the choices to
  `Mapping`. `MCExchange` has the instance, and feeds `Codec` with numbers that
  are counted up and with texts of bytes that grow. Its constants are any texts
  of bytes, as far as the assumptions go: no NUL, blank, `;` or (in a name) `=`
  in a cookie, no empty `a` from another host, no `=` in a key, and no key that the
  rest of a query names.
* `ThreadPool` has one step per section under the mutex, and the
  notifications as steps after it.
* `RedisLoader` is the loop of `loadMapLogFromPip_*.php`. The twelve programs
  differ in three parameters (the `ext` they load, the id that is the key, and
  whether `f` must be 1) and are records of these. A process per hour reads
  lines (`ReadLine`), executes a full pipeline or the last one, and can meet
  three exceptions, as Predis raises them: a connection breaks while commands
  are written (none is taken out of the pipeline), or at a reply (the commands
  up to it are), or the reply is an error (and all connections are closed).
  After the first two, the replies of other nodes stay unread (`behind`), and
  an OK proves nothing any more. Which commands the cluster executed is any
  choice that the replies allow (`Reached`). The value of a pair is left out:
  the line a command comes from says it.
* `Store` has the subscriber, the statements under way, the tables, and the
  cleaner. A row is its table, its id and its `last_access`, as the `DELETE`s
  of `clean/common.php` (and, for the tables `<medium>_dmp`, of
  `tests/clean/common.php`) address it. A page is the rows of one id.
  `Expirs` has the two months to which `strtotime("-2 month")` can lead.
* `MappingProofs`, `PartnersProofs`, `LogPipelineProofs`, `ThreadPoolProofs`,
  `HourFileSinkProofs`, `StoreProofs`, `RedisLoaderProofs` and `ExchangeProofs` have
  the theorems about the modules they are named after; `ExchangeProofs` also those
  about `Codec`, `Http` and `MCExchange`.

The definitions named "Mutant" in their comments are wrong variants of the
definition that follows them; no specification uses them. Each shows that some
property notices that particular mistake.

## Runs

| Run | Module, configuration | Checks | Bounds |
|---|---|---|---|
| chain | `MCMapping`, `_chain` | type, `ChainIdentity`, `SourceKept`, `PairIntegrity`, `WinnerIsBest`, `ChainTerminates` | 1 tab, 6 pixels, 5 tables (an edited one, two partial ones, one without a URL), all cookies kept or none, 2 chains, 2 units of time, 1 clearing |
| tabs | `MCMapping`, `_tabs` | `CookiesTrackVisits`, `NoEarlyRepeat`, `RmidKept` | 2 tabs (interchangeable: symmetry), 2 tables, 2 chains, 3 units of time |
| notime, admaster, nourl | `MCMapping` | one property each, violated | minimal |
| sync | `Partners`, `_sync` | type, `FreshAfterPass`, `NeverBackward`, `Converges` | 3 keys, 2 edits, 2 breaks, 1 exit |
| pipeline | `MCLogPipeline`, `_pipeline` | type, `NothingLost`, `StoredMeansLogged`, `SendReturns`, `IsLogChannel`, `IsScyllaChannel` | 2 workers, 2 requests of 3 kinds (a pair, a pair and a pixel whose log record is too long), queues and buffers of 1 place, 1 fault |
| pool | `ThreadPool`, `_pool` | type, `NoLostWakeup`, `DestructorDrains`, `RunOnce`, `EveryTaskRuns`, `DestructorReturns` | 3 workers, 2 clients, 4 tasks |
| load | `RedisLoader`, `_load` | type, `NewestStored`, `LeftOver` | one program of each kind, 2 hours of 3 lines, 2 keys, pipelines of 2, 2 exceptions per process |
| sweep | `Store`, `_sweep` | type, `SweepComplete`, `FreshRowsStay`, `SweepEnds` | 2 ids, one medium with a copy and one unknown code, 3 months, 2 pairs, 1 exception |
| rotate | `HourFileSink`, `_rotate` | type, `LineInItsHour`, `LoadedIsComplete` | 3 hours of 6 units, 3 lines, 2 faults (failed opens, writes and flushes, kills) |
| http | `MCExchange`, `_http` | `ParamsAreRead`, `CookiesAreRead`, `RedirectedAsOneself`, `JarAsAsked`, `CodesComeBack` | 2 parameters, 2 exchanges, 5 foreign cookies (an `a` of 46 and of 47 bytes among them), 3 digits instead of 62, texts of 5 bytes |

Why the bounds are enough. One unit of time is the shorter of the two cycles
in production (15 days), the other is two units, so three units (run `tabs`) let both
expire and one start again. Two chains in a row are needed for a second visit;
a chain in each of two tabs gives every crossing of two requests and two answers
and later legs that see their outcome. One place per queue makes `send` block; with two
requests of two messages each both workers can be waiting at different queues.
A production table and one edited in weights, cycles and switches
give every pair of legs served by workers of different age; the broken tables
of run `chain` add the crash and the winner without a URL. `IntMax` is a small
number above the sums that occur, so what happens after the year 2038 is not checked. Three lines are a full pipeline and one more
command, so a kept pipeline is sent again together with a new command, fails
again, or is left at the end of the file. Three months with `KeepMonths` = 2 have
old, fresh and doubtful rows of the same id side by side. Six units are an hour
with room for a lag, a move, a late flush and a load in their order; three
lines in three hours have two turns, and one line before, on and after one of
them; two faults are a write that fails behind a flush that failed, or a failure
and the restart after a kill. Two parameters are a pair that may collide or disturb each other; the
names `u` and `ui`, and the cookies `a`, `amz`, `aa`, `ba`, `t_4` and `t_42`, are
parts of each other. Base 3 reaches seven digits, as many as an rmid begins with,
with every number counted; five bytes have last groups of every length. The
handlers read query and cookies independently, so in run `http` only a first
request without cookies has parameters.

Deadlock is not checked where the system may stop: when the bound on chains,
requests, exchanges, lines or tasks is reached, the pool is destroyed, or the
files are loaded.

Fairness. `Mapping`: a tab's chain moves on (`Progress`): nginx answers
requests, and browser and partners follow redirects or the tab is given up.
Nobody has to open a page or clear cookies. `Partners`: a worker runs its loop,
nginx fires timers, the master respawns workers; Redis need not be edited, nor
the connection break. `LogPipeline`: a worker goes on when its send can return,
the logger's threads run, supervisord restarts what exits; no fairness for
requests, kills or the subscriber. `ThreadPool`: every thread that can move is
scheduled; no fairness for `Push`, `Stop` or spurious wakeups. `Store`: the
cleaner is a running program whose queries succeed in the end; none for the
subscriber, for statements under way or for the clock. `RedisLoader`,
`HourFileSink` and `Exchange` have no liveness property. Weak fairness is
enough everywhere.

### What the runs found

* `notime`: `mapping.h:464` promises to prevent repeated jumps when the time
  of a mapping cannot be read. The restriction covers Miaozhen and Admaster
  only; a browser that keeps `a` and loses `t_<pid>` circles between Tencent
  and Miaozhen for ever. (A browser without any cookie is safe: the leg that
  comes back without `a` ends with `ERROR_COOKIE_GET`; run `chain`.)
* `admaster`: the escaping that `mapping.h:151` asks for is done on a new,
  uninitialised variable; Admaster's return loses the source.
* `nourl`: a winner without a URL gets its time cookie all the same, although
  `mapping.h:443` treats it as a partner one cannot jump to.

Seen on the way, without a run of its own: the letter `x` is served as Miaozhen's
6 (`mapping.h:356`), where the enumeration has 9 for it (`mapping.h:55`);
`Handler` follows the code (`ExtLetters`). `base62_encode` drops the first digit
of 62^3 and 62^6, whose logarithm is rounded down (`TopPlace`); no rmid contains
them. A response with cookies sends the last of them twice (`add_header`), which
no browser notices (`JarAsAsked`). A line on the very stroke of an hour is still
written to the file of the hour before (`LineInItsHour` has the exact margin). A
failed write ends spdlog's thread and takes with it what stdio had buffered, and a
failed flush goes unnoticed; the file of that hour is loaded without those lines, and
`LoadedIsComplete` claims no more than that nothing is added to it later.

## Proofs

Eight modules `<M>Proofs` extend the module they are about and are checked with
TLAPS. Their theorems hold for every value of the constants under the named
`ASSUME`s, which TLC evaluates on every run. Each proof has the same shape: an
invariant `IInv` that is inductive, one lemma per action, and a last step that
combines them. Every `IInv` that TLC can evaluate was an invariant of a run before
it was proved.

`MappingProofs`, for every set of tabs, tables, pixels and cookie policies:

* `TypeCorrect`: `TypeOK` is inductive as it stands, and says more than types: a
  time cookie is never ahead of the clock, an rmid never one that has not been
  created.
* `CookiesTrack` (`CookiesTrackVisits`): inductive together with `TypeOK`. It
  relates the jar, the cookies of requests under way, the cookie an answer will
  set, and the history of redirects. Under `UrlsComplete` the answer `NoUrl`,
  which sets a cookie without a visit, is impossible (`ChosenPid`), and
  `Receive` changes jar and history alike.
* `NoPartnerTwice` (`NoEarlyRepeat`): only `GoPartner` answers with a partner's
  location (`OnlyGoPartner`); its pid is a winner of `checkVaildExpire`; by
  `CookiesTrack` the cookie it was judged by is the history; and below the int
  limit `Wrap` is the identity.
* `SourceComesAlong` (`SourceKept`): `SourceInv` follows the source through the
  four states of a tab, from the location of a redirect to the request that
  comes back; `SourceComesBack` is what `handleExt` makes of the returning URL.
* `PairsAreSound` (`PairIntegrity`): needs `RequestsOwn`, that every id in a
  request belongs to the party the request is served as, which a return from a
  partner re-establishes.
* `ChainKeepsIdentity` (`ChainIdentity`), for a browser with one tab: `OneIdentity`
  says that at most one rmid is about, in the jar, the request, the answer or the leg
  before. With two tabs, two first visits create two rmids, and the property does not
  hold: the hypothesis `Cardinality(Tabs) = 1` is part of what is claimed.
* `RmidStays` (`RmidKept`), for any number of tabs: only an answer to a request that
  carried no rmid brings one (`NewIsNew`), so a jar can lose its rmid only to a request
  that another tab sent before it arrived; with one tab (`OneIdentity`) not at all.
* `HeaviestWins` (`WinnerIsBest`), for tables of any size. The sum and the
  maximum of `checkVaildExpire` are folds over a set, so what they compute needs
  an induction over its size: `SumOfWeights` shows that the recursion of the fold
  is well defined and that the sum is zero exactly if all weights are, by taking
  the least size for which it is not so (`LeastNumber`); `MaxOfWeights` bounds the
  weights by their sum. `WinnersAreDue` is the rest: below the int limit the
  winners are the partners that are due.

Assumptions: `BoundsAssumption`, `TablesAssumption` (pids are positive, a
`std::map` is finite, cycles and weights are natural numbers, and a cycle added to
a time stays below `IntMax`: this is where the year 2038 is excluded) and
`RequestsAssumption` (a page embeds the pixel of a party with that party's id;
without it no handler could store a true pair).

`ThreadPoolProofs`, for any number of workers, clients and tasks: `TypeCorrect`,
`StartedAtMostOnce` (`RunOnce`), `NoWakeupIsLost` (`NoLostWakeup`) and
`DestructorIsLast` (`DestructorDrains`). The invariant adds that the queue holds
the latest tasks in their order (`QueueInOrder`), so that the tasks taken are a
prefix and each was started once (`StartedOnce`); that a task taken is finished or
in the hands of a worker (`TakenIsServed`); and what destructor and workers know of
each other (`Shutdown`): a worker leaves only a stopped and empty pool, and nobody
sleeps after `notify_all`. `RunOnce` alone says nothing about what is in the queue
and is not inductive.

`PartnersProofs`: `TypeCorrect`, `PassesAreFresh` (`FreshAfterPass`) and
`EntriesNeverGoBack` (`NeverBackward`). A pass reads one key at a time while Redis
is edited; `RedisIsNewest` (no entry and no debt of a pass is ahead of Redis) and
`PassSoFar` (the keys read so far are as new as the pass owes) carry the argument.

`LogPipelineProofs`: `TypeCorrect` (with the capacities), `NothingIsLost`
(`NothingLost`), `StoredIsLogged` (`StoredMeansLogged`), and the refinement:
`LogRefinesChannel` (`IsLogChannel`) and `ScyllaRefinesChannel` (`IsScyllaChannel`).
`NginxInv` is about `log_save`: what a worker has still to send it has not sent
before, and who comes to the mapping store is done with the log. `TransportInv` is
about the logger. The refinement is proved step by step: initial states map to an
initial state of `Channel`, and each action to a send, a delivery, a loss, or to
nothing.

`HourFileSinkProofs`, for every length of the hour, lag, stall, flush interval and
schedule: `TypeCorrect`, `LinesInTheirHour` (`LineInItsHour`) and
`LoadedFilesAreComplete` (`LoadedIsComplete`), with writes and flushes that fail.
`InHand` bounds how old the line in
hand is, `Rotation` ties the open file to the next rotation time through the three
readings of the clock, `Buffered` bounds how long a line stays in stdio's buffer as long as there is a thread
to flush it; what a dead thread has left there never reaches a file. Lines that a
failure drops only make files smaller (`FilesShrink`). `DirectoryAssumption` gives
`Move` its files; without it the theorems are about files that nobody loads.
The proof needs `ScheduleAssumption` as it is now: a line may be compared `Slack`
after the hour, be held up for `Stall`, wait `FlushAfter` in the buffer, and the
thread may be held up once more, all before `LoadAt`. An earlier form of it,
with a single `Stall`, admitted a schedule under which a file is loaded first (TLC
shows it with `Lag` = 0); the schedule of `etc/crontab` leaves minutes.

`StoreProofs`: `TypeCorrect`; `NoFreshRowDeleted` (`FreshRowsStay`): a row goes only
by a DELETE under way (`OnlyRemove`), and everything the cleaner has in hand was old
when it was fetched and gets no younger (`OnlyOldInHand`); `SweepsAreComplete`
(`SweepComplete`): a row still due lies on the page the sweep is at or on a later
one, and after a fetch those of the current page are in hand (`SweepInv`).

`RedisLoaderProofs`, for every table of programs, `PACK_NUM` and number of
exceptions: `TypeCorrect`, `LeftOverIsBounded` (`LeftOver`) and `NewestIsStored`
(`NewestStored`). The last is the hard one, because a kept pipeline is sent again
and sets old values again. It needs that a pipeline loses commands from the front
only, so as long as it holds some command of a key it holds, not before it, the
newest of its hour (`LastKept`); that hours loaded in order leave no newer line in
a later hour (`InOrder`, `Places`, `Counting`); and that a line has one key
(`SameKey`). The four outcomes of `execute` are treated as one (`Settles`): a prefix
leaves the pipeline, and each command of it was executed or is `unsure`.

`ExchangeProofs`, for every alphabet of base62, gif, set of keys, texts, foreign
cookies, ids and times that the assumptions of `Codec`, `Http`, `Exchange` and
`MCExchange` admit, and without the bounds of the run:

* `CodesComeBackAlways` (`CodesComeBack`). base62: `EncodeIs` follows `PutDigit` from
  the first place down (what is left of the number is below the weight of the place
  above), `DecodeAppend` the sum from the other side, `TopPlaceIs` and `PowGrows` say
  that the first place is the right one; `RmidIs` puts seven and three digits
  together. base64: `SextetsToOctets` is the arithmetic of one group, `TextIs` and
  `DecodeIs` are the two loops as functions of the group (`FlattenGroups` finds the
  groups again), `Base64ComesBack` has the three lengths of the last group and every
  number of lost padding characters.
* `LinesAsAskedAlways` and `JarIsAsAsked` (`JarAsAsked`). `JarInv`: what is in the jar
  are names and values that can be sent, and the lines of an answer on its way are
  `Told(asked)`, the last call in front and then all of them. `LastTwice` is the
  argument why this does no harm: after the first line only its own name differs
  (`PutTouchesOne`), each further call keeps two jars alike where they are
  (`PutAgrees`), and the last call settles the name (`PutSettles`).
* `CookiesAreAlwaysRead` (`CookiesAreRead`). `HeaderWalkIs`: the walk over the parts
  of nginx' list is the parts one behind the other, wherever they end. `AfterNameIs`:
  the scan of `getCookie` and `cookieExists` finds the first place where the name
  begins and ends as it should; the subtle part is that after a failed attempt it
  goes on behind the name, which loses nothing because a name holds neither a blank
  nor a `;`. `HeaderIsWritten` says where the cookies stand in a header, `HitsAre`
  that a name stands there as a name at its own cookie only, `CookieIsRead` that the
  text up to the next `;` is its value. `Sent` carries this from `Send` to the
  handlers.
* `AlwaysRedirectedAsOneself` (`RedirectedAsOneself`), from the same invariant
  `CookieInv` with `RmidIsText` and the content of a redirect (`RedirectIs`); an
  answer of `mapping.h` is never taken for one (`NoLocation`). `Ku6RmidIs` has the
  length: an rmid of its own has ten characters, so `l_buffer` overflows only with an
  `a` of more than 46 bytes from the request.
* `ParamsAreAlwaysRead` (`ParamsAreRead`). `EscapeComesBack`: `url_decode` undoes
  percent encoding, `EscapeIs`: no `&` is left, and no `=` in a key. `OneMorePiece`
  and `OneMoreParam`: a parameter behind an `&` is one more for the loop of
  `set_query_param`, and the fold takes it last. `ParamTextIs`: `add_param` puts the
  text under the key; `AddParamIs`: whatever else stands there does nothing or sets
  one key. `UrlInv`: the URL is the path, or path, `?` and a query that means what is
  given.

These properties are about what loops over texts compute, so each needs an induction
over data. It is done with sets instead of predicates: `LeastNumber` takes the least
counterexample, and `Induct`, `InductUpTo` and `InductBack` conclude that a set
holds all numbers of an interval. That a recursion has a solution at all is shown
first: `FoldExists` for folds (each fold has a lemma `...Chain` with its successive
values), `WalkExists` for a loop that moves forward, and an explicit solution where
one can be written down.

### Only model-checked

* Everything under fairness: `ChainTerminates`, `Converges`, `SendReturns`,
  `EveryTaskRuns`, `DestructorReturns`, `SweepEnds`. TLAPS proves no `ENABLED`.
* The three violations, of course; and `ChainIdentity` is not claimed for more than
  one tab.

## Not modelled, and what is planned

Next, in this order:

1. `cinLog` and `saveCounter` in `Store`.
2. `Store` composed with `Channel`, so that a pair is followed from `log_save` to its
   row.

Left out for good: vendored nginx, hiredis, spdlog, rapidjson and Predis
(but for what `RedisLoader`, `LogPipeline` and `HourFileSink` need of them);
the monitoring scripts, which restart programs; the compiler probes
CMake generates; `log_asio.h`, which nothing includes and which locks a member
it does not declare; memory allocation failures and the memory of nginx'
pools and buffers; the configuration directives of `ngx_ad.h`, which only
register the handlers; the wording and layout of log lines and URLs.
