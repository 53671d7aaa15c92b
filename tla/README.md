# TLA+ models of WebServerFrame

WebServerFrame is a small HTTP server in C++: one thread does all the network
I/O with epoll, a pool of worker threads parses requests and writes responses,
and services registered in a table say what a request means. This directory
holds models of its parts, their model-checking runs, and proofs.

## 1. The system

| part | source | state | operations |
|---|---|---|---|
| request queue | `basic_components/threadsafe_data_structure/threadsafe_queue.h` | `mut`, `data_queue`, `data_cond` | `push`, `wait_and_pop` (2), `try_pop` (2), `empty` |
| thread pool | `basic_components/thread_pool.h` | the queue of `http_conn*`, `m_stop` | `append` (main thread), `run` (workers) |
| main thread | `main.cpp` | `users[MAX_FD]`, the epoll set, the events of one `epoll_wait` | accept, read, write, close, dispatch |
| connection life cycle | `http_conn/http_conn.cpp` | `m_sockfd`, `m_read_idx`, `m_user_count` | `init`, `read`, `write`, `close_conn`, `process` |
| request parser | `http_conn/http_conn.cpp` | `m_read_buf`, `m_checked_idx`, `m_check_state`, `m_method`, `m_content_length`, `serv` | `process_read` and what it calls |
| service table | `basic_components/get_service.h` | `services_table`, one per connection object | `add_service`, `find_service` |
| response assembly | `base_class/method.h` | `m_write_buf`, `m_write_idx` of a service | `init_method`, `add_response` |
| journal services | `service_modules/journal_module/*.h` | request fields, the file | `do_request`, `process_write`, header and content parsing |
| time wheel | `time_wheel.h`, `time_wheel.cpp` | 1 + 4 wheels of timer lists | `add_timer`, `del_timer`, `update_timer`, `tick` |
| database pools | `database_connect_pool/*.h` | none: commented out | none |

The main thread accepts a client into `users[fd]` and registers the descriptor
edge-triggered and one-shot. When it is readable the main thread reads what
there is and appends the object to the queue. A worker takes it, runs
`process()` and ends by re-arming the descriptor: for reading if the request is
not complete, for writing if there is a response; or it closes the connection.
When the descriptor is writable the main thread runs `write()`. So the two
sides share connection objects, the counter `m_user_count` and the descriptors,
without a lock; the queue is the only synchronised object.

What is hard here: that one-shot events keep the two sides apart on every path;
that no event is lost while a worker has a connection; the counter and the
close that both sides run; wakeups in the queue; state of one request or client
surviving into the next one in a reused object; service objects shared by
connections; and responses assembled by calls whose results are ignored.
`PROJECT.json` lists these hazards at their lines.

### What the shipped program does, and what the models assume

Some facts of the code shape every model, and are worth knowing first.

- `add_service` is called nowhere and `services_table` is private. As shipped,
  the first complete request, or the first header, calls a null `serv` and kills
  the process. The models cover that ("crash") and also a program in which
  services are registered; which ones is a parameter (`Outcomes` in WebServer,
  `Registered` in HttpConn, `Table` in Services).
- The test in `parse_headers` line 249 is inverted. With a service chosen, the
  first header of a request ends it with BAD_REQUEST; without one, a null
  pointer is called. `do_request` is reached only by a request without headers
  on an object whose `serv` an earlier request set.
- `set_write_buf` is called nowhere, although `http_conn.h` line 121 has the
  service call it when its response is written: the connection's `m_write_idx` is
  always 0 and `write()` always takes its first branch, which sends nothing.
- An error found while a line is cut off (LINE_BAD) is never answered:
  `process_read` returns NO_REQUEST and the connection waits for more, although
  `http_conn.h` lines 193-195 want an error response and a close. Errors of the
  request line and of headers are answered through `serv`, if there is one.
- `accept` may return any descriptor. `main` compares `m_user_count` with
  `MAX_FD`, not `connfd`, and nothing sets a descriptor limit; since other
  descriptors are open too, the numbers reach `MAX_FD` before the count does, and
  `users[connfd]` lies behind the array.

## 2. The modules

| module | models | implements |
|---|---|---|
| `FifoQueue` | what the queue promises | |
| `ThreadsafeQueue` | the queue, to the mutex and the condition variable | `FifoQueue` |
| `Exchange` | the contract between the engine and one connection object | |
| `WebServer` | main loop, connection life cycle, pool; uses `FifoQueue` for the pool's queue | `Exchange`, for every object |
| `HttpConn` | `process()` on the text of requests, line by line | `Exchange` |
| `LineStream` | what `parse_line` promises | |
| `LineParser` | `parse_line` and the read buffer, byte by byte | `LineStream` |
| `Services` | the four journal services assembling responses | |
| `TimeWheel` | the timers of the README, which the server does not include | |
| `ThreadsafeQueue_proofs`, `WebServer_proofs`, `EngineObjects_proofs`, `EngineEvents_proofs`, `HttpConn_proofs`, `LineParser_proofs`, `Services_proofs`, `TimeWheel_proofs` | theorems | |
| `MCThreadsafeQueue`, `MCWebServer`, `MCHttpConn`, `MCLineParser`, `MCServices` | constants and symmetry for TLC | |

Definitions marked "Mutant" are slips a programmer could make in the definition
that follows them; each breaks a property, which shows that the property says
something about the code. They are not part of any specification.

**ThreadsafeQueue.** A step is what a thread does between two points where
another can run: taking the mutex, the body of the member function,
`notify_one`, releasing it; `wait` releases and blocks in one step, a woken
thread takes the mutex again, and wakeups may be spurious. The two overloads
that return a `shared_ptr` may throw before they pop (`AllocMayFail`).

**WebServer.** `pc[t]` is where each thread is. The main thread waits, then
dispatches the reported events in any order (`epoll_wait` promises none);
accepting and closing are several steps because workers run between them, and
`m_user_count++` is a load and a store. A worker takes a connection, `Process`
chooses how the request leaves `process()`, and `Rearm` or `CloseConn` follow.
The kernel is modelled by what it promises: the lowest free descriptor,
edge-triggered and one-shot reports, `epoll_ctl(MOD)` re-evaluating readiness,
`close` removing the registration. What lies behind `users` is used unnoticed or
kills the process (`InitConn`, `OutOfUsers`): undefined behaviour, so both. `modfd`
and `init()` of `write()` are one step: the event that `modfd` may make ready
waits for the main thread, which is the one in `write()`. A descriptor can be reused as soon as it is
closed. `Revents` gives the one report that main's chain of tests acts on.
Data is counted in pieces.

**HttpConn.** A step is one line of the loop of `process_read`. A line is its
kind and the one word that matters. Whatever is not in the model is not looked
at by the code: other headers differ in nothing once the test at line 249 is
inverted. The read takes any sequence of lines that fits, so requests arrive in
every split. The step into CHECK_STATE_CONTENT is there, what follows is not:
the inverted test lets no request take it (theorem `NoContent`, for all
parameters). HEAD is likewise no value of `m_method`.

**Exchange** is where the modules meet. The engine fills an object's buffer,
hands it to a worker, and writes or closes, in this order; the object answers
with "more", "respond", "refuse" or "crash". WebServer, with two kinds of
threads and no text, implements it for every connection object at once
(`ObjectsAreExchanges`; `Stage` reads an object's stage off the queue, the epoll
set and the reported events). HttpConn, with text and one object, implements it
too (`ImplementsExchange`). So neither the `Outcomes` of the one nor the calls
that the other expects are a guess.

**LineParser** is below HttpConn, whose lines are complete or "broken" by
definition. Here the buffer holds bytes, `read()` adds any number of them, and
`parse_line` has the three results and the three indexes of the code; a call of
it is a step, because one thread has the object (`OneOwner`). What a line says
is left out, so any line may end its request. `LineStream` has no indexes: it
cuts a sequence of bytes at each CR LF.

**Services.** A response is a list of pieces, one per `add_response`, each with a
length (`Length`): one that does not fit is not counted, and a shorter one behind
it may fit again. A step is a `vsnprintf`, a load or a store of `m_write_idx`, an
assignment of `init_method`. The switch of each `process_write` is data
(`Answer`, `Returns`): missing breaks add a second page, and the missing return
statements of POST, PUT and DELETE are a free choice of the result. `m_url`,
`m_version` and the texts are left out. That a worker has its connection for
itself is WebServer's `OneOwner`. `do_request` is its set of result codes; the
files are left out. `toSend` is the connection's own `m_write_idx`, which the
services copy and never set. Which objects are in which tables is the parameter
`Table`, and the properties say which objects they are about: those in one
connection's table (`Own`).

**TimeWheel** has the slots of the five wheels and the links of the timers, and
each member function as a function from a wheel to a wheel that is `up` or has
dereferenced a null pointer. `=` in place of `==`, the chained comparisons and
the exclusive or are translated as the language reads them.

## 3. The runs

| run | configuration | checks |
|---|---|---|
| `queue` | 2 producers, 3 consumers, 3 items, every call, exceptions in the two that allocate | `TypeOK`, `LostByThrowOnly`, `ImplementsFifo` |
| `queue_live` | 2 producers, 2 workers, 3 items, no exceptions | `NoLostWakeup`, `EveryItemTaken` |
| `server` | 3 clients, 3 descriptors, of which one lies in `users`, 2 workers, any number of pieces, 2 of them unread in a socket, a buffer of 2; more, respond, crash | `TypeOK`, `OneOwner`, `NoOrphan`, `UserCountExact`, `QueueBounded`, `ObjectsAreExchanges`, `NoEventLost`, `SameClient` |
| `server_live` | 2 clients, 2 workers; more, respond, refuse | `LostByReuseOnly`, `DataIsRead`, `HangUpCloses` |
| `server_count` | with refuse | `UserCountExact` is violated |
| `server_backlog` | | `EveryClientAccepted` is violated |
| `http` | two methods registered for one agent, an unknown agent, an unknown method, a buffer of 4 lines | `TypeOK`, `MethodOfRequest`, `ImplementsExchange`, `ChosenByMethod`, `EveryStepCounts`, `ProcessEnds` |
| `http_service` | the same | `ServiceOfThisRequest` is violated |
| `http_headers` | the same | `HeadersAreParsed` is violated |
| `services` | two connections with two services of their own each, two workers; pages of length 3, blank lines 1, the rest 2; a buffer of 14 | `TypeOK`, `IndexFits`, `CompleteIfTrue` |
| `services_shared` | the two tables share the GET service | `OwnAnswer` is violated |
| `lines` | a buffer of 8 bytes; CR, LF and one other character | `TypeOK`, `NewlineAloneIsBad`, `ImplementsStream`, `ScanAdvances` |

**Bounds.** Queue: a notification can be used up by a thread that did not wait
as soon as there are two consumers; the third one is asleep meanwhile, and two
producers contend for the mutex with them. The liveness run has two of each,
because symmetry is of no use to it. Server: with three clients a descriptor is
reused while another is in use; what a client sends is not bounded, only what
its socket holds unread (`Window`, TCP's), and two unread pieces overfill a
buffer of two with one in it; two workers are the least that can meet. With
`MaxFd` 2 the limit on `m_user_count` is reached, but only after a descriptor
behind `users` was used unnoticed. In `server_live` two clients are enough for
the reuse of a number that a worker still holds. Parser: no request consumes
more than two lines, so a buffer of four leaves room for the rest of a second
request; stale state needs two requests, and the model has no bound on their
number. Services: the longest response (two status lines and a page) has 12
characters and fits; a second one without `init_method` does not, and what of it
still does depends on the lengths, whose order is that of the texts. The tables
are private in `services` because with a shared object the race lets
`m_write_idx` grow without bound (a stale store brings back a value that has
been added to), which TLC cannot enumerate; `services_shared` has the shared
object, and the theorems hold for the objects of one table whatever the other
tables share. Lines: seven bytes hold two lines and a third one's start, or an
empty first line and two others, and every cut of them; no branch of
`parse_line` tells two other characters apart.

**Deadlock** is not checked where the system may stop: the server when all
clients are gone or the process has been killed, HttpConn likewise.

**Symmetry** is used where only invariants and action properties are checked
(clients, workers; threads, items).

**Fairness.** Weak fairness of each thread: the operating system schedules a
thread that can run. A consumer that returned from `wait_and_pop` calls again,
because `threadpool::run` loops. Clients owe nothing: they need not send, hang
up or connect. No strong fairness is assumed; the mutex is contended by finitely
many pushes in `queue_live`. In `server_live` the two liveness properties are
conditional on `[]OneOwner`: where two threads run on one connection nothing is
promised of it, and `LostByReuseOnly`, unconditional, says when that can begin.

### What the violated runs show

- `server_count`: the main thread loads `m_user_count` in `init`, a worker
  decrements it in `close_conn`, the main thread stores. Afterwards the count is
  one too high with every thread at rest.
- `server_backlog`: two connections before one `epoll_wait`; one event, one
  `accept`, and nobody looks at the backlog again.
- `http_service`: a client chooses a service by User-Agent and leaves; the next
  client of the descriptor sends a request line and a blank line, and
  `do_request` runs on the first one's service.
- `http_headers`: a request line and one header, with no service chosen: the
  inverted test at line 249 calls the null `serv`.
- `services_shared`: a worker has run `init_method` for its connection, another
  one runs it on the same object for another connection, and the first one's
  response goes to the second one's buffer.

Not every disagreement of code and notes has a run. That `m_write_idx` is never
handed over and that LINE_BAD is not answered (section 1) are in the models by
construction, and are in the list of hazards.

## 4. The proofs

Checked with TLAPS for all values of the constants (threads, clients,
descriptors, items, services, buffer sizes), under the named assumptions of each
module.

- **Queue.** `QueueTypes`, `MutualExclusion` (`MutexHeld` is inductive with the
  types), `Refinement` (the body of `push` is the abstract Push, of a successful
  pop Take, of a failed `try_pop` Miss, of `empty` Ask; everything else
  stutters). `OneWayToLose`, with no assumption: the one step that can leave an
  item with everybody asleep is an allocating `wait_and_pop` that throws after
  it was woken, so that it has used up the notification. `WakeupsKept` follows:
  no lost wakeup, assuming `NoThrow`, that this call is not made or cannot fail;
  the pool calls the overload that takes a reference (`thread_pool.h` line 89).
  What is preserved counts: while anybody sleeps, there are at least as many
  awake poppers and pending notifications as queued items; a step of each kind
  changes both sides by at most one, which needs the finiteness of the thread
  sets.
- **Engine.** `ServerTypes` holds whatever the services answer. `SingleOwner`,
  `NoConnectionForgotten` and `CountIsExact` assume `NoRefuse`, that
  no worker closes a connection. Without it the count is lost (`server_count`),
  and the ownership where a number is reused too early (`LostByReuseOnly` in
  `server_live`). The program as it stands satisfies it, which is a
  theorem about the parser (`ShippedNeverCloses`). The
  invariant ties every descriptor to exactly one place: armed, reported, in the
  main thread's hands, in the queue, with a worker; `OneOwner` alone is not
  inductive because it does not say which descriptors are open while main is
  between `accept` and `addfd` or inside `close_conn`.
- **Engine and objects.** `EngineKeepsContract`: every step of the engine is, for
  every connection object, a step of Exchange or none; and `QueueIsBounded`, both
  under `NoRefuse`. To ownership the invariant adds that no two descriptors are
  the same client's, that what was reported readable is still unread (so that
  `read()` brings something), and that a connection being admitted is armed for
  reading. `QueueIsBounded` maps the queue's entries one to one into the open
  descriptors.
- **Events.** Edge-triggered epoll reports a change once, and a descriptor
  number says nothing of its client. `EventsAreHeard`: whoever has sent data
  or hung up is ready and armed, reported, or in somebody's hands; the invariant
  behind it (`Signalled`) is that an armed descriptor with something to report
  is on the ready list, which `addfd`, `modfd` and every arrival keep.
  `IdleHasReadAll`, its consequence: when no thread has anything to do and
  nothing is ready, every piece that arrived on an open connection was read and
  no client that left has a descriptor. `NumbersAreNotReused`: while epoll, an
  event, the queue or a worker refers to a descriptor it keeps its client. All
  three under `NoRefuse`.
- **Parser.** `ConnTypes`, `MethodIsCurrent`, `NoContent`, `ServiceByMethod`,
  and `Implements`, the refinement of Exchange. `RoundsUseLines`: a step of
  `process()` that keeps the worker uses up a line that was read, which bounds
  the loop. `ShippedNeverCloses`: with no service registered, which is the
  repository as it is, no object is answered or closed by a worker; this is
  `NoRefuse` of the engine. `NoContent` says what the inverted test does to every
  request, contrary to the comments at lines 248 and 254 and to README line 19.
  The strengthening, `Position`,
  says that a request that waits or is being parsed has consumed nothing, or its
  first line and nothing else, with Content-Length 0.
- **Lines.** `ParserTypes`; `SecondHalfIsDead`, that the second half of
  `parse_line` never completes a line, so that its off-by-one does no harm;
  `BadIsFinal`, what becomes of a connection after LINE_BAD, against
  `http_conn.h` lines 193-195; `ScanOnlyAdvances`, that a call that keeps the loop
  going has used up a CR LF of what was read and `m_checked_idx` never goes
  back; and `ParserRefines`, that the lines are
  those of the bytes, for any buffer size. The invariant: no line end between `m_start_line` and
  `m_checked_idx`, a NUL before `m_start_line`, and after LINE_BAD the bytes that
  caused it at `m_checked_idx`.
- **Services.** `ServicesTypes` for any tables. `IndexStaysInside` and
  `TrueMeansComplete` are about the objects that are in one connection's table,
  whatever the others share (with a shared object they are false), and for any
  lengths of which none exceeds an error page's, as those of the source. An object
  of one table has one worker at a time (`Owned`), which makes the load and the
  store of `m_write_idx` one update. The rest of the invariant: what was added and
  what is left make up the response, or what is missing ends in a page for which
  there is no room, because a piece no longer than it did not fit; and the page is
  the one piece whose loss is noticed.
- **Time wheel.** `OnlyTheInnerWheel` and `TimersNeverWork`: a wheel whose calls
  did not crash is an unused one. The README promises a core wheel and four outer
  ones with constant-time insertion, removal and ticks.

Model-checked only: the liveness properties (`EveryItemTaken`, `DataIsRead`,
`HangUpCloses`, `ProcessEnds`), which are out of the prover's reach, as is
ENABLED; and `LostByReuseOnly`, the engine with workers that close. What they rest on besides fairness is proved, without
"refuse" where it is about the engine:
that no wakeup is lost (`WakeupsKept`), that no event is (`EventsAreHeard`),
that no connection is forgotten (`NoConnectionForgotten`), and that every round of
the parser's loop uses something up (`RoundsUseLines`, `ScanOnlyAdvances`).
Proved only: TimeWheel, which has fewer states than a run is worth.

## 5. Not modelled

- **Database pools**: no code, both files are comments.
- **The writev loop of `write()`** (356-387): unreachable while `m_write_idx`
  is 0; what it would do depends on `m_iv` and `m_iv_count`, which nothing sets.
- **Start-up and shutdown** in `main` and the pool's constructor and destructor:
  before the first thread, and after an epoll failure that the kernel gives no
  reason for.
- **The content of requests**: `parse_content`, and `prase_headers` and
  `prase_content` of the services, are reached by no request (`NoContent`).
- **Files**: `search_file`, `remove` and `mmap` are their results. What
  `remove`'s reversed result and the unreleased mapping of `journal_get` do is in
  the list of hazards, with no property.
- **The destructor of the time wheel**, and its callbacks.
- The lookup table's keys as strings, and all texts.

## 6. What is left

1. A proof of what is left of the engine's invariant when workers close
   connections (`LostByReuseOnly`).
2. Shutdown: `main` after an epoll failure with workers still running.
3. HttpConn over LineParser in one module, when parsing gets past the first
   header: today the two meet in what a "broken" line is.
