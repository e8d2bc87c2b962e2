# HttpNest in TLA+

HttpNest ("基于 C++ 实现的 http 并发服务器", a concurrent HTTP server in C++) is a
reactor: every thread of a pool runs an event loop around an edge-triggered epoll
set; an acceptor, its connections and their timers live in one loop; an HTTP layer
parses what a connection reads and posts answers in pieces. This directory models
that program, checks the models with TLC and proves their safety properties with TLAPS.
Source paths below are relative to `src/src/` (`net/` is `network/net/`, `base/` is `network/base/`).

## 1. Inventory

| Component | State it keeps | Operations | Talks to |
|---|---|---|---|
| **EventLoop**, PipeEvent (`net/EventLoop`, `net/PipeEvent`) | `fns_`, `mtx_`, the wake-up pipe, `isLooping_`, the timing wheel | Loop, Quit, RunInLoop, RunFuctions, WakeUp, InsertEntry/RunAfter/RunEvery, AddChannel… | any thread calls RunInLoop; the loop's thread polls Epoller, dispatches to channels, runs functions and the wheel |
| **EventLoopThread** (`net/EventLoopThread`) | thread, condition variable, mutex, promise, `loop_` | constructor, Run, StartEventLoop, destructor | creates the EventLoop in its thread; Run hands it to others |
| **EventLoopThreadPool** (`net/EventLoopThreadPool`) | vector of threads, round-robin index | Start, GetLoops, GetNextLoop | owns EventLoopThreads |
| **TimingWheel** (`net/TimingWheel`) | four wheels of reference sets, `tick_`, `lastTs_` | InsertEntry, OnTimer, PopUp, RunAfter, RunEvery | called by the loop after each round; a timer fires when its last reference is dropped |
| **Epoller**, Channel (`net/Epoller`, `net/Channel`) | epoll descriptor, `channels_` (number → channel), `events_` | Poll, AddChannel, RemoveChannel, UpdateChannel, HandleEvent | called by the loop; HandleEvent calls OnRead/OnWrite/OnError/OnClose |
| **Acceptor**, **TcpServer** (`net/Acceptor`, `network/TcpServer`) | listening socket, `connections_` | Start, Stop, Open, OnRead, OnError, OnAccet, OnConnectionClose | creates connections in the loop |
| **TcpConnection** (`net/TcpConnection`) | `isClosed_`, `iovecList_`, `msgBuffer_`, idle timeout entry | OnRead, OnWrite, OnClose, OnError, Send, ForceClose, ExtendLife | socket, epoll interest, wheel, user callbacks |
| **MsgBuffer** (`base/MsgBuffer`) | vector, `head_`, `tail_`, `initCap_` | Append*, AddInFront*, Retrieve*, ReadFd, EnsureWritableBytes, Unwrite, Read* | connection and parser |
| **HttpParser**, **HttpContext** (`http/`) | parser state, packet; `postState_`, `header_`, `outPakcet_` | Parse, the Post functions, WriteComplete | called from the connection's read and write complete callbacks; calls the handler |
| **HttpServer**, **HttpClient** (`http/`) | contexts of connections; address, client and request | OnNewConnection, OnDestroyed, OnMessage; Get, Post, ParseUrl | TcpServer, TcpClient, DnsService |
| **HttpRequest**, HttpUtils (`http/`) | method, path, parameters, headers | SetPath, SetQuery, MakeHeaders, UrlEncode, UrlDecode | HttpClient, HttpParser |
| **TcpClient** (`network/TcpClient`) | connection status, the connection | Connect, OnRead/OnWrite while connecting, Send | loop, TcpConnection |
| UdpSocket, UdpServer, UdpClient | list of datagrams to send, idle timeout | Send, OnRead, OnWrite, OnClose | loop |
| **DnsService** (`network/DnsService`) | host → addresses table, mutex, thread | AddHost, GetHostAddress, UpdateHost, OnWork, Start, Stop | getaddrinfo, HttpClient |
| **Logging**: FileLog, FileMgr, Logger, LogStream (`base/`) | descriptors of log files, table of logs, time of the last check | WriteLog, Rotate, GetFileLog, RemoveFileLog, OnCheck | all threads write, the main thread rotates |
| **Task**, **TaskMgr** (`base/`) | set of tasks with times | Add, Del, OnWork, Restart | main thread |
| Config, StringUtils, Time, InetAddress, Packet | tables and values | parsing and formatting | everyone |

**How they interact.** Threads meet in `EventLoop::RunInLoop` (mutex + pipe) and in
the hand-shake of `EventLoopThread`; in the table of the DnsService and in the log files; everything else belongs to one loop's thread and
is reached by callbacks, which nest: epoll batch → `Channel::HandleEvent` →
`TcpConnection::OnRead` → `HttpContext::Parse` → handler → `Post…` → `Send` → (socket
takes everything) write complete callback → `HttpContext::WriteComplete` → handler →
`Post…`, all before `OnRead` has returned.

**What is hard.** Wake-ups that must not be lost when one word of the pipe is read per
event and a full pipe refuses a write; queued functions run with the loop's mutex
held; a thread that starts while the object it belongs to is being constructed;
timers that fire by reference counting; edge-triggered readiness, which a loop may
overlook for ever; partial writes; closing from within callbacks of the same epoll
batch while descriptor numbers are given out again; exhaustion of descriptors; the
re-entrant write complete callback; messages split into reads at any byte; a log file
renamed and replaced under its writers, by a process that may die in between.

**What makes each component correct**: see the properties in section 4. The hazards
the properties aim at are listed, each at its line, in `PROJECT.json`.

## 2. Modules

| Module | Models | Role |
|---|---|---|
| `TaskQueue` | — | abstract: what RunInLoop promises (FIFO, exactly once, runs if nobody quits the loop) |
| `EventLoop` | EventLoop, PipeEvent, Epoller::Poll | mutex, queue, pipe, edge, one action per statement that another thread can come between |
| `MCEventLoop` | | two loops, a foreign thread; posting relations; symmetry |
| `EventLoopThread` | EventLoopThread | constructor order, Run, worker, destructor |
| `EventLoopThreadPool` | EventLoopThreadPool (EXTENDS EventLoopThread) | Start and GetNextLoop of several callers; one thread of the pool in detail |
| `TimingWheel` | TimingWheel | wheels as sets of references; histories measure ticks and clock time |
| `ByteQueue` | — | abstract: the byte sequence a MsgBuffer is |
| `MsgBuffer`, `MCMsgBuffer` | MsgBuffer | every changing operation, on a vector with indices |
| `TcpConnection` | TcpConnection, Channel, UpdateChannel | one connection against socket, epoll and peer |
| `TcpClient` | TcpClient | one connection from Connect to its end, against network and server |
| `TcpServer` | TcpServer, Acceptor, Epoller | three descriptor tables, batches, accept and close |
| `HttpServer` | HttpServer, Connection's contexts (EXTENDS TcpServer) | the HttpContext a connection carries, through all of TcpServer |
| `DnsService` | DnsService | the table, the resolver thread, Start and Stop |
| `HttpRequest` | HttpRequest, HttpUtils | functions without state: from URL to the first line and back |
| `HttpClient`, `MCHttpClient` | HttpClient (EXTENDS TcpClient; instances of DnsService, HttpRequest and HttpParser) | a Get from the URL to the answer or the close, or to a Parse that does not return |
| `Logging`, `MCLogging` | FileLog, FileMgr, LogStream, Task, TaskMgr, the main loop | writers, rotation in its system calls, crashes |
| `HttpParser` | HttpParser | `Parse` as a function on parser state and bytes |
| `HttpContext`, `MCHttpContext` | HttpContext (EXTENDS HttpParser) | parse loop and posting, with the stack of nested calls |
| `…Proofs` | — | theorems about the module of that name and those it EXTENDS (section 6) |

State corresponds to members under the member's name (with `_` where the bare name
would clash); each variable's comment says which member it is, or that it is a history
variable that nothing in the code reads. Actions carry the function's name
(`RunFuctions` and `OnAccet` are spelled as in the code). A function that runs in one
thread without interruption is one action; it is split where another thread, the
kernel, the peer or user code can act in between.

- **EventLoop**: `RunInLoop` → `Push` → `WakeUp` → `Return` is the foreign call
  (lock, push, pipe, unlock); `TestLooping`, `PollEvent`/`PollTimeout`, `OnPipeRead`,
  `RunFuctions`, `CallFront`, `PopFront`, `FunctionsDone`, `TimerDone` is `Loop()`. A
  queued function stays at the front while it runs, with `mtx_` held, and may itself
  call `RunInLoop` of another loop. `EdgeOnEveryWrite` chooses between the two kernels
  there are: epoll reporting each write to a pipe, or (Linux 5.5 to 5.13) only one into
  an empty pipe. `RunAfter`, `RunEvery` and `InsertEntry` from a foreign thread are
  `RunInLoop` calls.
- **EventLoopThread**: `Construct` initialises the members declared after `thread_` one
  by one; `EarlyThread` says whether the thread may be scheduled before that is done.
- **TimingWheel**: a slot holds references; `PopUp` drops the front slot, a wrapper
  that is dropped inserts its timer again, a timer without references fires.
- **MsgBuffer**: `m` is the object; `Reserve` decides between moving and growing
  (`Grow` models the new buffer and Swap); `Content(m)` is what is readable.
- **TcpConnection**: units of data are numbered, `sndbuf` is the kernel's buffer;
  `Readiness` and `ready` are epoll; `EnableWriting` includes EPOLL_CTL_MOD. A direct
  write that is refused is modelled with what the code does (`size_t len` is never
  negative): the history `garbled` marks it.
- **TcpClient**: `status` is `status_`, `closed` the base class's `isClosed_`, `net` the
  connection as the kernel sees it. `ConnectEnds` is OnRead or OnWrite while
  connecting, whatever the event was. A user calls Connect once.
- **TcpServer**: `owner` is the process's descriptor table, `interest` the kernel's
  epoll set, `channels_` Epoller's map; `Handle` takes a channel of the polled batch,
  whatever has become of it meanwhile. `accept` fails with EMFILE when descriptors have run out and
  may fail with another error at any time; both make the acceptor open a new socket. A close is one
  step: destroyConnectionCb_, which runs before `Channel::Close`, may close other connections or
  stop the server, and these steps come right after it (`InUserCode`). Nothing is accepted in
  between, so no number is given out that the order could change; a Start from within
  destroyConnectionCb_ is left out.
- **EventLoopThreadPool**: `Start` of each caller is a sequence of Run calls; the threads
  share nothing, so one of them, at position `Detail`, is the `EventLoopThread` and the
  Run of another one is a step. GetNextLoop is two steps, the read and the increment of
  `loopIndex_`; `IndexHalf` (2^31 in the code, for an int) is the number at which the index overflows
  and `SizeRange` (2^64) the number of values of size_t, to which a negative index is converted.
- **HttpServer**: each step is a step of `TcpServer` with what its callbacks do to the
  context: attached when OnNewConnection has returned, cleared when the connection is
  destroyed, looked up by each message.
- **DnsService**: `hostsInfo` is the table, `rest` and `tries` where the resolver is in
  its round; a lookup gives a list of address families or nothing.
- **HttpClient**: Get is the sequence ask the table, enter the host, resolve, connect;
  other threads come in between. While the loop's thread is in it the client's other
  steps wait. `Request!…` says which URLs arrive. The server sends segments; `sent` records them
  and `OnMessage` reads some of them into `buf` and gives it to `HttpContext::Parse`
  (`ContextParse`, rounds of `Parser!Parse`). Parse comes to an end with one byte left at most.
  Otherwise nothing changes any more (`Spins`): the loop's thread is lost, and from then on only
  the handler, which is called again in each round of a completed message, can do something, that is
  to close the client; the resolver and the server go on. A status line that is
  not three words makes Parse use a null pointer, and the process has ended (`Died`).
- **HttpRequest**: text is a sequence of character codes; `Taken` is what both ends do
  with a target, `Target` what the client writes.
- **Logging**: `dir` and `files` are the file system, which outlives a crash; `rename`,
  `open` and `dup2` of `Rotate` are three steps. Local time passes in minutes and is
  taken not to go back (it would give a rotated file a name that exists). `Elapse` makes a
  task due on the clock of the tasks.
- **HttpContext**: `stack` holds the calls in progress; `Send` may leave a `"complete"`
  frame, which is the write complete callback inside Send. `queue` holds pointers into
  `header_` and `outPakcet_`; `Target` is what the socket reads through them later. A
  malformed request line (the parser uses a null pointer) and a content-length beyond
  `int32_t` are kept out of the inputs.

## 3. Plan

Done: the modules above; every invariant and every action property that the runs check is also
a theorem, and so is the safety part of both refinements. What is left:

1. The refinement of `TcpConnection` to a stream, as `ByteQueue` is for `MsgBuffer`.
2. What the liveness properties rest on, as far as it is safety: for `GetEnds`, that a Get in
   progress has a step of the client, a timeout or the resolver outstanding, or the loop is in a Parse that spins.
3. `UdpSocket` with its server and client, if the program comes to use them.

## 4. Runs

| Run | Bounds | What it shows |
|---|---|---|
| `event_loop` | 2 loops, of which l1 can be stopped and has an epoll that misses writes into a non-empty pipe; 1 foreign thread, 3 functions, pipe of 2 words, posts main→l2, l2→l1, l2→l2 | `LoopInv` (types, and `MutexInv`: mtx_ is held by the thread in its critical section and no other), `DeadlockFollowsPosts` (threads that wait for each other's mutex are held up by loops that post to each other from queued functions, and by nothing else), `FifoExactlyOnce`, `NoLostWakeup`, no deadlock; `CallsReturn`: every RunInLoop returns; `ImplementsTaskQueue`: refinement of `TaskQueue!Spec` with its liveness |
| `event_loop_thread_pool` | 2 callers, 3 threads, the second in detail, index of 3 and size_t of 5 bits, 9 calls of GetNextLoop | `HandsOutLoops` (with `LoopAvailable`), `EvenLoad`, `CallsEnd` (Start and Run return, the destructor joins) |
| `event_loop_thread_early` | 3 callers, thread scheduled early | **violation** of `LoopGetsAvailable` |
| `timing_wheel` | minute 3, hour 9, day 18 ticks; a repeating timer, an idle timeout; delays 1, 2, 4, 8 | `WheelInv` (types, and a timer fires with its last reference only), `FireWindow`, `ClockBound` |
| `timing_wheel_hours` | a delay of an hour | **violation** of `SupportedDelaysFire` |
| `msg_buffer` | bytes 0/1, offset 2, initial 2, vector up to 12, 3 bytes per call | `BufferInv` (`InBounds`, `SizeInv`, `ReservedWritable`), `FrontInt`, refinement of `ByteQueue` |
| `tcp_connection` | send buffer 2, 5 units in sends of up to 2, 2 messages in, idle time 2 | `StreamIntact`, `EdgeInv` (`NoLostReadEdge`, `NoLostWriteEdge`, `WriteInterest`), `ConnectionInv` (types, closed once), `IdleCloses`, `OutputDrained` |
| `http_client` | 5 responses of up to 2 segments (a body cut behind its first byte; a header block cut in the middle, with bytes behind the message; a chunk length that is never complete; an error with bytes behind it; a status line that is not three words), idle time 2, 1 host with addresses of both families, which a lookup may fail to find, 2 tries; URLs of up to 3 of 9 characters behind each of the marks | `ClientInv` (types, callbacks follow `status_`), `NoLostInput`, `ConnectAnswered`, `InputServed`, `RequestArrives`, `DnsServes`, `GetEnds` |
| `http_server` | 3 connections, 3 descriptors, backlog 2, events_ of 1, 1 message each | `ServerInv` (types, `TablesAgree`), `NothingLeaked`, `DestroyedOnce`, `ContextInv`, `NoLostAccept`, `BacklogServed` |
| `http_context` | 13 messages of every framing, every split into reads, 3 posts | `RequestInv` (types, what the handler gets is what was sent), `Served`, `OneAnswerEach`, `SentMeansOut` |
| `logging` | a log rotated each minute and one each hour, hours of 2 minutes, days of 2 hours, 2 minutes, 2 opened logs and 2 lines, 1 crash, 1 other task | `LogInv` (types, `WritesToItsFile`, `NoLineLost`, `TasksStable`), `FiledUnderNoLaterPeriod`, `StaleRotated` |
| `http_parse_returns` | one request, its header in any split | **violation** of `EveryParseReturns` |

**Why the bounds are enough.** Three functions are the least that fill a pipe of two
words and then find it full, and the least that leave a word behind whose event epoll
does not report; two loops are the least for one that waits for another's mutex. The run's loops post along no
cycle, as `CallsReturn` does not hold with one (the deadlock is reachable then); `DeadlockFollowsPosts` is
proved for every relation `Posts`. A response of two segments is read before, between and after its
parts, and one segment is the least that is not complete; the responses leave Parse in each of the ways
there are: with nothing or one byte left, within a line, behind a completed message, after an error, with the null
pointer. In the pool two
callers give one inside call_once and one waiting for it or after it (three in the early run); nine
calls bring a three-bit index beyond its overflow, and three threads are a size that
does not divide a power of two, which is when the turn shows. Hours of two minutes make a check that is
exactly an hour late possible, and a crash between any two system calls of a rotation leaves every
intermediate directory to the next process. A wheel
of 3, 9 and 18 ticks has delays below a minute, of a minute and a bit, and of nearly an
hour, and the clock's steps are both shorter and longer than a second. A vector of 12
with an offset of 2 is grown more than once and is big enough for a move after a growth. A
send buffer of two units makes a send of two fit, fit in part and not fit. Three
descriptors, one of which the acceptor has, are used up by two connections, so the
third meets exhaustion and the numbers are reused inside one batch; an `events_` of one
is too small as soon as two channels are ready. Three posts nest twice in callbacks,
and every input is cut at every place; three characters hold one escape, decoded or
not, at either end of a text; limits of 6 symbols, chunks of 2 and length
lines of 3 stand for 64 KiB, 1 MiB and 32 bytes and are exceeded by some input.

**Deadlock** is checked except where the program really comes to rest: an
EventLoopThread or pool whose owner has joined it or that nobody runs, and an HttpContext
whose peer has sent everything.

**Fairness.** Threads that can go on do (weak fairness of a thread's steps), because
the operating system schedules them; epoll_wait returns after 1000 ms, hence
`PollTimeout` is part of the loop's fair steps. Waiting for `mtx_` is strongly fair: it
is released between rounds, while the loop sleeps in epoll_wait without it. In
`TcpConnection` and `TcpClient` the wheel's tick is strongly fair since it happens in each round of the
loop. The resolver and the main thread of the logs go on, the second in which the check
task becomes due passes, and getaddrinfo, asked for a host again and again, finds it at last
(strong fairness of `LookupFinds`). Nothing is assumed about user code, clients or peers: nobody has to submit, post,
read or send; `OutputDrained` says explicitly what it needs of the peer and
`BacklogServed` that the loop is not kept in OnRead by one peer.

**Conditions inside properties** name the defects met on the way, so that the rest is
still checked: `skipped` (input reported
with the event that ends a connect is not read, `network/TcpClient.cpp:69`), `garbled`
(a refused direct write is taken for `SIZE_MAX` bytes,
`net/TcpConnection.cpp:184`), `missed` (an event with both input and room is handled as
input only, `net/Channel.cpp:65`), `early` (a context attached to a
connection that its OnNewConnection has closed stays for ever, `http/HttpServer.cpp:39`), `missed`
and `since` of `Logging` (a check that is late by a whole hour sees no change; what was written before the first
check of a process is filed under the period of that check, `base/FileMgr.cpp:21` and `34`), `overlaps`
and `turns` (GetNextLoop reads and increments in two steps, and its remainder jumps where
the index overflows), `Lost` (`header_` is overwritten while the socket
has a pointer into it), `dropped` (`headerSent_` was false). `FireWindow` allows a
timer of a minute or more to be up to a minute early, which the code does. `RequestArrives` says
which requests do not arrive: a path with a question mark that was escaped is split, and
parameters with escaped characters, which neither end decodes, come encoded twice. `GetEnds` holds but
for a response that is read while one of its lines is not complete (`CutLine`, finding 3: the loop spins, and neither answer,
nor close, nor timeout comes) and for one that ends the process (`Died`, `http/HttpParser.cpp:250`); `InputServed` but for input
that comes after either, or behind a message with which Parse spins; the process's end is the only
way in which `DnsServes` can fail.

## 5. Findings

1. `event_loop_thread_early`: `thread_` is declared before the condition variable, mutex
   and promise its function uses; a thread that runs early can lose the wake-up, and
   Run hangs (`net/EventLoopThread.h:28`).
2. `timing_wheel_hours`: the branches that pop the hour and the day wheel cannot be
   reached (`net/TimingWheel.cpp:90`); timers of an hour or more never fire although up
   to 30 days are said to be supported.
3. `http_parse_returns`: `HttpContext::Parse` repeats while more than one byte is readable and
   makes no progress on an incomplete header block, so a request whose header comes in two
   reads occupies the loop's thread for ever (`http/HttpContext.cpp:17`); the same
   happens after an error and with bytes behind a completed message, and `-1`, which
   both callers test for, is never returned.

## 6. Proofs

Each of the modules below EXTENDS the module it is about. Constants are arbitrary but for
the named assumptions of the models (`ThreadsAssumption`, `WheelAssumption`, …), which every
run evaluates too. Every theorem named here says of all behaviours what a run checks of a
small instance, but for those whose last column has a dash.

| Module | Theorem | Statement | Run's property |
|---|---|---|---|
| `EventLoopProofs` | `LoopCorrect` | `SafetySpec => []LoopInv` | `LoopInv` |
| | `DeadlockCorrect` | `SafetySpec => []DeadlockFollowsPosts` | `DeadlockFollowsPosts` |
| | `FifoCorrect` | `SafetySpec => []FifoExactlyOnce` | `FifoExactlyOnce` |
| | `WakeupCorrect` | `SafetySpec => []NoLostWakeup` | `NoLostWakeup` |
| | `ImplementsSafety` | `SafetySpec => TQ!SafetySpec`: the loop implements the task queue | safety part of `ImplementsTaskQueue` |
| `EventLoopThreadPoolProofs` | `LoopAvailableCorrect` | `SafetySpec => [](TypeOK /\ LoopAvailable)`, one thread | — |
| | `PoolCorrect` | `PoolSpec => []HandsOutLoops` | `HandsOutLoops` |
| | `EvenLoadCorrect` | `PoolSpec => []EvenLoad` | `EvenLoad` |
| `TimingWheelProofs` | `WheelCorrect` | `SafetySpec => []WheelInv` | `WheelInv` |
| | `FireCorrect` | `SafetySpec => []FireWindow` | `FireWindow` |
| | `ClockCorrect` | `SafetySpec => []ClockBound` | `ClockBound` |
| `MsgBufferProofs` | `BufferCorrect` | `Spec => []BufferInv` | `BufferInv` |
| | `FrontCorrect` | `Spec => []FrontInt` | `FrontInt` |
| | `ByteQueueCorrect` | `Spec => ImplementsByteQueue`: the vector implements the byte queue | `ImplementsByteQueue` |
| `TcpConnectionProofs` | `ConnectionCorrect` | `SafetySpec => []ConnectionInv` | `ConnectionInv` |
| | `EdgeCorrect` | `SafetySpec => []EdgeInv` | `EdgeInv` |
| | `StreamCorrect` | `SafetySpec => []StreamIntact` | `StreamIntact` |
| `HttpClientProofs` | `TcpClientCorrect` | `SafetySpec => []InputIInv`, of a TcpClient by itself | — |
| | `RequestCorrect` | `HttpSpec => []RequestArrives` | `RequestArrives` |
| | `TargetCorrect` | `TargetArrives(url)`, for every URL that begins with a slash | — |
| | `CodecCorrect` | `UrlDecode(UrlEncode(t)) = t`, for every text | — |
| | `HttpClientUsesTcpClient` | `HttpSpec => SafetySpec`: HttpClient keeps to TcpClient's protocol | — |
| | `ClientCorrect` | `HttpSpec => []ClientInv` | `ClientInv` |
| | `InputCorrect` | `HttpSpec => []NoLostInput` | `NoLostInput` |
| | `HostsCorrect` | `HttpSpec => [][\A h \in Hosts : HostKept(h)]_allVars` | action part of `DnsServes` |
| `HttpServerProofs` | `TablesCorrect` | `SafetySpec => [](TypeOK /\ TablesAgree)`, of a TcpServer by itself | — |
| | `LeakCorrect` | `SafetySpec => []NothingLeaked` | `NothingLeaked` |
| | `DestroyCorrect` | `SafetySpec => []DestroyedOnce` | `DestroyedOnce` |
| | `AcceptCorrect` | `SafetySpec => []NoLostAccept` | `NoLostAccept` |
| | `HttpServerUsesTcpServer` | `HttpSpec => SafetySpec` | — |
| | `ServerCorrect` | `HttpSpec => []ServerInv` | `ServerInv` |
| | `ContextCorrect` | `HttpSpec => []ContextInv` | `ContextInv` |
| | `PostingInvariance` | `ContextSafetySpec => []PostingInv` | — |
| | `AnswerCorrect` | `ContextSafetySpec => []OneAnswerEach` | `OneAnswerEach` |
| | `SentCorrect` | `ContextSafetySpec => SentMeansOut` | `SentMeansOut` |
| | `ReceiveInvariance` | `ContextSafetySpec => [](ReceiveInv /\ LoopInv)` | — |
| | `RequestCorrect` | `ContextSafetySpec => []RequestInv` | `RequestInv` |
| | `ServedCorrect` | `ContextSafetySpec => []Served` | `Served` |
| `LoggingProofs` | `LogCorrect` | `Spec => []LogInv` | `LogInv` |
| | `FiledCorrect` | `Spec => []FiledUnderNoLaterPeriod` | `FiledUnderNoLaterPeriod` |

Each rests on an inductive invariant (`IInv`, or the name given below) that TLC checked on
the run of its module before it was proved; the `…Invariance` theorem of the module says
that it holds always. One lemma per part of the invariant or per group of actions has one step per
action.

**EventLoop.** `IInv = TypeOK /\ ExecInv /\ MutexInv /\ FifoExactlyOnce /\ PipeInv /\ NoLostWakeup`.
`TypeOK` is not inductive alone: `PopFront` takes the tail of `fns`, which is a sequence
only because of `ExecInv` (while a function runs, the queue is not empty).
`FifoExactlyOnce` uses `MutexInv`: a push needs the mutex, so it cannot come while a
function that is still at the front of the queue runs. `NoLostWakeup` needs `PipeInv`
(with no event outstanding, and none being handled, there is room for a word): a write
that fails because the pipe is full then never was the one that was needed. `DeadlockFollowsPosts` needs
`CallerInv` (who is in a RunInLoop posts to its loop, and a loop that is in one is inside a callback or a
queued function): a holder of `mtx_` that waits itself is not pushing, so it is the loop, and it
is inside `RunFuctions`. For the
refinement `FreshInv` is added: a function not
yet submitted is in no call, so handing it in is a step of the task queue. Each step
maps to the abstract action of the same meaning or to a stuttering step: `Push` is
`Enqueue`, `CallFront` is `Run`, `Quit` is `Close`, everything about pipe, mutex and
epoll stutters.

**EventLoopThreadPool.** `LoopAvailable` needs `ThreadInv`, which follows the worker from
the publication of `loop_` over the promise to the loop, and the destructor's wait for it;
each step of the pool is a step of its detailed thread or leaves that alone
(`PoolStepIsThreadStep`). `StartInv` says that a caller is past a thread only when its Run
has returned. `EvenLoad` is far from inductive. `LoadInv` bounds the difference of each pair of
loops exactly: the turn in the round that is not complete (`Turn`, counted from the
position `Base` with which the index began after it last changed its sign), and `Slack`, what the
overlapping calls have used up of their `2 * overlaps`: a call that has been overtaken owes
two, and each pair of calls in progress owes two for the one that ends later.

**TimingWheel.** The histories `ticks` and `firedAt` cannot be related directly, as a timer
may have many references: in the second wheel, and as wrappers in the minute wheel. `Lasts(w, e, h, r)`
says that the last of them is dropped in exactly `r` ticks: in slot `r` of the second
wheel, or in slot `i` of the minute wheel with `s` seconds left such that `i * Minute + s - h = r`, where
`h` is the `Phase`, the ticks since the minute wheel turned. `LastInv` says that there is such an `r` and that `ticks + r` is in
the timer's window. A tick takes one from `r` and adds one to `ticks`; turning the minute wheel turns
wrappers into references without a change of `r`; an insertion puts a reference that is dropped after
all those left from before, which needs `Slots` (a reference of a
delay of a minute or more is never in a slot beyond the delay). The hour and day wheels never move
(finding 2), so `LastInv` is about delays of less than an hour, as `FireWindow` is.
`ClockBound` needs the bounds of its histories (`BoundsInv`). Quotients and remainders by a constant that is not a number
are beyond the SMT solver; they come from `Division` and `DivisionUnique`.

**MsgBuffer.** `BufferIInv` says that the object is a vector with its indices in order
(`MemInv`), that the integer in front is at the start of the content (`FrontInv`) and
that the history of the operation is typed. One lemma for each helper says what it does to
`Content`: `Reserve` nothing, a write an `\o`, a retrieval a `SubSeq`. An integer is the sequence of its bytes,
`HostToNetwork` the reversal, and Peek undoes it since a reversal twice is none.

**TcpConnection.** `IInv` extends the properties from the moments at which the loop waits to
all others: unread input is announced, reported or being read (`ReadEdgeInv`); output that
could be written is announced or reported, and when the socket is full epoll has been told
to report room (`WriteEdgeInv`); `ListInv` says that no vector in the list is empty. `StreamIntact` follows step by step from `IInv`. `Flat` and `Consume` are recursive
functions over the list. Facts about them (`Flat` of a concatenation, what `Consume` leaves)
are proved by induction in a form whose parameter is a set: `LeastExists` takes a least
element of a set of numbers from the well-foundedness theorem `WFMin`, and
`NatSetInduction` follows: a set that has 0 and with `i` also `i + 1` has all numbers. The library's induction
theorems, which take an operator, could not be used.

**TcpClient, DnsService, HttpClient.** `CallbacksFollowStatus` is inductive with the types.
`NoLostInput` is extended to all phases of the loop (`InputInv`), with `SocketInv`: before
the connection exists there is nothing to read, and events are handled only of one that was
answered. `HostKept` needs that what the resolver writes back is a list that was found
(`UpdateInv`). The composition is proved first: each step of HttpClient is a step of TcpClient or leaves it alone,
so what is proved of TcpClient holds of HttpClient. What Parse makes of the segments is recursion over data, so the theorems
say nothing of `buf` and `parser`; they hold whatever Parse does to the client, and `GetType` says
that each segment that arrived is recorded (`SentStep`).

**HttpRequest.** What the functions compute is proved for every text of characters 0 to 255, by induction over
numbers (`NatSetInduction`, as above; `Recursion` says that a function defined by recursion up to a
bound exists). `EncodePlaces` gives each character the place in the encoded text at which its code
ends; decoding from one place on is the character followed by decoding from the next (`DecodeOne`),
hence `CodecCorrect`. `EncodeConcat` makes the encoding of a target the encodings of its parts.
The marks `?`, `&` and `=` are written as they are and no escape contains one (`EncodeHas`), so the other
end finds the pieces of the list where the client wrote them: `NextPieces` and `NextPair` add one
parameter to the list, `ListRead` is the induction over the order. That parameters arrive
*only* if they are plain needs more: texts that the encoding changes could arrive as one another's codes. `ClosedIsPlain`
excludes it: among texts of bounded length, an encoding that stays in the set
would grow for ever (`EncodeGrows`).

**TcpServer, HttpServer.** `TablesAgree`, `NothingLeaked`, `DestroyedOnce` support each other;
`BirthInv` (connections are numbered as they are accepted) says that a new connection has
no descriptor yet, `BatchInv` that what is in a batch has been opened before, `AcceptInv` is
`NoLostAccept` at all times: a backlog is announced, in the batch or being accepted. For `HttpServer` one
more conjunct is needed: a connection in `early` is closed.

**HttpContext.** The two properties of posting speak of the moments between events and of the call
of OnSent; `PostingInv` of every state inside the nested calls. `CompleteInv`: when
WriteComplete is called the queue is empty, and no callback below it on the stack waits for
another WriteComplete (a handler posts from OnRequest or OnSent, never from inside WriteComplete itself).
`UnderwayInv`: a message underway has a piece queued, or WriteComplete is about to go on with
it; without `CompleteInv` that could be the WriteComplete of another message. `OwedInv`: the state machine
and the count of unanswered messages agree. `PiecesInv`: what was posted is what was written,
what is queued, and the packet that follows a header or chunk length that is out. Everything is
about runs in which no pointer was overwritten and no header was sent for a chunk
(`Clean`), as the properties are.

**Logging.** Thirteen conjuncts. `NoLineLost` must know that a rename overwrites nothing:
`RenameInv` says that no rotated name is of the period of the last check or later, except those this
check has given, of logs that it has done with; `ClockInv` orders the times of last check, this check and now; `LogsInv` says which log is
being rotated at which step; `FdInv` that each descriptor is of a file with a name of its log.
`FiledUnderNoLaterPeriod` needs `CurrentInv`: the current file holds no line of a period before the
last check, or before this one when OnCheck is done with it (it is one bound only: a line may be filed under an *earlier* period, as
what is written before dup2 goes to the old file); for that `MissedInv` says that a log
the check does not rotate is still in the period of the last check.

**HttpContext, receiving.** `RequestInv` and `Served` say what has come out of Parse;
`ReceiveInv` what is in it. `BytesInv`: the readable bytes and those not yet read are the
message from a place on, `Consumed`, which every round of the loop moves forward by what it
retrieves. Each state of the parser fixes that place: at the front while the header block is
incomplete (`HeadInv`), behind it at a chunk length, behind the length line at the last empty
chunk (`ChunkInv`), and inside the packet while a body is filled: `FillingInv` says that the packet
holds exactly the `Taken` bytes of the body it should begin with and that curContentLength_ or
curChunkLength_ counts the rest. `EndInv` and `GivenInv`: a completed packet is that of the
message, and the handler has it. There is one lemma per state (`HeadAdvances`, `NormalBodyAdvances`,
`StreamAdvances`, `ChunkAdvances`, `ChunkLenAdvances`, `LastChunkAdvances`); they rest on lemmas about the model's
operators: `SearchFacts` (the first place of a mark), `SearchPrefix` (a mark found in the part that
has been read is where it is in the whole), `HeadSearch`, `ParseHeadersFacts`,
`ChunkLengthType` and `FillFacts`. `LoopInv` says why Parse returned. For `Served` they
give a lower bound: while the packet is not complete, less than the message has been consumed, so a
byte of it is readable, and by `LoopInv` not two. The theorems assume `InputsAssumption`: a message has
a first line of known form, at most one field that frames the body (which of several the code obeys is
`ParseHeaders`' choice and not in question), and hexadecimal digits before the CRLF of a chunked
body. A message with bad framing, and one that is cut anywhere or followed by bytes of the
next, is such a message.

**Written for the proofs.** These definitions of the models have a form that can be reasoned
about: the integers of `MsgBuffer` are sequences of bytes, the widths of the pool's index are given
by their ranges and not as powers of two, `OpenFile` of `Logging` builds the new directory as a
function, `Size` of `HttpParser` counts with Cardinality, and `ChunkLength`, `UrlEncode` and `List` are
recursive functions.

**Only model-checked.** Every liveness property (`CallsReturn`, `CallsEnd`, `IdleCloses`,
`OutputDrained`, `ConnectAnswered`, `InputServed`, `GetEnds`, `BacklogServed`,
`StaleRotated`, and the liveness halves of `ImplementsTaskQueue` and `DnsServes`):
liveness under fairness and ENABLED are beyond the prover.

## 7. What is not modelled

- Config, StringUtils (but for SplitString), Time, InetAddress, Packet's flags, jsoncpp, the
  tables of status messages and content types: parsing and formatting without state that a
  property could be about.
- UdpSocket, UdpServer, UdpClient: no part of the program makes one. The close of a UDP
  socket leaves its number in `channels_` (see the hazard at `net/Epoller.cpp:57`).
- A second Get of an HttpClient while the first is under way replaces members that the
  first still uses; the port of a URL, which is read from the wrong place
  (`http/HttpClient.cpp:93`); a TcpServer started twice.
- Undefined behaviour without a set of outcomes to choose from (delays that index
  before the second wheel, dangling captures of Send and SetTimeoutCallback, the
  unlocked use of `channels_` by the first foreign RunInLoop) is listed as a hazard and kept out of the
  models. A null request after a malformed first line ends the process in `HttpClient`, and is kept out of the
  inputs of `HttpContext`.
- Local time that goes back: a period would come twice, and the second rotated file would
  overwrite the first (listed with the hazard at `base/FileMgr.cpp:34`).
- The second way to reach `HttpContext` from a client, `OnWriteComplete`: posting is in `HttpContext`;
  `HttpClient` posts one request.
- `Epoller::Poll` calls exit when a signal interrupts epoll_wait; a process that is gone has
  no further state.
