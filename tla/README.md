# webcrown in TLA+

This directory specifies [webcrown](../src/README.md), a small C++20 HTTP server
library on top of asio, model-checks the specification with TLC and proves
theorems about it with TLAPS. Paths below are relative to
`src/include/webcrown/`; `webserver.cpp` is `server/impl/webserver.cpp`.

* [The system](#the-system): its parts, their state, how they interact
* [The modules](#the-modules): what models what
* [The runs](#the-runs): what TLC checks, bounds, fairness
* [The proofs](#the-proofs): what TLAPS proves and how
* [Findings](#findings): where the code and its comments disagree
* [Not modelled](#not-modelled) and [the plan](#the-plan)

To reproduce, in this directory:

    tlc -workers 2 -config MCWebServerRelease.cfg MCWebServer
    tlapm WebServerProofs.tla

## The system

An application creates a `WebServer`, adds middlewares (CORS, auth, routing) to
it and calls `start()`. One I/O thread runs an `asio::io_context`; every
completion handler of the server and of its sessions runs on that thread. Each
client gets a `WebSession`, which reads chunks, feeds them to its
`http_parser`, runs the finished request through the shared middlewares, sends
the response and disconnects. A thread of the application that holds a session
may also call `send_async()` on it, which is why the session has a lock and two
send buffers. Handlers may use the ORM, which turns each call into one statement
and one transaction of a PostgreSQL database.

    user thread --start/stop--> WebServer ==owns (sessions_)==> WebSession
                                   |  accept loop, expiry          | read, parse, run, send
                                   v                               v
                              io_context (one thread) <--- kernel completes operations
                                                                   |
                            WebSession --chunk--> http_parser --request--> middlewares
                            middlewares: cors -> auth -> routing --> routes (shared) --> handlers
                                                                   |                       |
    application threads --send_async--> send buffers (send_lock_) <+                  ORM --> database

| component | state | operations | what is hard | what makes it correct |
|---|---|---|---|---|
| `WebServer` (`server/webserver.hpp`, `webserver.cpp:397-570`) | `started_`, the worker thread, acceptor, `last_session_id_`, `sessions_` | `start`, `stop`, `accept`, `register_session`, `unregister_session`, expiry | two threads write `started_`; accept, expiry and session handlers interleave; calls that fail or throw half way | the registry holds exactly the live sessions; the accept loop never stalls; `stop()` returns |
| `WebSession` (`webserver.cpp:1-395`) | `connected_`, `receiving_`, `sending_`, two send buffers and an offset, socket, parser | `connect`, `disconnect`, `try_receive`, `send_async`, `try_send`, `on_receive`, their handlers | handlers of a session that was disconnected by another handler; who still owns the session; partial writes | a disconnected session is quiet and stays so; a connected one always reads; responses arrive |
| send path of a session (`webserver.cpp:238-356`) | main and flush buffer, offset, `sending_`, `send_lock_` | `send_async` on any thread, `try_send` and its handlers on the I/O thread | only one of the two buffers is locked; who sends what another thread queued; partial and failed writes; a disconnect in between | bytes leave in order, each once; one write at a time; nobody forgets queued bytes |
| `http_parser` (`server/http/http_parser.hpp`) | phase, position, headers, multipart buffer | `parse(chunk)` | a request is cut anywhere | what is returned does not depend on the cuts; it is decided in the end; no exception |
| `route` (`server/http/middlewares/route.hpp`) | parsed path, `path_parameters_` | constructor, `is_match_with_target_request` | writes shared state while it matches | a match means what the path says; values are the request's |
| middlewares (`server/http/middlewares/`) | their lists of routes | `execute` | two lists of routes in different orders; exceptions | nothing guarded runs unguarded; a refusal stands |
| HTTP messages (`http_request.hpp`, `http_response.hpp`, tables) | headers, body, status | accessors, serialisation | none | formatting |
| `endpoint_context` (`helpers/`) | routes collected for the middlewares | `add_route`, ... | an inverted assumption about auth | the middlewares get the routes that were added |
| PostgreSQL ORM (`orm/`) | a connection, the mapping of a struct, the table, its rows and sequences | `create_table`, `insert`, `select`, `select_many`, `update`, `delete_` | lists of columns and of values built by different rules; texts that are not the values; a table made by an older version of the program | a value gets to its column; what is stored can be read back; an update changes what it names |
| serializer, string, date and URL utilities | none | pure functions | boundary cases | they compute what they say |

`PROJECT.json` lists the same components with their status, and under `hazards`
every place where the code is hard to test, with the property that watches it.

## The modules

| module | models | its counterpart in the code |
|---|---|---|
| `WebSession` | `WebSession` | a session is a record, each method an operator from the record before the call to the one after it |
| `WebServer` | `WebServer`, the I/O thread, the user thread, kernel and clients | one action per completion handler, user call, kernel event and client event; extends `WebSession` |
| `SendPath` | `send_async()` by threads of the application against the I/O thread | a step is what no other thread can interrupt |
| `ByteStream` | what a session promises those threads | abstract; `SendPath` implements it |
| `ConnectionService` | what the server promises about connections | abstract; `WebServer` implements it |
| `HttpParser` | `http_parser` | `Receive(size)` is one call of `parse()` with a chunk of any size |
| `Route` | `route.hpp` | pure operators, and next to them `Denotes` and `Meant`, what a path *means* segment by segment |
| `Middlewares` | `on_receive`'s loop over `middlewares_`, and the three middlewares | one action per outcome of `execute`; extends `Route` |
| `Orm` | `orm/databases/postgres/postgres.hpp` and the tables it makes | one action per call of the API, and `Upgrade`, a new version of the program |
| `WebSessionProofs`, `WebServerProofs` | | lemmas on the methods of one session, theorems on all of them |
| `LifecycleProofs` | | theorems on the life of the sessions, and the refinement of `ConnectionService` |
| `RouteProofs` | | what the matching of a path of any length computes |
| `SendPathProofs`, `HttpParserProofs`, `MiddlewaresProofs`, `OrmProofs` | | theorems about the module of that name |
| `MCWebServer`, `MCHttpParser`, `MCMiddlewares`, `MCOrm` | | the instances |

### Server and sessions

An action of `WebServer` is a handler from its first to its last line. That is
the atomicity of the code: all handlers run on the one I/O thread, and
`dispatch()` called there runs its argument inline. So
`ReadHandler = ReadDone; OnReceive; Disconnect or TryReceive` is one step, with
the close of the socket, the clearing of the buffers and the unregistering
inside it. Between two handlers anything may happen: any other ready handler
(asio promises no order between them), the kernel, a client, or `stop()` on the
user's thread, which changes `started_` under the feet of the I/O thread.

Choices of the environment are parameters of the operators or `\E` in the
actions: whether `close()` reports an error (`closes`), how many bytes a write
takes at once (`k`), how long a response is (`n`), what the parser makes of a
chunk (`verdict`; `HttpParser` shows that each verdict occurs).

Who owns a session matters and is state in the code only implicitly, through
`shared_ptr`s captured by handlers. `Held` spells it out: the registry, the
accept handler, the handler of the wait, the handler of a write. The read
handler captures `this` alone. A handler of a session that nobody holds is
undefined behaviour and is a choice between going on and the end of the process
(`proc = "dangling"`). `receiving_` and `sending_` are never initialised;
`InitFlags` is the set of values they may start out with.

The two builds differ: CMake makes a Debug build with assertions, and under
`NDEBUG` they vanish. `AssertsEnabled` chooses.

Assumed of the environment: `on_error_` does not throw; a successful read has at
least one byte; a wait whose timer is destroyed completes with
`operation_aborted`; a closed socket's operations complete with an error.
The counters of bytes are left out.

### Send path

`WebServer` has one thread and counts bytes; `SendPath` has the threads of the
application as well, and the bytes one by one. Its steps are smaller than
handlers, because a sender can come between: `Queue` is the section of
`send_async()` under `send_lock_`, `Dispatch` its `dispatch()` behind the
section, `WriteHandler` the write handler up to its call of `try_send()`,
`Resend` that call. `TrySend` is one step, since all it touches outside of its
own locked section is known to the I/O thread alone. `try_send()` and the write
handler clear `send_buffer_flush_` *without* the lock, while a sender that holds
it asks whether that buffer is empty. A concurrent read of the size of a vector
sees its old or its new value; both orders of `Queue` and the clearing are
behaviours of the model, and with them both values.

`given` and `wire` are history: the bytes in the order of the lock, and those
the kernel took. The kernel takes any number of bytes of a write, or fails it; a
closed socket fails its writes, old and new. `Disconnect` is `disconnect()` by
any other handler of the I/O thread. The session is connected at the start, and
the sender keeps it alive, as a caller of a method must; calls without bytes are
left out.

### Parser

A request is a sequence of tokens: the start line, lines of a header name, a
value in two parts, CR and LF, then the body; a chunk is any run of tokens.
So a cut can fall before, inside and after a header's value, inside a CRLF and
inside the empty line, but not inside a name or between two characters of a
part. The parser's position is kept, as in the code, without clamping it to the
chunk: that it can lie past the end is where the exceptions come from. Requests
are well formed; malformed ones, which the parser checks character by
character, are left out (`RequestShape` says what is assumed: in a form, one part
with a type, data without the boundary value, and a length that is at least the
number of tokens, since each has a byte or more), as are `image/jpeg` (a second
spelling of the form) and a boundary value cut in two. The code reads past the
end of the first chunk in places; the receive buffer was zeroed, so what it
finds there is no CR.

The loop over the header lines is not written as a loop: lines are five tokens
apart, so that the line at which it stops is the smallest of a set of positions
(`MessageHeader`), which is a form that can be proved about.

### Routes and middlewares

A path is a sequence of tokens, `/`, `:` and words. The code's searches for
substrings become searches for runs of tokens; a word that begins with another
is written as two tokens (`"user", "s"`), so that `find` can hit inside it.
`Verdict` is what matching returns, `Values` what it leaves in the shared
`path_parameters_`, which it writes before it knows whether the target
matches. A path begins with a slash, for the constructor of a route throws
otherwise (`Path`).

The loops of `parse()` and of matching are recursive functions (`Colons`,
`ValueStarts`, `Bound`). `Denotes` says what a path stands for, segment by
segment, without any of them, and `Meant` which values its parameters then have.
`Plain(path, target)` are the paths that the code reads like this: the
parameters are consecutive segments behind a literal one that is not empty, from
there on no colon stands but in front of a name, a slash at the end comes right
behind the last parameter, and no name occurs in the target. Each condition
excludes something the code does differently. A name goes on up to the next
`/:`, over literal segments in between, or to the end of a path that ends in a
slash (`KeyEnd`). A parameter in the first segment is not found (`Binds`), nor
are values behind an empty one, because the character behind a slash is skipped
(`Tried`). A colon behind the first parameter is taken for another one
(`Colons`), as in `/x/:a/b:c`. And a name is searched in all of the text with
what was bound before (`Bound`), so that `/x/:a/:id` does not match `/x/id5/7`.

The handlers and the auth callback are the application's and may do anything,
throw included. `values` survives from one request to the next, because the
routes do.

### ORM

A struct is a sequence of fields; a field has the name of its member, the name
of its column, a data type, a set of attribute flags and a custom definition, as
`Column` has. Data types are kept as far as statements tell them apart: `number`
stands for all that a statement writes as it is, `decimal` for those whose text
is shorter than the value, `time` and `char_n` for those that the database
refuses. Each call is an action: the text it builds is modelled by what
PostgreSQL makes of it, place by place where the code writes two lists (`ColumnList`
and `ValueList` are the positions of the struct that get into each, `Giver` the
field whose value a column gets), by name where it looks a column up
(`Readable`). `rows` maps the number of an insert to its row.
The conditions of `where` and the results are the application's text and are
chosen from small sets.

The table, its rows and the value of its sequences outlive the program:
`Upgrade` starts another version of it, with another mapping, on the same
database, which `create_table()` leaves as it is. A row remembers by which
mapping it was inserted. Every call is a transaction of its own, so that a call
that throws leaves the rows as they were, though not the sequence.

## The runs

Each run's `about` in `PROJECT.json` is a sentence; this is what they mean.

### Runs that pass

| run | instance | states | properties |
|---|---|---|---|
| `server_release` | 2 clients, 1 byte, no assertions | 618 844 | `TypeOK`, `RegistryExact`, `AcceptLoopArmed`, refinement `ServiceSpec` |
| `server_garbage` | 1 client, 2 bytes, any initial flags | 15 352 | `DisconnectedIsQuiet`, `NoSpuriousError` |
| `server_debug` | 2 clients, 1 byte, assertions, fair | 178 850 | `NoAcceptAssert`, `ReadArmed`, `SessionsEnd`, `ClientsAccepted` |
| `parser` | six requests, every way to cut them | 488 | `TypeOK`, `Decided`, `DecidedAtOnce`, `CutAfterHeaders`, `BodyOnItsOwn`, `UploadExact`, `FormKept` |
| `middlewares` | cors, auth, routing; eight routes, fifteen targets | 74 630 | `TypeOK`, `GuardedHandler`, `RefusalStands`, `FirstMeant`, `GivenMeant`, `AuthShields` |
| `send_path` | 2 senders of 2 bytes each, any split of the writes | 35 957 | `TypeOK`, `StreamExact`, `OneWrite`, `FlushPinned`, `NoLostWakeup`, `EveryByteLeaves`, refinement `StreamSpec` |
| `orm` | eight mappings, two inserts | 45 680 | `TypeOK`, `FitReads`, `NoMixup`, `FitStores`, `UpdateExact` |

*Sessions.* `RegistryExact` ties `sessions_` to `connected_` over every
interleaving of read, write, expiry and accept handlers, with closes that fail
and accepts that fail. `DisconnectedIsQuiet` says that `disconnect()`, reached
from whichever of three handlers first, leaves nothing under way, whatever the
flags held at first. `ReadArmed` says that no sequence of partial requests and
failing closes leaves a connected session that nobody reads, with the one
exception its second disjunct names. `AcceptLoopArmed` says the same of the
accept loop, and names the three ways in which it *is* lost. `SessionsEnd` and
`ClientsAccepted` are their liveness: no session stays connected for ever, not
even one whose client is silent and whose first close fails, and no client waits
for ever. Both allow that the I/O thread ended with an exception or that the
server was stopped.

*Refinement.* `Phase` maps each session to absent, listening, open, closed or
lost, and `Answers` to the number of requests handed to the middlewares. TLC
checks that every step of the server is then a step of `ConnectionService`:
connections are taken in order, one at a time, answered at most once and only
while open, and never reopened.

*Send path.* `StreamExact`, `OneWrite` and `FlushPinned` say that the double
buffer is right although half of it is not locked: no byte is lost, doubled or
moved between main, flush and the kernel, `sending_` keeps a second write away,
and the memory that a write reads stays as it is until the write ends.
`NoLostWakeup` is about the decision that `send_async()` takes under the lock
with a value that may be old at once: it calls for `try_send()` only if it found
one of the buffers empty, and is right to, for otherwise a write is under way, or
one failed. `EveryByteLeaves` is its liveness, and `StreamSpec` the refinement.

*ORM.* `NoMixup` says that whatever flags are combined no insert puts a value
into the column of another member. `Fits` says which mappings fit a table, which
may be that of an older version; for those `FitStores` and `FitReads` say that
any object can be stored and everything stored be read back, whatever updates,
deletions and changes of version lie between. The mappings of the instance that
do not fit are the ones whose problems the observations below list. `UpdateExact`
says what an update changes, with fields named twice, and what it leaves.

*Parser.* The properties that hold say which cuts are harmless: a cut after the
empty line of the headers loses no header (`CutAfterHeaders`); a body that
comes after the headers is taken whole when it comes in one chunk
(`BodyOnItsOwn`); a form whose part headers came with the first chunk is
collected exactly, wherever the rest is cut (`UploadExact`), and holds what came
at any time before that (`FormKept`); and every ordinary request is decided (`Decided`, `DecidedAtOnce`). The violations below say which
cuts are not.

*Middlewares.* `GuardedHandler` relates two searches over two lists in two
orders: although the instance lists the routes in opposite orders and a target
(`/users/new`) matches two of them, no guarded handler runs without its own
approval. `FirstMeant` and `GivenMeant` compare the code's matching, which is
not segment by segment at all, with the meaning of paths. They hold for the
routes that `Plain` describes; the instance also has routes that are not
plain, and the properties say that those do not disturb the others. For two of
them matching throws: behind the auth middleware that is a 500, and
`AuthShields` says that only a route without authorisation can end the I/O
thread.

### Bounds

* `MaxClients = 2`: sessions interact only through the registry and the accept
  loop. Two clients make a session that is being accepted, one that is open and
  one that is closing coexist, and a restart with sessions left over. Session
  properties that speak of one session use one client and more bytes.
* `MaxResponse` 1 or 2: two bytes make a partial write possible, which is all
  the buffers can tell apart; one byte can still be taken or not.
* The parser's requests have 12 to 39 tokens: no body, a body with and without
  a type, a length of zero, a rejected type, a form with one part and a CRLF in its data. A length has
  two digits so that a cut one is a different number. The form has one part,
  since the parser collects one.
* Two senders of two bytes each: one can queue while the other lies between its
  unlock and its dispatch, a write can be partial with bytes of either in both
  buffers, and a swap of the buffers can meet both.
* Eight mappings: the ones of `examples/api_admin` and `examples/orm`, the former
  also in an older version, and one for each way in which a field is left to the
  database, sent, renamed or refused. Two inserts make a collision of keys and of
  unique values possible; the values are 0 and 11, which `decimal` writes as 10.
* Routes with no, one and two parameters, a literal behind and between
  parameters, a parameter named like a literal, the root; targets that match
  one, two or none of them, with an empty segment, a trailing slash, no leading
  slash, and the empty target.

Deadlock is not checked, because each system really stops: an I/O thread that
has exited, a process that was ended by an assertion, a request that has been
sent, senders that have nothing more to send. That nothing stops *before* is what `AcceptLoopArmed`, `ReadArmed`,
`Decided` and the liveness properties say.

### Fairness

`FairSpec` assumes weak fairness of each kind of handler, because a running
`io_context` takes handlers off a queue that starves none; of the kernel's
completion of a read that has bytes or whose peer left, and of an accept with a
client waiting; and of the return of `join()` once the thread has ended.
In `SendPath` it is the handlers of the I/O thread, the way of a sender from its
unlock to its dispatch, and the kernel: the peer reads, or goes away.
Nothing is assumed of clients, who may stay silent for ever, or of the user,
who may never call `stop()`. Of read handlers only the disjunction of its
outcomes is fair: whether it throws is the application's choice. Nobody has to
send or to disconnect.

### Mutants

Every property of a passing run has a mutant in `PROJECT.json`: a definition of
the model changed the way a plausible bug would change the code (a `connected_`
check dropped, buffers not cleared, a preflight passed on, an empty line missed
by one), for which TLC finds the property violated.

## The proofs

TLC checks the instances above; TLAPS proves the following for every number of
clients, every response size, both builds, every set of initial flags
(`InitFlagsAssumption`, `ServerAssumption`), every set of sending threads and
any number of bytes (`SendPathAssumption`), every chain of middlewares and every
set of routes (`MiddlewaresAssumption`), requests with any number of headers, a
body and an upload of any size (`RequestsAssumption`), and every set of mappings,
objects, conditions and arguments of the ORM (`OrmAssumption`). Of a path
`MiddlewaresAssumption` asks that it begins with a slash, of a target that it is a
sequence of tokens. Theorems with a hypothesis of their own are `ReadsStayArmed` and
the two of `RouteProofs`, which are about plain paths.

| theorem | statement |
|---|---|
| `WebServerProofs!TypeCorrect` | `Spec => []TypeOK` |
| `WebServerProofs!RegistryIsExact` | `Spec => []RegistryExact` |
| `WebServerProofs!ErrorsAreReal` | `Spec => []NoSpuriousError` |
| `WebServerProofs!AcceptAssertHolds` | `Spec => []NoAcceptAssert` |
| `LifecycleProofs!QuietOnceDisconnected` | `Spec => []DisconnectedIsQuiet` |
| `LifecycleProofs!AcceptLoopStaysArmed` | `Spec => []AcceptLoopArmed` |
| `LifecycleProofs!ReadsStayArmed` | `Spec => []ReadArmed`, in a Debug build with clear flags |
| `LifecycleProofs!ServiceIsImplemented` | `Spec => ServiceSpec` |
| `SendPathProofs!TypeCorrect` | `Spec => []TypeOK` |
| `SendPathProofs!StreamIsExact` | `Spec => []StreamExact` |
| `SendPathProofs!OneWriteAtATime` | `Spec => []OneWrite` |
| `SendPathProofs!FlushIsPinned` | `Spec => []FlushPinned` |
| `SendPathProofs!NoWakeupIsLost` | `Spec => []NoLostWakeup` |
| `SendPathProofs!ImplementsStream` | `Spec => StreamSpec` |
| `HttpParserProofs!TypeCorrect` | `Spec => []TypeOK` |
| `HttpParserProofs!SimpleIsDecided` | `Spec => []Decided` |
| `HttpParserProofs!NoLengthNoWait` | `Spec => []DecidedAtOnce` |
| `HttpParserProofs!HeadersSurviveCuts` | `Spec => []CutAfterHeaders` |
| `HttpParserProofs!BodyInAChunkOfItsOwn` | `Spec => []BodyOnItsOwn` |
| `HttpParserProofs!UploadLosesNothing` | `Spec => []FormKept` |
| `HttpParserProofs!UploadIsComplete` | `Spec => []UploadExact` |
| `MiddlewaresProofs!TypeCorrect` | `Spec => []TypeOK` |
| `MiddlewaresProofs!HandlersAreGuarded` | `Spec => []GuardedHandler` |
| `MiddlewaresProofs!RefusalsStand` | `Spec => []RefusalStands` |
| `MiddlewaresProofs!AuthShieldsRoutes` | `Spec => []AuthShields` |
| `MiddlewaresProofs!FirstMeaningIsServed` | `Spec => []FirstMeant` |
| `MiddlewaresProofs!HandlersGetTheirValues` | `Spec => []GivenMeant` |
| `RouteProofs!MatchIsMeaning` | on a plain path, `Verdict` is "yes" just if the path denotes the target or the target is its bare uri, and never "throws" |
| `RouteProofs!ValuesAreMeaning` | on a match of a plain path, `Values` is `Meant`, whatever was there before |
| `OrmProofs!TypeCorrect` | `Spec => []TypeOK` |
| `OrmProofs!StoredIsReadable` | `Spec => []FitReads` |
| `OrmProofs!NothingMixedUp` | `Spec => NoMixup` |
| `OrmProofs!FittingIsStored` | `Spec => FitStores` |
| `OrmProofs!UpdatesAreExact` | `Spec => UpdateExact` |

Every inductive invariant named below was first checked by TLC on the instances
of the runs.

**Sessions** (`WebSessionProofs`). `SessionInv` is an invariant of one session:
its type, the offset within the flush buffer and the error never reported. One
lemma per method says that the method keeps it and connects nothing (`Keeps`);
`connect()` alone connects. These lemmas make all handlers of the
server the same case.

**Server** (`WebServerProofs`). `TypeOK` is not inductive: `last_session_id_` is
incremented without a bound, and only the clients that came bound it.
`CountInv` says so: a session is created only by a handler that has taken a
client out of the backlog, so that `lastId <= connects - backlog + 1`.
`RegistryExact` needs to know that the session an accept is under way for is
registered and not connected (`AcceptingInv`), and that `accept()` makes a
session whose id is new. `NoAcceptAssert` needs that with assertions enabled
`stop()` never gets to clear `started_` while the thread lives (`AssertInv`).
`NextInv` goes through the actions of `Next`; two lemmas carry it,
`HandlerInv` for whatever a handler does to one session, and `AcceptInv` for
whatever leads to `accept()`.

**Life of a session** (`WebSessionProofs`, `LifecycleProofs`). `Life` says of one
session, as it goes from fresh to connected to disconnected, what can be under
way at a time. `DisconnectedIsQuiet` is a part of it and not inductive: after a
disconnect under a read that has data, the read handler is still to come, and it
sets flags and may send. What rules it out is that only the handler of the expiry
disconnects at such a moment (`Life`: `read = "data"` and not connected implies
that the expiry ran), and that this handler was the last to hold the session, so
that no later one finds it (`DataMeansConnected`); and `Orderly`, that a write is
started only by the handler that closes the socket behind it. `LoopInv` is
`AcceptLoopArmed` without `started`: a server that was stopped still has its
last accept pending, and a restart relies on it. `ReadArmed` is a theorem
only of the Debug build with flags that start out clear. A flag `receiving_`
that starts out set keeps the first read from being started. And in a Release
build the user may call `stop()` and `start()` after an exception ended the
I/O thread: the new thread finds a connected session whose read handler threw
before it started the next read. `ArmedInv` says why the Debug build is spared:
`stop()` ends it, so that no thread is ever replaced.

**Refinement of the service** (`LifecycleProofs`). `Phase` maps a session to its
connection's phase. The step of `StartHandler`, and of a handler of accept that
goes on to `accept()`, is `Listen` for the new id; the handler of accept takes
the connection or loses it; a handler of a session answers it, closes it, or is
a stutter (`SessionStepRefines`): the last two only while it is open, for
which `RegistryExact` and `AcceptingInv` are needed.

**Send path** (`SendPathProofs`). The properties need each other. `StreamExact`
is kept by a write that ends only because what it was offered is the rest of
flush (`FlushPinned`), because it is the only one (`OneWrite`), and because it
takes no more than it was offered (`DoneFits`); and the offset stays within the
buffer (`TypeOK`), at whose size it is compared for equality, only for the same
reasons. `IInv` is their conjunction, with `ClosedQuiet`, that a closed socket has
no writes. `NoLostWakeup` is inductive beside them: a sender that leaves its bytes
to others has found flush filled, and a filled flush is somebody's work. The
lemmas about sequences (`Split`, `Moving`, `Front`) say how a buffer falls apart
where a write takes a part of it. One lemma per action keeps `IInv`; `WriteEnds`
is shared by writes that succeed and fail. The refinement then is `Queue` as
`Give`, `KernelTakes` as `Leave` and `Disconnect` as `Close`, all else a stutter.

**Parser** (`HttpParserProofs`). The lemmas about text come first. `Block(c, p,
ns)` says that the headers `ns` and their empty line lie at position `p` of a
text, as far as the text goes; a chunk of a text inherits it (`BlockInChunk`);
and `HeaderBlock` says what `MessageHeader` does with a block: it reads no line
behind it, and if the empty line is there, stops at it, without an error and
with every header in full. The loop's end is a smallest position, which exists
because the order of the naturals is well founded (`SmallestOf`); no induction
over the lines is needed. The lemma serves the headers of the request and those
of the part.

Of requests with an ordinary body, the invariant is that a call returns "more" at
most once: then the first chunk had the headers and no more, the phase is
`parse_body_pending`, something is left to be sent (`Waits`), and the next call
decides. All four properties of ordinary requests follow from it.

Of forms, the invariant (`Taken`) says more than `FormKept`: `buffer_size_readed_`
is the number of bytes taken of the part and of what follows it, Content-Length
is known in full, and the phase is one that has a handler. The count matters
because the parser also stops when it *exceeds* Content-Length. That cannot
happen too early, for the count leaves out the part's headers, which
Content-Length includes. The other way to stop is a CRLF behind the boundary
value: in what is left of the form the value comes once, in the closing line,
and the one CRLF behind it is the end of the form (`RestOfForm`). So
data that contains CRLFs does no harm, and neither does any cut. That
the first call starts to collect at the first byte of the part is `FormBegins`.

**ORM** (`OrmProofs`). `OrmInv` is `TypeOK` with `Consistent`, that the rows
satisfy the constraints of the table, and `Stored`, that a row has a value in the
column of each member its mapping sent, be the table of an older version or
not. `NoMixup` is about two lists made by different rules and matched by place.
The key is that every field that has a value is also listed (`Valued` implies
`Listed`), so that lists of one length are the same list (`SameLists`); then each
place gives its own (`GiverIsListed`). If they are not the same, the lengths
differ, and the database refuses. `FitStores` follows by exclusion: for a mapping
that fits, no other reason to refuse is left (`NotRefused`, `NewCellsFilled`).
`UpdateExact` is the lemma on `Max` (the value named last) and the fact that
names and columns of a mapping that fits are the same.

**Middlewares** (`MiddlewaresProofs`). The hard one is `HandlersAreGuarded`:
the handler may be found through a list that has nothing to do with that of
the auth middleware. `ApprovedInv` is the strengthening. Once the request is past
the auth middleware, *every* route of its list has a verdict, and each one that
matches is approved. The verdict depends on the request and the route alone,
not on the parameter values that matching changes, so that routing, which
comes later, sees the same verdict. The same invariant says that none of those
routes throws (`AuthShieldsRoutes`). `LastInv` says that a handler is the end of a
request, which is why `RefusalStands` survives the next step.

`FirstMeant` and `GivenMeant` rest on the two theorems of `RouteProofs`: a search
that finds a route has left each one before it by the verdict "no"
(`VerdictIsMeaning`), and a handler is given what matching has just left in its
route. `ParametersInv` is needed for the latter: `path_parameters_` keeps one
value per name however often it is overwritten.

**Matching of paths** (`RouteProofs`). The code and the meaning go over a path in
different ways, one by searching for substrings in a text that it changes, the
other by segments. The proof brings both to the positions of the slashes,
`SlashNo`.

* *Induction.* The library's theorems that take a predicate as a parameter
  cannot be used; a set takes its place. That each nonempty set of naturals has a
  smallest member (`MinOf`) follows from `NatLessThanWellFounded` and `WFMin`, and
  from it `SetInduction`, and `Iteration`: that a function can be defined by what
  each value is made of the one before. `SlashNo`, `Colons`, `ValueStarts`, `Bound`
  and `Tried` are instances of it.
* *Segments.* `Align` and `Follow` say that texts with the same segments have
  their slashes at the same places, and the other way round. With them `Denotes`
  falls into how a target begins, whether it has a segment for each parameter, and
  how it ends (`DenotesIs`).
* *Parsing.* A plain path with parameters has a `Shape`: its parameters
  are the segments from `a` to `b`. Then the colons at which the loop of `parse()`
  begins a name are those of the parameters and no others (`ColonsAre`), and the
  names are theirs (`NamesAre`).
* *Values.* The comparison does not try every slash of a target, but it does try
  one that has no slash in front (`TriedAre`), as the slash of the first value has
  when the target begins like the path (`ValuesAtIs`). From there on each value is a
  segment (`ValuesAre`).
* *Binding.* `Filled` is the invariant of `full_path_binded`: after `k` parameters
  it is the target in front of its `a + k`-th slash and the path from its own on; a
  target that is too short is followed by slashes with nothing between. The
  first occurrence of the next name is then where the path has it: there is none in
  what came from the target, and none can take in the slash behind that
  (`FindName`). So `replace()` always finds its name, and never at the very
  beginning, where it would throw (`BoundFilled`). In the end the text is the
  target just if the target has that many segments and ends like the path
  (`FilledIsTarget`).

The attempt to prove `FirstMeant` showed that an earlier form of `Plain` was too
generous: it let a literal segment behind the parameters contain a colon, which
no route of the instance had. Of paths that are not plain for a target the
theorems say nothing; that no name occurs in the target is more than is
needed for some of them.

**Only model-checked.** Liveness and anything that needs `ENABLED`
(`SessionsEnd`, `ClientsAccepted`, `EveryByteLeaves`), since TLAPS does not do
it. Every other property that a passing run checks is a theorem.

## Findings

Each is a run that expects a violation of what a comment, a message or an
example says.

| run | what happens |
|---|---|
| `early_expiry` | the timer of the 15 s expiry is a local of the accept handler: it is destroyed at once, and the aborted wait disconnects the session (`webserver.cpp:478-487`) |
| `late_read` | the read handler captures only `this` and can run after its session was destroyed (`webserver.cpp:139`) |
| `truncated_response` | `disconnect()` right behind `send_async()` drops what the first write did not take (`webserver.cpp:223`) |
| `stop_hangs` | without assertions, `stop()` joins a thread that never ends (`webserver.cpp:516`) |
| `headers_lost` | a first chunk that ends between two header lines passes for a whole request (`http_parser.hpp:671`) |

Other observations, which the models contain and no run singles out:

* One failing accept ends the accept loop of a server that stays started
  (`webserver.cpp:469`); so do `connect()` when it throws (`:35`) and `accept()`
  after `stop()`. `AcceptLoopArmed` names all three.
* `stop()` asserts that the server is *not* started (`webserver.cpp:506`), so the
  Debug build ends whenever a started server is stopped (`Stop`).
* A body that comes with its headers keeps the CRLFs in front of it
  (`http_parser.hpp:309`), and one cut in two is cut off; `BodyOnItsOwn` says
  when it is exact.
* A form whose body comes in a chunk of its own is waited for in a phase without
  a handler (`http_parser.hpp:200`, `ParseNext`); a form cut right behind its
  part headers makes the parser throw (`http_parser.hpp:554`, `MediaMore`).
* A handler that throws is answered 404, not 500 (`routing_middleware.hpp:43`,
  `RouteFound`).
* A first chunk cut inside a header line makes the parser throw
  (`http_parser.hpp:671`, `:313`), which ends the I/O thread; a form cut in its
  closing boundary is waited for for ever, though `FormKept` says that nothing
  of it is lost.
* A parameter's name is searched in all of the path (`route.hpp:177`): routes
  that are not `Plain` may match nothing, or throw.
* The bare uri of a route with parameters matches without setting any, so that
  its handler gets the values of an earlier request (`route.hpp:110-112`).

Of the send path:

* `send_async()` does not look at `connected_` (`webserver.cpp:238`): bytes queued
  after a disconnect are never sent though it returned true. After a failed
  write with both buffers filled no later call sends them; that is the `failed`
  of `NoLostWakeup`.
* `clear_buffers` leaves the offset (`webserver.cpp:110-119`), so that on a closed
  socket a late completion moves it past the buffer; `TypeOK` bounds it while the
  socket is open.
* A failed write reports no bytes, on which the handler returns: the
  `disconnect(ec)` for it (`webserver.cpp:348`) is not reached.
* `send_handler` captures `this` alone (`webserver.cpp:276`), as the read handler
  does. `disconnect()` from another thread than the I/O thread posts a handler
  that captures the local `shutdown_session` by reference (`webserver.cpp:78`);
  the model has `disconnect()` on the I/O thread only.
* The statistics `bytes_*` are neither locked nor atomic.

Of the ORM, all in `orm/databases/postgres/postgres.hpp`:

* A custom definition such as `NOT NULL` is dropped from a field with any flag
  (`:89`, `Custom`). The data type makes a key, the flag `primarykey` does not
  (`ColumnOf`); a key by data type alone is inserted like any member, while the
  assertion of `insert` does not count it (`:302`).
* `primarykey` together with `ignore_on_serializer` names a column for which no
  value is written (`:311`); every such insert is refused.
* A time of day is written without quotes and always refused, and
  `examples/orm` maps one; `char_n` declares an array. Doubles are written with
  six digits, where `enums.hpp:19` speaks of an exact numeric, and timestamps
  without fractions (`Written`, `Refused`).
* `select` finds a column by the name of the member, `insert` and `create_table`
  by that of the column (`Readable`), and throws on NULL, which is what a column
  without a default has after `ignore_insert`.
* `create_table()` returns true for the table of an older version.
* `update()` with no field of the mapping cuts the wrong character off (`:891`)
  and is no statement; an unknown field is asserted in the Debug build and
  ignored in Release; of a field named twice the last value wins.
* A key that was set by hand collides later with the sequence.

## Not modelled

* Malformed requests, the tables of names, the serialisation of responses, JSON:
  text without control.
* `endpoint_context` (`helpers/endpoint_context.hpp`) hands the routes of an
  application to the two middlewares before the server starts, which `Middlewares`
  takes in any order; nothing of it runs later. Its assertion about the auth
  callback (`:59`) ends the Debug build of an application that has no protected
  route, which is a statement about one line.
* `serializer/` includes headers of `webcrown/admin`, which the repository does
  not have: it cannot be built, and nothing uses it.
* The string utilities are one loop each over a string. `replace_all` with an empty
  substring never ends; no caller passes one.
* The vendored URL parser and the formatting of dates, which keep no state.
* A commit whose connection is lost, after which nobody knows whether it took
  effect: `pqxx` reports it with an exception of its own, which the ORM does not
  tell from others.
* What a data race on a vector may do beyond the old or the new size, and
  `disconnect()` called by application threads.

## The plan

`SendPath` and the ORM, the first items of the plan, are done. What is left, in the
order of its weight; the runs stay a dozen, so that a new one takes the place of
a violation that is then told among the observations.

1. `Connection`: `WebServer`'s session with `HttpParser` in place of the
   `verdict`. The verdict is any that `HttpParser` reaches, so that what holds of
   `WebServer` holds of the composition already; it would add the sequences of
   chunks that lead to a given end of a session.
2. Forms with several parts, of which the code collects the first, and requests
   with malformed tokens, as far as they lead to other phases.
