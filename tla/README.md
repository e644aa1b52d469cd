# A TLA+ model of chxsql

chxsql is a header-only C++ library of asynchronous SQL and Redis clients for
the io_uring library chxnet. This directory models the parts of it that have a
state to get wrong, model-checks them on small instances, and proves the most
important facts for every instance.

## The system

Everything runs on one thread: an `io_context` that calls the completion
handlers of operations. An operation is an object with a few handlers
(`operator()` overloads told apart by tags such as `ev_send`, `ev_read`); each
handler runs to its end, starts at most one write or read, or completes the
operation. There are no locks and no threads; what is concurrent is the client,
the server, and the stream between them.

| component | state | operations |
|---|---|---|
| PostgreSQL connection (`postgresql/connection.hpp`) | stream, 4096-byte buffer, `__M_buf_begin/end` that *outlive* an operation | none of its own; every operation reads and moves them |
| `async_connect` (`connect.ipp`) | `__M_state` (start-up, waiting for success, until ready) | write start-up, read, answer a cleartext password, read until ready |
| `async_simple_query` (`simple_query.ipp`) | `__M_parsers`, `__M_curr_type`, `__M_curr`, `__M_result` | write, parse loop, read |
| `async_parse` (`parse_query.ipp`) | `parsers`, `stage` | write, parse loop, read |
| `async_execute` (`execute.ipp`) | `parsers`, `expect`, `err`, `__M_curr`, `result` | write, parse loop, read |
| `async_execute_oneshot` (`oneshot.ipp`) | as execute | writes and reads at the same time |
| PostgreSQL framing (`basic_parser.hpp`, `message_parser.hpp`, `basic_type.hpp`, `msg/*`) | position inside a message | consume a piece of input |
| PostgreSQL request encoding (`create_msg.hpp`, `encode_param.hpp`, the first handlers) | none | size a buffer, fill it |
| PostgreSQL results (`result.hpp`, `last.hpp`, `error_code.hpp`) | none | access |
| MySQL packet reader (`basic_packet.hpp`) | header, bytes left | `feed` |
| MySQL `async_connect` (`connection2.ipp`) | stage, sequence id, payload parser | read greeting, answer, read verdict |
| MySQL `async_query` (`com_query2.ipp`) | stage, sequence id, column count, result set | write, read until the end of the first result |
| MySQL payload parsers (`packets/*`) | position inside a payload | consume a piece of input |
| hiredis adapter (`hiredis/connection.hpp`, `impl/connection.ipp`) | two polls with cancellation flags | add/del read/write, command, destroy |
| libpq adapter (`pq/impl/async_exec.ipp`) | socket, last result | hand a query to libpq, poll, fetch its results |

An operation talks to the server through chxnet's stream (external; its
submodule is not part of the repository): a write of the whole request, then
reads of whatever is there. A PostgreSQL operation also talks to the *next*
operation, through the bytes it leaves in the connection's buffer. A MySQL
operation has its own buffer, so what it leaves there is lost.

What is hard, and what makes each part correct:

* **Request and answer must stay together.** PostgreSQL messages carry no
  request number; an operation takes whatever comes next for its own answer.
  That is right only if each operation consumes its answer exactly. Some do
  not (`simple_query` and `parse` return on an error before `ReadyForQuery`,
  `connect` may return before it, `malformed_message` leaves everything, and a
  oneshot execution may leave it without reporting it). The
  properties say precisely when an answer is the operation's own and what
  happens otherwise. MySQL has sequence ids, and leftovers are caught by them.
* **Reads cut messages anywhere.** Parser, stage and buffer must agree on the
  message that is half read.
* **The order of messages is the server's choice.** Row parsers dereference
  `__M_curr`.
* **Every operation must complete.** The loops end only by completing or by
  starting a read.
* **Assertions with effects.** The MySQL client has an `assert(false)` the
  server can reach and computes digests inside `assert()`.
* **Two events of one operation in flight** (oneshot's write and reader,
  hiredis polls), **or two operations on one connection** (libpq).
* **Lengths written apart from what they measure.** Every request is a buffer
  sized first and filled after, and the server trusts the lengths in it.

`PROJECT.json` lists the hazards with their lines and the property for each.

## Modules

| module | what it is |
|---|---|
| `PgProtocol` | message vocabulary, and the dispatch tables of the five operations: which type is accepted in which stage (`Arcs`), what a complete body does (`Effects`, `BodyStage`) |
| `PgSession` | the connection, the running operation, the stream and the server's end; `TypeOK`, `RowsMatchDescription`, `InSync`, `AnswersInOrder`, `LagAccount`, `EarlyConnectUnusable` |
| `PgAnswers` | what an answer says, message by message; `OwnAnswer`, and what it asks of the server |
| `PgServer` | external: the replies of a conforming server |
| `PgOneshot` | extends `PgSession` with `async_execute_oneshot`, whose write and reader are in flight together; `BehindUnseen`, `WrittenBeforeEnd` |
| `PgMixed` | `PgOneshot` with `PgAnswers`: what a oneshot execution reports |
| `PgSessionProofs` | TLAPS proofs about `PgSession`: types, rows, and the order of answers |
| `PgAnswerProofs` | the same facts, `BehindUnseen` and `WrittenBeforeEnd`, for `PgOneshot`; then TLAPS proofs about `PgAnswers` and `PgMixed`, and `EarlyConnectUnusable` |
| `MySession` | the MySQL connection: packet reader, connect, query |
| `MyServer` | external: the replies of a MySQL server; the properties |
| `MySessionProofs` | TLAPS proofs about `MySession` |
| `Frames` | abstract: what a reader of framed messages promises |
| `Fields` | the field parsers both protocols share: integers, strings, length-encoded integers |
| `FieldsProofs` | TLAPS: what a field takes of a piece, and concatenations of fields |
| `PgFraming` | `basic_parser` and the bodies of `msg/*`, over bytes; implements `Frames` |
| `PgFramingProofs` | TLAPS proofs about `PgFraming`, with the refinement of `Frames` |
| `MyFraming` | `feed` of `basic_packet`, the choice of a payload parser and the parsers of `packets/*`, over bytes; implements `Frames` |
| `MyFramingProofs` | TLAPS proofs about `MyFraming`, with the refinement of `Frames` |
| `Fifo` | abstract: what a connection promises for its requests |
| `RequestWire`, `PgRequests`, `MyRequests` | the bytes of every request, and a server that reads them by the protocol's layouts |
| `Requests` | both protocols; implements `Fifo` |
| `PqExec` | the libpq adapter over an external `PGconn` |
| `PqExecProofs` | TLAPS proofs about `PqExec` |
| `HiredisPoll` | the hiredis adapter: polls, cancellation, commands, destruction |
| `HiredisPollProofs` | TLAPS proofs about `HiredisPoll` |
| `MC*` | values of the constants for TLC; `MCMySession` and `MCMyWrap` also the assumptions `NoEndWraps` and `OneResult` that the theorems of `MySessionProofs` make |

`PgSession` is the bottom of the PostgreSQL side: `PgAnswers` says what an answer means to
its operations, `PgServer` gives them a server, `PgOneshot` is a fifth operation, and
`PgMixed` what an answer means to that one. Framing and request encoding are
about the bytes below the messages that `PgSession` exchanges, in the two
directions.

### PgSession and the code

The four operations have the same shape: a write, then the loop
`while (begin <= end) switch (parsers.index())` that peeks at a type byte
(case 0), hands the message to a body parser (the other cases), and reads when
it is out of input. `PgSession` models that shape once; what differs between
the operations is data, in `PgProtocol`, written from each operation's ladder
of `if (type == ...)` and its cases.

| in the model | in the code |
|---|---|
| `io` | which handler is due: "sending" (`ev_send*`), "reading" (`ev_read*`), "parsing" (a handler is on the stack), "idle" (no operation) |
| `expect` | `expect`, `stage`, `__M_curr_type`, index of `__M_state` |
| `parsers` | which alternative of the parser variant is engaged, named by its message type |
| `curr`, `result`, `err` | `__M_curr`, `result`/`__M_result`, `err` |
| `stream`, `have`, `frag` | what the server sent and the client has not consumed; the buffer `[__M_buf_begin, __M_buf_end)` is its first `have` messages and, with `frag`, a first piece of the next |
| `AsyncX` | the operation's constructor and first `operator()` |
| `SendDone`, `SendFail`, `ReadDone`, `ReadFail` | the `ev_send`/`ev_read` handlers |
| `Peek`, `PeekMalformed` | case 0 of the loop |
| `Dismissed` ... `AuthRefused` | the parser cases, after `ParseSuccess` |
| `NeedMore` | `perform_read`/`do_read` |
| `BodyMalformed` | a body its parser refuses |

Each turn of the parse loop is a step. This adds interleavings with the server
only, which touches nothing but the end of `stream` and `inbox`.

Abstractions. A message is its type and one number: authentication method,
error code, number of columns. A message is cut into at most two pieces; more
pieces only make the same parser wait again. `connect`'s `message_parser`
consumes the type byte where the others peek; the difference shows only after
a failure, when the connection is gone. The first write of `connect` reads
without parsing, which is what parsing an empty buffer does. After a body is
refused in mid-message, or the stream fails, the application drops the
connection; after any other error it may go on, since nothing in the interface
tells it not to.

Two history variables say how far behind a connection is and whether the application
could know. `missed` counts the operations whose reader ended before a `ReadyForQuery`,
whatever they reported. `told` is set when an operation *reports* an error
after which that is certain (`Tells`): the client's own, or the server's from anything but
execute and oneshot, which read on. They differ where an operation that reports success
left something: a connect that is early, and some oneshot executions.

### MySession and the code

`Header`/`HeaderRefused` are `feed` up to `on_sequence_id_complete` and the
first-byte decision of `on_payload_data` (`Guess`); `ColumnCount`,
`ColumnDefinition41`, `Resultset`, `Handshake`, `InitialErr` and `Final` are
its stages; `Paused` is the handlers' treatment of `PacketPaused`, which
insists that nothing follows in the buffer. `NDEBUG` is a variable that never
changes: what the build leaves of `assert()` decides two behaviours.
`conn = "lost"` stands for a connection whose next read would start inside a
packet (an operation that completes drops the piece it had); such a connection
is not followed further.

### PgOneshot and the code

Oneshot parses like execute, with one more stage in front, so its turns are
`PgSession`'s (`Turn`). What is different is that its reader is started before
its write, and both end in `complete`. `writer` is the write, `io` the reader.

| in the model | in the code |
|---|---|
| `writer = "unstarted"` | the first handler, in `do_parse`, before `async_combine_ng` starts the write |
| `DoRead` | `do_read`; the first time it returns to the first handler, which writes |
| `ReaderEnds` | the reader's `cntl().complete` |
| `WriterEnds` | the write's handler, which always completes |
| `late` | the reader ended first |
| `Returns` | the write's `complete`, when it is the last: its error code is reported, not the reader's |
| `unseen` | how often that was success although the reader had given up |

Of the two calls of `complete` only the last counts. That is what
`enable_reference_count` must mean for the code to work at all (the write's
would end every operation before its answer) and is an assumption, since chxnet
is not here. An operation that finds something to refuse in the buffer, left
there by an earlier one, completes before it starts its write and then starts
it all the same: nothing is outstanding, and what follows depends on chxnet. The
model drops such a connection; `WrittenBeforeEnd` says that it happens only on a
connection that was already behind. Connections whose stream broke, or whose reader stopped
in mid-message, are not followed either, also when the write ends last and the
application is not told.

### The framing modules and the code

The sessions see a message whole or in two pieces. `PgFraming` and `MyFraming`
justify that: they follow the loops of the parsers turn by turn over bytes, and
a read delivers any number of the bytes that are there. A body parser is a
function from the fields parsed so far to the size of the next one (`RowDescription`,
`OK_Packet`, ...; `End` after the last, `Bad` after a value the parser refuses), which is
what the ladders of `switch (stage)` in the code amount to; `Fields` takes a
field's share of a piece of input and says when it is complete, as the field
parsers do, which keep what they have across calls.

| in the model | in the code |
|---|---|
| `begin`, `end` | the read buffer, as a window on the stream |
| `state` | `__M_parser.index()`, `stage` of `basic_packet` |
| `p`, `got` | the parser in use and what it has taken |
| `limit` | `body_remain`, `stage_remain` |
| `reader` (MyFraming) | which stages the operation is in: greeting, verdict, answer, rows |
| `Type`, `Length`, `Body` | cases 0 to 2 of `basic_parser::operator()` |
| `PacketLength`, `SequenceId`, `Choose`, `Body`, `Drained` | stages of `feed`, `on_payload_data`, and the end of its loop |
| `Finish` | `make_success`, `make_pause` and the check that follows them |

`Frames` says what results: well-formed messages in order with their bytes as
sent, and the first ill-formed one refused. Its `ok` is given with each message
of an MC module, from the layout the protocol prescribes and the values this
client takes, not computed by the parsers. In `MyFraming` the server waits for the client
after a greeting, a verdict or the end of an answer, since the client insists that nothing
follows those in a read.

### The request modules and the code

`CreateStartup`, `CreateBind`, `HandshakeResponse` and the others are the
functions and first handlers that build requests: `Buffer(n, s)` is a zeroed
vector of the size computed first, with `s` written to its front, so that a size
too small cuts and one too big leaves zeros, and every length is the code's own
sum. A string is any sequence of non-zero bytes. `ServerBegins`, `ServerTakes`,
`ServerEnds` and `ServerReads` are a server that knows nothing but the
protocol's layouts: it takes a message by its length, and its fields one by one.
Each request also appends the messages it *means* to `asked`, and `Requests`
maps what is meant and not yet read to the queue of `Fifo`.

`Base` is the number of digits' values of an integer: 256 in the program. With 6,
lengths carry into the second and third digit for texts of tens of bytes, and the
longest MySQL query that fits three digits has 213 bytes and not sixteen million. Of the
capabilities of a handshake response the low byte is kept, and of the scramble
its length.

### PqExec and the code

| in the model | in the code |
|---|---|
| `AsyncExecParams` | `async_exec_params`: the socket, `PQsendQueryParams`, the first poll |
| `PollDone`, `PollFail` | `ev_poll`: `PQconsumeInput` and `PQflush`, or complete with the poll's error |
| `PollAgain` | `PQisBusy`: poll again |
| `Keep`, `Finish` | the loop over `PQgetResult`: keep the last result, complete on a null pointer |

`PollDone`'s `writable` is whether the socket takes the request: every poll asks
for `POLLOUT` as well as `POLLIN`. libpq is external: `ParseInput`, `IsBusy`,
`GetResult` and `Consume` are what version 14 and later do to the connection's
state in the functions this code calls. Operations may overlap on one
connection; nothing in the interface forbids it.

### HiredisPoll and the code

`polls[d]` is one direction of `connection`: `signal` (`__M_poll_read` or
`__M_poll_write` is bound), `cancelled`, and where the one-shot poll is: armed,
cancellation emitted, completed with its event or with an error. `Add`, `Del`
and `Cleanup` are the callbacks given to hiredis, `Handler` the completion of a poll,
`AsyncCommand` and `Token` the two ends of `async_command`, `Destroy` the
destructor. libhiredis is external: `HandleWrite` and `HandleRead` do what
`redisAsyncHandleWrite` and `redisAsyncHandleRead` do to the adapter: write and ask
for the next events, run callbacks, or end the connection on an error. The handlers do
nothing, and do not poll again, after an error other than a cancellation or an event without `POLLIN` or
`POLLOUT` in it; neither is modelled, on the assumption that a poll that was not cancelled
completes with its flag: Linux reports both for a TCP socket that failed or was closed.

## What the runs check

| run | instance | properties |
|---|---|---|
| `pg_session` | conforming server with all its answers, 3 operations, 1 row, 2 columns | `InSync`: after a connect that waited, and with no error reported but what execute keeps, nothing is left unread. `OwnAnswer`: an operation that starts in sync delivers whole result sets of its own answer and no half-read one, also when it fails, and unless it was cut short reports that answer's error or success. `EarlyConnectUnusable`: a connection reported open before `ReadyForQuery` never works |
| `pg_lag` | one answer of each shape, 5 operations | `AnswersInOrder`: an operation that ends on `ReadyForQuery` has consumed the answer of the request issued `missed` operations before it, and delivers no row of another. `LagAccount`: the answers in the stream and the requests without one are exactly as many as operations did not wait for. `EveryOperationEnds` |
| `pg_faulty` | a server that sends any sequence of up to 4 messages of 11 kinds per reply | `TypeOK`, `RowsMatchDescription` |
| `pg_oneshot` | connect, then 3 operations, oneshot with every answer of a conforming server, the others with one for each way they end | `OneshotOwnAnswer`: a oneshot execution that starts in sync reports its own answer, however the write's completion falls among the reads: always its result sets, and its error unless the write ends last, which loses it. `BehindUnseen`: with no error reported that tells of it, a connection is behind by exactly the oneshot executions that reported success after their reader gave up. `AnswersInOrder` and `EveryOperationEnds` for all five operations together. `WrittenBeforeEnd`: none ends before its request is written, unless the connection was behind. `WriterTypeOK`: who may be outstanding when |
| `my_session` | 5 operations, results of up to 2 rows and 2 columns, `CALL`, both builds, refused and failed logins | `QueryReportsOwnAnswer`, `EveryOperationEnds` |
| `my_wrap` | sequence ids modulo 3, results of up to 5 rows | `MyTypeOK`. `ReadSplitsDoNotMatter`: no query ends with an error of the client's own. `WholeOrLost`: a query loses its stream or takes its own answer to the last packet |
| `my_initial_err` | expected violation | `AssertionsHold`: `assert(false)` in `ev_read_stage_1` is reached by a server that greets with an ERR packet |
| `pg_framing` | 31 streams of up to five messages: every layout, and for each the ways its bytes can fail to add up; all cuts | `CutsDoNotMatter`: refinement of `Frames`, with its liveness. `OnMessageBoundary`: between messages the buffer begins at a message, within one it stays in it |
| `my_framing` | 30 streams: greeting, verdict and answers with every kind of length-encoded integer, well-formed and not; all cuts | `CutsDoNotMatter`, `OnPacketBoundary` |
| `requests` | login and 2 requests of either protocol, with texts of no and many bytes, none to two parameters, MySQL queries up to the longest that fits | `MessagesArrive`: refinement of `Fifo`. The server reads the messages meant, field by field, in order, and all of them |
| `pq_exec` | 4 queries, up to 3 at a time; a result, a COPY or a hang-up as answer; polls that fail, a server that dies | `OwnResult`: a query that ran alone delivers its own result, or libpq's notice of the lost connection. `AtRest`: when no operation runs, libpq is idle and nothing of an answer is left, so the next query is not refused. `ExecEnds`: every operation ends, except a COPY. `PqTypeOK`: handlers do not overlap and leave no result to be fetched |
| `hiredis_poll` | three commands; server death, destruction and late completions at any moment | `InterestKept`: hiredis never waits for an event nobody polls for. `QuietAfterCleanup`: no late completion reaches a connection that was cleaned up. `CommandsEnd`: an accepted command ends, unless the connection failed and is not destroyed |

In every session run the stream may fail at any read or write, and reads cut the
stream anywhere; in the PostgreSQL session runs the server may also die at any moment
and lose what was not received.

**What they show.** Without oneshot executions, and once connect has waited for
`ReadyForQuery`, a connection on which no operation has reported an error gives every
operation its own answer. After `simple_query` or `parse` reports
an error of the server the connection is *one answer behind for good*: the
next operation consumes the old `ReadyForQuery`, and from then on each reports
the result of the one before it. `missed` counts this, and `AnswersInOrder`
shows it is never worse: answers are never mixed. An application has to drop
a connection after an error of anything but execute. With trust authentication,
or a notice after the password, `connect` succeeds too early and leaves a
connection nothing works on.

What a oneshot execution reports is right as long as the completion of its write is
handled before its reader ends. In the other order (`late`) the reader's
`complete` does not count, and by the assumption above the write's reports success
with the result sets the reader gathered. Two things are lost that way. An error of the
server is (`OneshotOwnAnswer`). So is a refusal: for a statement that returns no
rows (`1`, `2`, `n`, `C`, `Z`) the reader gives up at `C`, since after `NoData` it accepts only
`EmptyQueryResponse` (oneshot.ipp:154-163), and the operation reports success with `C` and
`Z` unread. From then on the connection is silently one answer behind. `BehindUnseen` shows that
this is the only way: a connection that waited for its `ReadyForQuery` and reported no error that
tells of it is behind by one answer for each such execution, and in sync if
there was none.

Through libpq a query that runs alone gets its own result. Queries that overlap
share what `PQgetResult` returns: the later ones were refused by
`PQsendQueryParams`, which nobody notices, and end with success and another's
result or none. All of them end, because each poll waits for `POLLOUT` too and
so comes back although there is nothing to read. After a COPY command
`PQgetResult` returns a result for ever, and the handler never returns. When the
server gives a reason and hangs up, the reason is replaced by libpq's own result
for the lost connection.

The request run shows that the lengths agree with the contents for every kind of
request, and the database field with its capability. It ends at the longest
MySQL query that fits a packet: beyond, the code writes the length modulo 2^24.

The framing runs show that no cut of the stream changes what is parsed, and which
lengths, values and trailing bytes are refused; among them two a server may
send: the list of SASL mechanisms, whose second NUL is taken for trailing data, and an
empty packet. The hiredis run shows that interest is never lost to a
cancellation on its way, because polls are cancelled only by `cleanup` (every
other `delWrite` comes from inside a handler that has already given up its
signal), and that after an error the commands hiredis accepted stay unanswered
until the connection is destroyed.

**Bounds.** Three operations are the least in which one leaves something, one
is affected, and one shows the effect lasts; five let two of them fail. What an
operation does depends only on its stage and the head of the stream, so longer
answers repeat what one row already shows; two statements in a simple query
show sets are kept apart. With oneshot, four operations leave three after the
connect: one that falls behind, a oneshot execution, and one after it. Modulo 3 wraps the sequence id several times within
one answer, which modulo 256 would need hundreds of rows to do. Framing takes one or two messages of each layout, since the parsers are
reset after each one; two columns and two rows separate the ends of a field, a
row and a result. Two requests after a login show that one does not shift the
next; their lengths differ in every digit. Three libpq queries at a time let one be accepted and two be
refused, and the fourth comes after them. Three commands on a hiredis connection let one be written, one
wait and one be answered. Deadlock is not
checked: the system stops when the bound on operations is reached, the server
has sent its stream, or every command has ended.

**Fairness.** `WF_vars(Client)`: the event loop runs a handler that is ready
and its loop goes on. `WF_vars(ReadDone)`: io_uring completes a read when there
is data. `WF_vars(Reply)`: the server answers while it is up. `WF_vars(Eof)`: a
read on a closed stream with no data left fails. Writes, failures, the
application and the server's death are not fair, except that `SendDone` is part
of `Client`: a write completes. The framing modules have `WF_vars(Next)`: a
reader with input goes on and the server sends all of its stream. `HiredisPoll`
has weak fairness of each poll's completion, its handler, each nop and the
server's answers. `PgOneshot` adds weak fairness of its write to that of
`PgSession`; a failed write means a broken stream, whose reads fail too.
`PqExec` has it for each handler, each poll that waits for a socket that will be
writable again, each poll without a socket, which fails, and the server's answer;
`Requests` for the server, which goes on reading.

## What is proved

Eight modules hold proofs; everything in them is checked by `tlapm` to the last leaf.
Each theorem is about every value of the constants. What it assumes of them is a named
`ASSUME`, or a named hypothesis, and some run evaluates it for its server. A hypothesis is
one only where it is needed: `TypeOK` and its like hold for any server, conforming or
not; that requests and answers stay together needs a server that answers whole.

### The PostgreSQL session

`PgSessionProofs` is for every `MaxOps` and every `Replies` whose
answers are non-empty sequences of messages (`ReplyAssumption`), with bodies of any number:

* `TypeCorrect`: `Spec => []TypeOK`. `TypeOK` is inductive. Its conjuncts on
  `have` and `frag` are the ones that matter: the buffer is a prefix of the
  unconsumed stream, and a half-read message exists.
* `RowsAlwaysMatch`: `Spec => []RowsMatchDescription`. This is not inductive by
  itself. A `D` message is accepted because of the *stage*, while what makes it
  safe is `__M_curr`; the strengthening `RowsInv` says which stages imply a
  description: `WithDataWithDef` in simple_query, and `DataRow` in execute unless
  the row description itself is still being parsed (execute moves its stage
  before the body is complete, simple_query after).

`ArcsLemma`, `EffectsLemma`, `BodyStageLemma` and `EndingsLemma` state what the
tables of `PgProtocol` imply and carry the case analysis over operations.

The second part adds the hypothesis `WholeAnswers`, stated in `PgSession`: an answer has its
`ReadyForQuery` or its request for a password at the end, if at all, an error
has a code, and only the start-up phase asks for passwords. It says nothing of
rows, descriptions, notices or errors, nor of how many messages there are.
The runs that extend `PgServer` evaluate it. The server of
`pg_faulty` breaks it, and there TLC finds `InSync` violated.

* `AnswersAlwaysInOrder`: `Spec => []AnswersInOrder`.
* `AlwaysInSync`: `Spec => []InSync`. `InSync` speaks of what was reported (`told`) and
  `OrderInv` of what was missed; `HeardInv` ties them: where connect waited and nothing was told,
  nothing was missed.
* `LagAlwaysAccounted`: `Spec => []LagAccount`: on an open connection between two
  operations, the answers unread or owed are exactly as many as the operations that did
  not wait for theirs.

None of these is inductive: they speak of an idle connection, and what
makes them true is in the stream. The invariant is `OrderInv`, that is `OrderTo(ops)`:

* `Queued(l)`: the unread messages and the unanswered requests carry consecutive
  numbers, from `First`, the request whose answer the client reads next, to `l`;
  the number goes up after each `ReadyForQuery` and nowhere else (`Pending`), so
  counting those counts requests (`Tally`); and
  while the server is up an answer is cut short by nothing but a request for a password on a
  new connection (`Shape`). This holds until the connection is dropped.
* `Phases`: what goes with what outside the stream: `connect` runs on a new connection
  and nothing else does, a connection is dropped only after an operation gave up,
  and only execute keeps an error. `First` is `ops - missed` during an operation and one
  more between two.
* `Sources`: the rows and sets gathered so far come from request `First`.
* `InParser`: a parser at work is at work on the first message of the stream.

Each operation moves along this line by one message (`ParsedMessage`), stops
where it is (`GivesUp`: `missed` grows by one, `First` stays), or starts the next
request (`StartInOrder`); the server adds a whole answer at the end
(`ReplyInOrder`). So a connection is behind by whole answers.

The first half of `PgAnswerProofs` shows the same of `PgOneshot`, where a write and a reader are in flight
together: `MixedTypeCorrect`, `MixedRowsAlwaysMatch`, `MixedAnswersAlwaysInOrder`, and

* `WriterTypeCorrect`: `MixedSpec => []WriterTypeOK`.
* `AlwaysBehindUnseen`: `MixedSpec => []BehindUnseen`. `UnseenInv` adds that, where nothing was
  told, `missed` is `unseen`, and one more while a reader that gave up waits for its write (`GaveUp`).
* `AlwaysWrittenBeforeEnd`: `MixedSpec => WrittenBeforeEnd`, an action property.

Two things change. While the first handler has not written, the requests on their way end
one before the operation's own, so the invariant is `OrderTo(Asked)`. And when the
reader is done before the write the operation is still there but the connection rests:
`Rested(ops)`, the same formula that describes it between two operations. The invariant
`MixedOrder` says which of the two is the case; the lemmas of `PgSessionProofs` take the
number of the last request as a parameter and serve both. `WrittenBeforeEnd` follows because with
nothing missed there is nothing in the buffer the unwritten operation could end on
(`UnstartedBehind`).

### What an answer means

The second half of `PgAnswerProofs` relates what an operation reports to the answer of its own request. Two more
hypotheses, stated in `PgAnswers`, which every run that extends `PgServer` evaluates:
`OneError` (an answer holds one error at most) and `KeyBeforeReady` (the key data precedes
the first `ReadyForQuery`).

* `AlwaysOwnAnswer`: `Spec => []OwnAnswer`, with `WholeAnswers` and `OneError`.
* `OneshotAlwaysOwnAnswer`: `MixedSpec => []OneshotOwnAnswer`, with the same.
* `EarlyConnectAlwaysUnusable`: `Spec => []EarlyConnectUnusable`, with `WholeAnswers` and
  `KeyBeforeReady`.

`ErrorIs`, `SetIs` and `ResultIs` say what is reported by the places of messages in the
answer: the set at place `n` of the result holds the rows between the `n`-th `CommandComplete` and the
one before it. So they grow by one message at a time, and the invariant `Own` is: for some `k`, the
unread messages and the unanswered request are the answer without its first `k` messages
(`RestOf`), and set, results and error are what those `k` say (`Gathered`). An operation that ends anywhere leaves result and error as they were
gathered, so its sets are whole and of its own answer even if it is cut short; the half-read one
is in `__M_curr`. `Gathered` has a part
about stages, without which it is not inductive: before a description the operation
is in a stage that takes one, so a second one of the same command is refused.
Nothing is assumed of the order of descriptions, rows and command ends, because the
dispatch tables refuse any other.

For oneshot, `MixedOwn` adds what is left when the reader is done before the write, and that
an operation that is in sync has no answer while its request is not written.

`EarlyInv` is about the stream only: on a connection open too early no `ReadyForQuery` comes
before the key data (`Blocked`), and while the server is up the key data is still to come
(`HasKey`). No operation but connect takes it, so none gets as far as its own answer.

### MySQL

`MySessionProofs` is for every `MaxOps`, every width of the sequence id above one, both builds and
every `Replies` of which only one packet at a time is sent before the connection is open:

* `MyTypeCorrect`: `Spec => []MyTypeOK`: no more definitions are taken than were announced,
  and every row has as many columns. The invariant `MyInv` is `Typed`, `Columns` and
  `Connecting` (a connect has at most one message on its way).

For a server that gives one result (`OneResult`, which rules out `CALL`; the run
`my_wrap` evaluates it):

* `QueryTakesWholeAnswer`: `Spec => []WholeOrLost`: a query that returns either lost its
  stream or took its own answer to the last packet, with all definitions and rows.
* `ReadSplitsNeverMatter`: `Spec => []ReadSplitsDoNotMatter`.

The invariant `Served` follows the answer through the operation: the packets left carry
consecutive sequence ids from the one expected, modulo `SeqMod` (`Consecutive`), they are a
possible rest of a result in this stage (`Place`), and with what was taken they make up
the whole answer (`Whole`). It needs no bound on the length of a result: only the
successor of a sequence id is compared, never a number of packets.

For any server, with several results to a query (`CALL`) or with answers of any shape:

* `QueryAlwaysReportsOwnAnswer`: `Spec => []QueryReportsOwnAnswer`.

Its hypothesis `NoEndWraps`, which the run `my_session` evaluates, is the one thing the code does
not check. What a query leaves unread of its answer comes before the next query's
answer, and only its sequence id, which is not the 1 the client expects, gives it away. The id has
one byte: after a first result of 256 packets the next packet has the id 1 again, and the
next query takes it for its own answer. (With `SeqMod` set to 5 TLC
finds the violation in that run: one column and two rows make five packets.)
The proof found this: `Reporting` is not inductive without it. A conforming shape of the
answer is not needed, because the payload parsers refuse every other. `Reporting` says that
the next packet is `Alien`, and will be refused, or that the client is
`OnAnswer`: the unread packets are the answer without its first `j` (`LeftFrom`), what was
taken are those `j` (`TakenTo`), and an accepted header goes with the stage (`Fits`).

### libpq and hiredis

`PqExecProofs` is for every `MaxOps` and `MaxRunning` and any answers:

* `PqTypeCorrect`: `PqSpec => []PqTypeOK`; with it, that no two operations' handlers overlap.

For answers in which `ReadyForQuery` comes last and after a result (`ReadyLast`,
which the run `pq_exec` evaluates):

* `AlwaysAtRest`: `PqSpec => []AtRest`, from `Flow` (what can be on its way in each state
  of libpq: nothing is left unread while it is idle, and an unread answer ends with
  its `ReadyForQuery`) and `Waited` (every operation waits until it is idle).
* `AlwaysOwnResult`: `PqSpec => []OwnResult`, from `Own`: as long as a query runs alone,
  all that libpq holds and the server has sent is that query's.

`HiredisPollProofs` proves for every set of commands:

* `InterestAlwaysKept`: `Spec => []InterestKept`. The invariant it rests on,
  `OnlyCleanupCancels`, is the argument of the adapter: while hiredis is
  connected no poll is cancelled, so `add_read` and `add_write` never meet a poll
  that is on its way out; and once it is not, every poll still in flight
  carries its flag.
* `AlwaysQuietAfterCleanup`: `Spec => QuietAfterCleanup`, from the second half.

### PostgreSQL framing

`PgFramingProofs` is for messages of any number, length and content, and all ways to cut
them up. `StreamAssumption`, which the run `pg_framing` evaluates, says what a message is: a
well-formed one has the length it says and exactly the fields of its type, each ending
where the protocol says; an ill-formed one has a length that is not taken, or its
fields go wrong somewhere (`GoesWrong`): a value is refused, bytes follow the last
field, or a field is not there whole.

* `FramingIsInvariant`: `Spec => []FramingInv`.
* `AlwaysOnBoundary`: `Spec => []OnMessageBoundary`.
* `ImplementsFrames`: `Spec => F!Init /\ [][F!Next]_(F!vars)`, the safety part of
  `CutsDoNotMatter`: every step of the byte-level reader delivers the next message with its fields as
  sent, refuses one that is ill-formed, or changes nothing of either.

`FramingInv` is `Buffer` (the window on the stream), `Delivered` (what was delivered is
what was sent) and `Place`: where `begin` is, counted in whole messages, whole
fields and the bytes in `got`, and that `got` is a proper beginning of the field or of the
bytes in which the message goes wrong (`InField`). `Stops` names the field after
which a message ends or goes wrong; a parser never gets past it.

`FieldsProofs` has the lemmas. A piece that begins like a field gives the parser the field and
no more, or all of the piece; that is proved for each kind of field (`StringLen`, `LenIntLen`,
a number of bytes), for what the parser has already and for any rest of the
stream behind. The others are about concatenations: `EndOf(c, k)` is the length of the first
`k` of the sequences `c`, and any piece of their concatenation that begins there begins like the next.
Lengths of concatenations are computed by folds, and facts about folds need induction over the
sequence. The library's induction theorems take an operator as a parameter, which the provers
cannot instantiate, so `SetInduction` is proved here about *sets* of numbers, from the
well-foundedness of `<`; a property of `n` is then the set of numbers that have it.

### MySQL framing

`MyFramingProofs` proves the same three facts of `MyFraming`, again for packets of any number,
length and content and all ways to cut them up: `FramingIsInvariant`, `AlwaysOnBoundary`
(`Spec => []OnPacketBoundary`) and `ImplementsFrames`. Two things are harder here than for
PostgreSQL:

* A packet does not say its type. The reader guesses it from the first byte, from what the
  operation waits for and from the columns counted so far, and the server means a type by the
  packets it sent before. `Reader`, `Columns` and `Defined` are the server's side of
  that, functions of the stream alone; `Legal` asks of a packet that the
  guess made with *them* is its type. That the reader's `reader`, `count` and `defs` are the
  same at every packet is part of the invariant (`Delivered`), proved packet by packet
  with `ColumnsNext` and `DefinedNext`.
* The message of an error and the information of an OK packet have no length: they are what
  is left of the packet (`Rest`). `TakeRest` shows that the piece that ends the packet, and no
  other, completes such a field; a field of any other kind completes before.

`StreamAssumption`, which the run `my_framing` evaluates, asks `Legal` of a packet only if all
packets before it are well formed: an ill-formed one is the last the client reads, and what
follows need not make sense. Empty packets, and packets of no type that can be guessed, are
among the ill-formed ones.

`FramingInv` has the parts of the PostgreSQL one; `Place` has a case more, for a
payload of which nothing was read (`AtPayload`), because a reader that is out of
bytes there waits without having chosen a parser. How far the server has got (`Available`)
matters only in that it is part of the stream (`AvailableBound`): safety does not
depend on where the server waits.

### Only model-checked

* Liveness: `EveryOperationEnds`, `ExecEnds`, `CommandsEnd`, and that a framing reader goes on to
  the end (ENABLED and fairness are out of the prover's reach).
* The steps of `MessagesArrive`: a request's lengths are numbers written in radix `Base`, with
  powers of a variable, of which the provers know nothing, and division by them, of which
  they know little. The run has the lengths at which a byte carries.

## Not modelled

Result accessors (`result.hpp`, `last.hpp`, `result_set.hpp`, `cast.hpp`), error
codes and flag tables have no state of their own: iterators over a finished
result, conversions and constants. `pq/pipeline.hpp` is a stub.

Of the parts that are modelled:

* payloads and queries of 16 MB and more, and integers wider than an `int` in MySQL
  (undefined behaviour in the code);
* the scramble of an empty MySQL password, the capability bits above the low byte, and
  session tracking, which the client's capabilities never ask for;
* the request for write events in the constructor of the hiredis connection,
  which depends on chxnet, and polls that complete without the flag they wait for;
* in `do_handshake_response` the `assert` on the length of the scramble, which cannot fail
  because the greeting's parser has refused such a length (`MyFraming` has that), and the
  error of a failing digest library;
* what PostgreSQL connections do after the stream broke, or after a reader stopped in mid-message;
* a oneshot execution that ends before its write has been started: what the write does
  then is not followed.

## Plan

1. An abstract connection ("each request is answered by its answer, in order, or
   one behind") and the proof that `PgSession` implements it, from `OrderInv`.
