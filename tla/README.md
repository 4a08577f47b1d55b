# TLA+ models of lwpb

lwpb is a protocol buffers library in C: a streaming encoder and decoder that
work on caller-supplied memory, an RPC layer with exchangeable transports, and
a Python binding with command-line tools. This directory holds its
specifications, the TLC configurations that check them on small instances, and
TLAPS proofs. Paths below are relative to the repository.

Run TLC with `tlc -config X.cfg M` and the prover with `tlapm M.tla`.
`PROJECT.json` lists the runs, maps each definition to the lines it models,
and lists the hazards of the code.

## 1. Inventory

### Streaming encoder (`src/src/lwpb/core/encoder.c`, `buf.c`)

*State*: a stack of at most `LWPB_MAX_DEPTH` frames (buffer `base`/`pos`/`end`,
field and message descriptor), the depth, one flag `packed`.
*Operations*: init, start, finish, nested start/end, packed start/end,
add_field and the typed `add_*` on top of it.
*Interaction*: called by the application and by `socket_helper.c`; all calls
are synchronous. *Hard*: nested messages are built in the tail of the one
buffer, ten bytes behind their parent's position, and moved down when they are
closed; errors can be returned half-way through a write, and callers (tests
and examples among them) ignore them; the flag must agree with the stack.
*Correct when*: frames never overlap; no call touches bytes already written;
an end call always finds room for the key and length its start call reserved;
the finished bytes are a well-formed message.

### Decoder (`src/src/lwpb/core/decoder.c`)

*State*: the stack of frames, `packed`, and the locals of
`lwpb_decoder_decode`, of which `field_desc` outlives an iteration.
*Operations*: one call, which walks the data and calls three handlers.
*Hard*: two nested loops joined by `goto`; data that ends anywhere; unknown
fields; nesting decided by the input. *Correct when*: the handler calls are
those of the message, or of a prefix of it, unknown fields are skipped, frames
stay inside the data, and the call ends.

### Struct decoder (`src/src/lwpb/utils/struct_decoder.c`)

*State*: a depth and, per depth, the struct map in use, the base address, and
the last field with the index of its next item. *Operations*: three handlers
on the decoder. *Hard*: a handler call says which field it is, not which item
or where, so place and nesting are rebuilt from the order of the calls; items
of a repeated field may be separated by other fields; a nested struct's base
depends on the parent's index. *Correct when*: each value lands in its own
cells, and messages in an array of structs do not share one.

### Python binding (`src/python/encoder.c`, `decoder.c`, `primitives.c`, `lwpb/stream.py`) over the two-pass encoder (`core/encoder2.c`)

*State*: encoding, the recursion over the dict with its buffer pointers, the
flag `packed` and the pass; decoding, a stack of dicts, the one being filled
on top; a stream, the length of the record being read and an end-of-file flag.
*Operations*: encode, decode, write, read. *Hard*: pass 0 walks the dict
without a buffer and must find a size that suffices for pass 1, which leaves
ten bytes free before each message and run and later moves them down; a wrong
value may be met at any depth, in either pass; the decoder also calls "end" at the
end of a packed run, which is no dict; a stream may be cut anywhere by the
death of its writer. *Correct when*: the size suffices, the string is the
record's encoding, the dict is the message, records in = records out, an error
is an exception.

### RPC: `client.c`, `server.c`, `transport.c`, `direct.c`, `socket_*.c`

*State*: which client and server a transport has; for sockets the listen socket,
a table of connections (descriptor, receive buffer, position) and their number;
per client its socket, receive buffer, position and the last method called.
*Operations*: open, close, call, cancel, update; the handlers of client and
server. *Interaction*: the client calls the transport, which calls the server's
handler (direct), or sends a message that the server's `update` handles when it
has arrived (socket); `socket_helper.c` formats messages with the encoder and
parses them with the decoder. *Hard*: over the direct transport every handler is
application code, which may call again from inside a call, or register a client
or a server; two event loops and TCP between them; messages in pieces; peers
that leave or die; full buffers and slots; second calls; close and reopen.
*Correct when*: each request is handled once, each call answered once and with
its own response, the connection table agrees with the connections, and `select`
sees them all.

### Other parts

| part | state and operations | hard behaviour | correct when |
|---|---|---|---|
| Python descriptor (`python/descriptor.c`) | names resolved to message indexes | relative and nested names | each reference resolved |
| percent and flat codecs, single-number methods (`python/lwpb/codec.py`, ...) | none | formatting | not modelled |
| utilities (`utils/utils.c`, `core/misc.c`), tools, tests, generated tables | none of their own | - | not modelled |

## 2. Modules

| module | models | role |
|---|---|---|
| `WireFormat` | types.h, private.h, `add_field`'s choice of wire types | descriptors and the bytes of a field, shared by both sides |
| `MessageBuilder` | - | abstract: a stack of separate strings being built |
| `LwpbEncoder` | `encoder.c`, `buf.c` | one action per call; implements `MessageBuilder` |
| `LwpbEncoder_proofs`, `LwpbEncoder_refinement` | - | TLAPS proofs about `LwpbEncoder`; that it implements `MessageBuilder` |
| `Foundations` | - | facts the proofs need: least and greatest elements of sets of numbers, counting, functions defined by recursion |
| `MCLwpbEncoder` | - | a schema and lengths for TLC; the definition of well-formedness |
| `LwpbDecoder` | `decoder.c` | one action per loop turn and frame end |
| `MCLwpbDecoder` | - | all messages of a schema with every cut; what a reader expects |
| `PyDecoder` | `python/decoder.c` | what its handlers make of the decoder's calls |
| `StructDecoder` | `struct_decoder.c` | the same for C structs |
| `DecoderClients` | - | composes the decoder with each set of handlers |
| `LwpbDecoder_proofs` | - | TLAPS proofs about the decoder and its handlers |
| `PyEncoder` | `python/encoder.c`, `encoder2.c`, `primitives.c` | both passes over a dict |
| `PyRecord` | - | what encode promises of a record: its types, its encoding and the room it needs, by recursion on its parts; the inductive invariant of the two passes |
| `PyEncoder_proofs` | - | TLAPS proofs: both passes keep that invariant |
| `PyStream` | `stream.py`, `codec.py` | a writer, a pipe, a reader, over `PyEncoder` |
| `PyStream_proofs` | - | TLAPS proofs about what encode returns, and about streams |
| `MCPyStream` | - | a schema and records for TLC; liveness |
| `RpcCall` | - | abstract: what a transport promises of a client's first call |
| `DirectRpc` | `direct.c`, `transport.c`, `client.c`, `server.c` | calls nested in handlers; implements `RpcCall` |
| `DirectRpc_proofs` | - | TLAPS proofs about `DirectRpc` |
| `MCDirectRpc` | - | an instance for TLC |
| `SocketRpc` | `socket_server.c`, `socket_client.c`, `socket_helper.c` | processes, connections and cells on the wire; implements `RpcCall` |
| `SocketRpc_proofs` | - | TLAPS proofs about `SocketRpc`, and that it implements `RpcCall` |
| `MCSocketRpc` | - | instances for TLC |

**Bytes as cells.** A byte is represented by what it is a byte of (`<<"key", f,
wt, i>>`, `<<"len", n, i>>`, `<<"val", f, n, i>>`), which is all that parsing
and the order of writes can tell apart. The number of bytes of a key, length or
value is kept (`KeyLen`, `VarintLen`, `ValueLens`), since the buffer arithmetic
depends on it. `VarintLen` counts the numbers in `VarintSteps` (2^7, 2^14, 2^21,
2^28 in the code, one small number in the runs) that a length has reached. Bits
are not modelled.

**`LwpbEncoder`.** `mem` is the caller's memory; `stack`, `depth` and `packed`
are the fields of `struct lwpb_encoder`; popped frames keep their contents as in
C. `NestedStart`, `PackedRepeatedStart`, `NestedEnd`, `PackedRepeatedEnd`,
`AddField`, `Start` and `Init` are the functions of those names, `Finished` is
what `lwpb_encoder_finish` tells the caller, and `AddScalarOutsideRun` is a
typed add of a packed field outside its run, which reads a union member nobody
set. Two ends are explicit: `aborted` (a failed `LWPB_ASSERT`) and `undefined`
(a NULL or uninitialised pointer is used). `damage` is a history variable:
`"bytes"` after an ignored END_OF_BUF of a write or a message opened inside a
packed run, `"frames"` after an ignored END_OF_BUF of a start call, which leaves
a pushed frame with a stale buffer.

**`LwpbDecoder`.** `DecodeField` is a turn of the inner loop, with its early
returns and gotos; `EndFrame` is what follows that loop. `events` is the
sequence of handler calls. `garbled` ends runs in which bytes are read for what
they are not. `Varint` looks at the byte before it looks at the end, as the code
does, and `field_desc` is assigned only by a successful lookup.

**`DecoderClients`.** The decoder waits for each handler it calls: `Decode` is
a step of `LwpbDecoder` when all of `events` has been handled, `Python` and
`Struct` are one handler call each. In `PyDecoder`, `heap` holds the dicts and
`context` is `context->stack`; `PyField` is `field_handler` (a non-repeated
message field that comes twice is merged into the dict it has), `PyEnd` is
`msg_end_handler`. In `StructDecoder`, `struct` is the memory the application
gave, `sframes` and `sdepth` are `stack` and `depth`. `Unpacked` is the copy of a
value: a text with the byte behind it, the last byte copied becoming the null
byte; bytes as they are; both cut off at the length of an item. A C expression
without a defined result gives the outcome `undefined`: a value outside of the
struct, a message or a packed run without a map. Where it may as well go
unnoticed, the outcome is `undefined` or `fine`: a field not in the map
(`find_map_field` returns nothing), and `CopiesBeyond`, the byte copied from behind
the data when a text shorter than its item ends the data. The code counts depth
from -1, the model from 0.

**`PyEncoder`.** `frames` is the C stack of `pyobject_encode`, a frame its arguments
and locals; `pass` 0 has `NULL` for every pointer, and `Plus` is the code's "if
(buf) buf += n". `AddedLen` and `Store` are `lwpb_encoder2_add_field` and its
length: the same function serves both passes. `StartNested`/`EndNested`,
`StartField`/`EndField` are both sides of a nested message and of a field,
`Scalar` the conversion and write of a value. An error is the `size_t`
`SIZE_MAX`, kept as -1 so that sums wrap; a write behind the buffer ends as
`overflow`, moving `SIZE_MAX` bytes as `undefined`.

**`PyStream`.** The writer's file object buffers: any part of what was written
may reach the pipe with a write, all of it does with `CloseStream`, none when the
writer dies (`WriterDies`, at any step). A read returns fewer bytes than asked for
only at the end. `Decoded` says what decode may make of a record that was cut
short.

**`DirectRpc`.** Activations of `transport_call` are numbered; `at[n]` is the
handler that runs in activation n, `ret`, `req`, `res` are its locals. Only the
innermost active call proceeds, but at each handler the application may
register, set handlers, or call: that is how calls nest. `Out` is the code from
the label `out` on. `content` says whose message is in a buffer: two calls that
shared one would see each other's. `ImplementsCall` maps how far a call has got
to the phases of `RpcCall`.

**`SocketRpc`.** `OpenServer` is the server's open, which may fail after it has
made its socket: in bind (`listen` is then `unbound`) or in listen (`closed`).
As in the code, `socket` is not -1 then, so a second open does nothing. `Select`
is `update` up to `select`; `HandleNewConnection` and `HandleConnection` are
what it does for each readable descriptor, as steps of their own because clients
run meanwhile. `Open`, `Call`, `Update` and `Close` are the client's functions.
`link`, `pending`, `toServer` and `toClient` are TCP: in order, without loss
while both ends are open, delivered in any pieces. `calls`, `handled`, `answers`
and `done` are history. `closed` is a socket after `close`, which compares it
with -1 instead of assigning it.

## 3. Runs

| run | question | instance and why it is enough |
|---|---|---|
| `encoder_message` | Is what finish reports a message, and does each call do what `MessageBuilder` does? | 13 bytes, reserve 4, depth 3, a caller that gives up at the first error: room for a nested message with values, a run, a child in a child, lengths on both sides of a varint's growth, and buffers full at every byte (`Start` takes every length) |
| `encoder_errors` | What survives any sequence of calls whose errors are ignored? | 5 bytes, reserve 2, depth 3, two starts on one encoder: stale frames and flags of an earlier message, three nested frames exactly filling the buffer |
| `decoder` | Are the handler calls those of the message, and the dict and the struct made of them? | every message of up to two fields, runs and messages inside them, up to five levels of nesting against a `MaxDepth` of 3, unknown fields, each message cut at every byte, each with the debug, the Python and the struct handlers; struct maps with arrays of numbers and of structs in structs, texts and bytes shorter and longer than their cells, also as the last byte of the data, and a field that comes again behind another one |
| `decoder_unknown`, `decoder_nested`, `decoder_truncated` | violations, section 4 | the same instance |
| `socket` | Do slots, counts and select agree; is the first call handled and answered once, and answered? | three clients for two slots, one of which calls twice; messages in one or two pieces; buffers of one message and a half, so that they fill up; closing, dying and refusing at every point; a server that opens late, or fails to |
| `socket_done`, `socket_repeat` | violations, section 4 | one client, two calls |
| `direct` | Who owns the buffers, what is the caller told, do nested calls mix? | three calls, so that they nest three deep or follow one another inside a handler; buffers for two, so that the allocator fails for the third at either allocation; everything registered at any time, or never |
| `python` | Does the size suffice, is the string the encoding, does the reader get it? | a schema with a run in a message and a message in a message, lists for fields that are not repeated, empty lists, wrong values at each level and in a field the message does not have; lengths on both sides of a varint's growth (8 here, 128 in the code), also when they grow by a nested length; batches of one large record or two small ones, a death at each point |
| `python_error` | violation, section 4 | the same instance |

What the properties say beyond types:

- `FramesNested`, `WritesOnlyAppend`, `EndAlwaysFits`, `PackedIsTop`: the
  reserve, the move and the flag work for every sequence of calls, up to
  the point where an error was ignored that leaves nothing to promise.
- `FinishedIsMessage`, `ImplementsBuilder`: all of that adds up to messages.
- `DeliversMessage`, `DeliversPrefix`, decoder `FramesNested`, `Terminates`:
  a reference reading of the tree of fields is compared with the handler
  calls.
- `ContextBalanced`, `PyReturnsMessage`: the target of each value follows from
  the calls before it, packed runs and interleaved fields included.
- `StructIsMessage`: the same for structs, for messages without packed runs whose
  repeated items come one after another and fit the map. Such a message ends no
  process, unless its data ends with a text shorter than its item.
- `SizeSuffices`, `EncodesRecord`: the two passes agree on every length,
  and the bytes moved about in the buffer end up as the encoding, compared
  with a recursive definition that has no buffer.
- `ReadsWritten`, `ReadsAll`, `ReaderEnds`: records survive the pipe; only the
  last one may be cut short, and only by the writer's death. A cut record may
  still be delivered as a whole one with fewer fields: the stream has no check.
- `BuffersOwned`, `CallerTold`, `CallReturns`: each path out of
  `transport_call`, taken at any depth of nesting, frees what it
  allocated and tells the caller one outcome, the right one.
- `SlotFreed`: a connection whose client has gone gives its slot back.
- `SlotsAreConnections`, `SelectSeesAll`: the table of connections. `select`
  is given the descriptor of the last slot as the highest; that is right because
  descriptors and slots are both given out lowest first, as long as nothing else
  in the process opens or closes descriptors (an assumption of the model).
- `ImplementsCall`, `CallAnswered`: calls, up to the second one of a
  connection, after which the code promises nothing (section 4).

**Fairness.** The decoder and its handlers run in their caller's thread, hence
`WF(CNext)`. In `DirectRpc` handlers return, `WF(Returns)`; nobody has to call or
register. In `PyStream` both processes run, `WF(Writer)` and `WF(Reader)`;
`WriterDies` is not fair. In
`SocketRpc` both updates are weakly fair, since both are documented to "be
called periodically" (`socket_server.c:426`, `socket_client.c:328`). Nobody
has to open, call or close. Safety properties need no fairness.

**Deadlock.** Every configuration sets `CHECK_DEADLOCK FALSE`: a caller may
stop calling, a process may have aborted, a decoding ends.

## 4. Where code and documentation disagree

- *Unknown fields* (`decoder_unknown`): `field_desc` survives the previous
  iteration, so an unknown field behind a known one is delivered as that field.
- *Message descriptor* (`decoder_nested`): for a message field the field
  handler gets the root message's descriptor at every depth.
- *Short data* (`decoder_truncated`): `lwpb_decode_varint` reads the byte
  behind the data before it compares positions.
- *Done handler* (`socket_done`): the socket client never calls it after a
  response; the direct transport does.
- *Repeated handling* (`socket_repeat`): a handled request stays in the
  receive buffer, so later data makes the server handle it again, and the
  second request is never seen.

- *Error of a nested message* (`python_error`): `nestedlen < 0` compares a
  `size_t`, so the -1 of a nested `pyobject_encode` is used as a length, and
  packed mode stays set. A wrong value in a nested message may end the process
  instead of raising the exception that was set.

The passing Python properties about encoding are about records whose values have the
right types. The passing decoder properties exclude inputs in which an unknown
field follows a known one (`in.late`); `StructIsMessage` also those that the struct
map cannot hold. The passing socket properties speak of first calls.

Two things the struct decoder does are in the model, and no run is about them.
`sdecoder_msg_start_handler` takes the start of a packed run for that of a
message in the last field, which has no map (`struct_decoder.c:134`): without a
last field, or with one that is no message, the map's address is a null pointer's
field or a length; with a message of another type the assertion fails, and with
one of the same type the run would be laid out as an item of it. And
of a text that ends the data and is shorter than its item, one byte behind
the data is copied, before the null byte replaces it
(`struct_decoder.c:103-105`); the struct is the right one if that byte can be read.

## 5. Proofs

Theorems are about every value of the constants that the named assumptions
allow; TLC evaluates the assumptions on its instances, and has checked each
inductive invariant below on a small instance as well.

### Streaming encoder

`LwpbEncoder_proofs` and `LwpbEncoder_refinement`, for every schema, buffer
length, reserve, depth, and caller:

| theorem | states |
|---|---|
| `TypeCorrect` | `[]TypeOK`: buffers lie inside the caller's memory, positions between base and end |
| `NestingHolds` | `[]FramesNested` |
| `EndsFit` | `EndAlwaysFits`: an end call never returns END_OF_BUF |
| `WritesAppend` | `WritesOnlyAppend` |
| `PackedTop` | `[]PackedIsTop` |
| `EncoderImplementsBuilder` | `ImplementsBuilder`: every behaviour is one of `MessageBuilder` |

*Assumptions*: `FieldAssumption` (descriptors are well formed: only scalar
fields are packed), `LengthAssumption` (a key takes at least a byte, the steps
of varints are finitely many), and `EncoderAssumption`, whose substance is that
a key and a length fit the reserve (`MSG_RESERVE_BYTES` is 10; a key and a
32-bit length take at most 5 each).

*Argument*: the inductive invariant is `FramesInv == TypeOK /\ PushedFields /\
FramesNested`. `FramesNested` alone is not inductive: a pop writes the popped
frame's field into its parent, so that field must be one a message or a run was
pushed for (`PushedFields`), and its bytes must be inside memory (`TypeOK`).
`WriteFieldAppends` is the lemma about one write: it moves one position by what
it wrote and changes no other byte. `AddFieldToStep` lifts it to add_field,
`NestedAfterAppend` shows that advancing the top frame keeps the nesting, and
`PushStep`, `PopStep`, `AddFieldStep` and `StartStep` are the cases of `Next`.
The two action properties follow from the invariant; `EndsFit` adds that a
child's bytes plus `Reserve` fit what its parent has left, and that key and
length fit `Reserve`.

`PackedIsTop` needs to know what each frame was pushed for (`FramesPushed`:
only the innermost can be a run, and a frame's field says which it is), hence
`PackedInv == FramesInv /\ FramesPushed /\ PackedIsTop`. The refinement maps
the frames to the strings their bytes are (`OpenStrings`). Its lemmas say what one
write leaves in memory (`WriteAt`, `WrittenCells`), that strings in frames below
are not touched by it (`BytesSame`, from `FramesNested`), and that after a pop the
moved bytes are the child's string behind its key and length. `StepMaps` puts the
cases together: each call is a step of `MessageBuilder` or a stutter.

### Decoder, Python decoder and struct decoder

`LwpbDecoder_proofs`, for every schema, every input (cut short, or of a newer
schema), depth, and set of handlers:

| theorem | states |
|---|---|
| `TypeCorrect` | `[]TypeOK` of the decoder with its handlers |
| `ChildrenInParents` | `[]FramesNested`: a frame lies inside its parent's unread data |
| `ContextIsBalanced` | `[]ContextBalanced` |
| `DecoderInvariant`, `ClientsInvariant` | the inductive invariants they follow from |

*Assumptions*: those on descriptors, `DecoderAssumption`,
`InputAssumption` (an input is a string of at most `BufLen` cells, each a byte of
some key, length or value), `MapAssumption` (a struct map is about fields of its
message, and the map of a message field is a map), `BytesAssumption` (the fields of
type bytes are among the strings) and `ClientsAssumption`.

*Argument*: `DecoderInv` adds to `FramesNested` the types and that packed mode
is on only in a run of `field_desc`, which is why a value read in a run advances
inside the run's frame. A step either reads on in the innermost frame
(`Advance`), opens one (`Descend`, `PushStep`), or closes it (`Ascend`,
`EndFrameStep`). `Told` says what a step tells the handlers: one call, or the
two calls "field" and "start" of a message, each at the depth that fits it. The
handlers run behind the decoder, so `ContextBalanced` is not inductive: it
speaks only of the moments between calls. `PendingInv` says by how much their
stacks differ from the decoder's while one or two calls wait (`Balanced(ctx,
st)`): a start will add a frame, an end of a message will take off a dict, an
end of a packed run will not, which is the case the code tells apart by
`decoder->packed` alone. `DictsInv` (a message field that is not repeated refers
to a dict that exists) and `StructInv` (the last field of a frame is in its map)
are what the handlers need to run at all.

### Python encoder

`PyEncoder_proofs` and `PyStream_proofs`, for every schema, every record, with
values of right or wrong types, and all lengths:

| theorem | states |
|---|---|
| `StreamTypes` | `[]TypeOK`: encode returns sequences of bytes, and no pointer of either pass leaves the buffer |
| `BufferSuffices` | `[]SizeSuffices`: what pass 0 counts is enough for pass 1 |
| `EncodingRight` | `[]EncodesRecord`: the string is the encoding of the record |

*Assumptions*: those on descriptors, with `OrderAssumption`; `ObjectAssumption`
(no dict is part of itself, so `Height` decreases from a record to its parts: on
a dict that is, `pyobject_encode` does not return either); `ReserveAssumption`
(a key and a length fit `MSG_RESERVE_BYTES`: 5 bytes each in the code, which
holds for lengths below 2^35); `BatchAssumption` (records are such objects).

*Argument*: `WellTyped`, `Encoded` and `Room` are recursive functions on
objects. `TypedDef`, `EncodedDef` and `RoomDef` are their defining equations,
which hold because each unfolds only at objects of less `Height`; that is all
the recursion the proofs need, because the program unfolds it too, one call at a
time. The inductive invariant `EncoderInv` of `PyRecord` has four parts, one on
top of the other:

- `WalkInv`: which dict, and which message, each call of `pyobject_encode` is
  for, given the field and the value its caller waits at.
- `TypesInv`: how far the types have been looked at. Pass 0 does not look inside
  nested messages whose error it takes for a length; so pass 1 begins with the
  outermost level right, and returns a length only if every level is.
- `SizeInv`, for records of the right types: pass 0 counts exactly the `Room` of
  what a call has left behind; pass 1 takes at most that, from where the call
  started. The two differ because the room contains the bytes left free for
  lengths; that the lengths of pass 1, which are smaller, do not take more is
  monotonicity of `AddedLen` (`BoxedGrows`).
- `BytesInv`: what pass 1 has written is the encoding of the fields a call has
  left behind, and behind it that of the values of its field. A later write
  keeps these because it begins behind them (`BelowKept`, from `Nested`); a
  nested message or run is moved down over the free bytes without loss
  (`EnclosedPlaced`), since key and length fit them.

`SizeSuffices` and `EncodesRecord` are what is left of this at the end of pass
1. `EncoderInitInv`, `EncoderStart` and `EncoderNext` say that `EncoderInv`
holds at first, after a call of encode, and after each step of it, with one
lemma per action and part below them.

### Streams

`PyStream_proofs`: `RecordsArrive` proves `[]ReadsWritten` for any schema, any
records, and any part of the written bytes reaching the pipe. The invariant is
`RunInv`: `EncoderInv`, which gives that a written string is a sequence of
bytes, and `StreamInv`.

*Argument*: `StreamInv` says that the bytes in the pipe and the file's buffer,
with the body the writer has not written yet (`ToFollow`), are the lengths and
bytes of the records that have not been read, ending at increasing positions
`cut` (`Aligned`); between the two reads of a record its length is missing. The
alternative is `Ended`: a read got less than it asked for, which takes the
writer's death, and after which the pipe is empty for good. `Dropped` is the
lemma about a read, `FileWriteFacts` about a write.

### Direct transport

`DirectRpc_proofs`, for any number of calls and any set of buffers:

| theorem | states |
|---|---|
| `TypeCorrect` | `[]TypeOK` |
| `BuffersAreOwned` | `[]BuffersOwned`: no buffer leaks, is freed twice, or is shared |
| `CallersAreTold` | `[]CallerTold` |
| `DirectImplementsCall` | `ImplementsCall`: every behaviour is one of `RpcCall` |

*Assumption*: `DirectAssumption` (the null pointer is no buffer).

*Argument*: the inductive invariant is `Inv == TypeOK /\ BuffersOwned /\ \A n
\in Call : CallState(n) /\ HasBuffers(n)`. `CallState` says what has happened in
a call by the handler it is in, in particular that while the server or the
response handler runs, the request buffer still holds the call's own request.
That survives the calls nested in that handler only because no two active calls
share a buffer, which is what `BuffersOwned` contributes. `BuffersOut`,
`BuffersTaken` and `BuffersKept` are the three things a step can do to the
buffers, `OthersKept` says a step leaves the calls alone that it is not about,
and there is one lemma per action above them. `CallerTold` follows from
`CallState`; for the refinement, `PhaseIs` computes the phase from it, and
`PhasesStep` shows that a step changes the phase of at most one call, to the
next.

### Socket transport

`SocketRpc_proofs`, for any number of clients, slots and calls, and messages and
buffers of any size:

| theorem | states |
|---|---|
| `TypeCorrect` | `[]TypeOK` |
| `OneSlotEach` | `[]SlotsAreConnections` |
| `SelectIsTold` | `[]SelectSeesAll` |
| `ServerInvariant` | the inductive invariant of the three |
| `SocketImplementsCall` | `ImplementsCall`: every behaviour is one of `RpcCall` for each client's first call |

*Assumption*: `SocketAssumption` (there is a slot and room in the backlog, a
message is not empty and fits the receive buffer).

*Argument*: Besides types, `ServerInv` has three parts. `CellsInv`: what is on a
connection or in a buffer are cells of that client's own calls. `FdIsSlot`: the
descriptor of a slot is its number, because both are given out lowest first;
`Foundations` gives the least free one and the greatest in use, of which the
code says that it is the highest descriptor. `SlotsInv`: accept queue, links,
slots and `num_conns` agree, through the steps in which one of them has been
changed and the next not yet. For the refinement, `CallInv` says where the cells
of a client's only call can be: on the way or in its slot and not handled
(`Requested`, `Arrived`), or handled, and the response on the way or in the
client's buffer (`Responded`), or refused (`Refused`). The bytes left over from
a first request, which make the server repeat itself (section 4), are admitted
only from the second call on. `PhasesStep` then shows that a step changes the
phase of at most one client, as `RpcCall` allows.

### Only model-checked

- `FinishedIsMessage`, `DeliversMessage`, `DeliversPrefix`, `PyReturnsMessage`,
  `StructIsMessage`: they compare with recursive operators over the tree of a
  message (a parser, a reader), which the prover cannot reason about. As
  recursive functions they could be unfolded as `Encoded` is; but a parser and a
  reader run over the whole tree at once, while the decoder has read some prefix
  of it, so an invariant needs induction over that tree, which the prover has no
  means to instantiate.
- `Terminates`, `CallAnswered`, `SlotFreed`, `CallReturns`, `ReaderEnds`,
  `ReadsAll`: liveness under fairness.

## 6. Not modelled

- Encoder and decoder: the bits of numbers (zig-zag, truncation to 32 bits),
  arbitrary bytes as input (data is what some writer produced, cut anywhere).
- Struct decoder: an application's own handlers behind it, maps whose item
  lengths do not fit the fields' types (an assertion).
- Python: 64-bit signed integers (`primitives.c:105` assigns only half of the
  value), reference counts, `encode_varint` and the other single-number methods
  beyond what streams use, reading a file that still grows, streams of records
  deeper than `LWPB_MAX_DEPTH`: `Decoded` takes it that a whole record is
  decoded, where the decoder's assertion would end such a reader.
- Sockets: failing allocations, methods the server does not know, the result
  of its handler, loss of data in a connection reset.
- `python/descriptor.c`: a constructor that fills tables once from a decoded
  definition; its result is the schema the models take as constants.
- Never: the percent and flat codecs, argument parsing and I/O of the tools,
  generated tables, byte-wise copies of C library functions (`utils.c`, `misc.c`).

## 7. Plan

Done: the streaming encoder, shown to implement its abstract builder; the
decoder with the Python and the struct decoder on it; the Python encoder
over the two-pass encoder; streams; the sockets and the direct transport, both
shown to implement `RpcCall`. Each safety property that the runs check is a
theorem, but for the five that compare with a parser or reader (section 5).
Left, in this order:

1. `Terminates` through a variant: each turn of the decoder's loops takes a byte
   or closes a frame.
2. Numbers: varint, zig-zag and their widths as recursive functions against
   their definitions.
3. Resolution of relative and nested names in `python/descriptor.c`.
