----------------------------- MODULE DirectRpc -----------------------------
(***************************************************************************)
(* RPC inside one process: the direct transport (direct.c) behind the      *)
(* transport interface (transport.c), with the client and the server it    *)
(* connects (client.c, server.c).                                          *)
(*                                                                         *)
(* A call runs from handler to handler.  While a handler runs, application *)
(* code has control: it may register a client or a server, set handlers,   *)
(* or call again, so that a call is active inside another one.  Calls are  *)
(* numbered as they are made; only the last one that is active proceeds.   *)
(*                                                                         *)
(* LWPB_FAIL ends the process as "aborted", a call through a null pointer  *)
(* as "undefined".  cancel is not modelled as an action: it does nothing.  *)
(***************************************************************************)
EXTENDS Integers, Sequences

CONSTANTS
    MaxCalls,     \* bound: calls the application makes
    Buffer,       \* the message buffers of the allocator
    NoBuffer      \* the null pointer

ASSUME DirectAssumption == MaxCalls \in Nat /\ NoBuffer \notin Buffer

VARIABLES
    status,       \* the process
    client,       \* direct->client is not NULL
    handlers,     \* the client's three handlers are set
    server,       \* direct->server is not NULL
    serving,      \* the server's call_handler is set
    live,         \* the buffers that are allocated
    content,      \* content[b]: the call whose message is in buffer b, or 0
    (* each activation of transport_call *)
    at,           \* the handler that runs, or "none" before, "returned" after
    ret,          \* ret
    req,          \* req_buf
    res,          \* res_buf
    (* history *)
    handled,      \* handled[n]: the requests the server got for call n
    answers,      \* answers[n]: the responses the client got for call n
    done          \* done[n]: what the done handler was called with

application == <<client, handlers, server, serving>>
activation  == <<at, ret, req, res>>
history     == <<handled, answers, done>>
vars == <<status, application, live, content, activation, history>>

Call == 1..MaxCalls
Handler == {"request", "serve", "response", "done"}

Init ==
    /\ status = "running"
    /\ client = FALSE /\ handlers = FALSE
    /\ server = FALSE /\ serving = FALSE
    /\ live = {}
    /\ content = [b \in Buffer |-> 0]
    /\ at = [n \in Call |-> "none"]
    /\ ret = [n \in Call |-> "ok"]
    /\ req = [n \in Call |-> NoBuffer]
    /\ res = [n \in Call |-> NoBuffer]
    /\ handled = [n \in Call |-> << >>]
    /\ answers = [n \in Call |-> << >>]
    /\ done = [n \in Call |-> << >>]

-----------------------------------------------------------------------------
(* Between two steps the application has control, in no handler or in that *)
(* of the innermost activation.                                            *)

Active(n) == at[n] \in Handler
Innermost(n) == Active(n) /\ \A m \in Call : m > n => ~Active(m)

Fails(how) == status' = how /\ UNCHANGED <<application, live, content, activation, history>>

\* lwpb_client_init: "Only one client can be registered".
ClientInit ==
    /\ status = "running"
    /\ \/ client /\ Fails("aborted")
       \/ /\ ~client
          /\ client' = TRUE /\ handlers' = FALSE
          /\ UNCHANGED <<status, server, serving, live, content, activation, history>>

ClientHandler ==
    /\ status = "running" /\ client
    /\ handlers' = TRUE
    /\ UNCHANGED <<status, client, server, serving, live, content, activation, history>>

\* lwpb_server_init: "Only one server can be registered".
ServerInit ==
    /\ status = "running"
    /\ \/ server /\ Fails("aborted")
       \/ /\ ~server
          /\ server' = TRUE /\ serving' = FALSE
          /\ UNCHANGED <<status, client, handlers, live, content, activation, history>>

ServerHandler ==
    /\ status = "running" /\ server
    /\ serving' = TRUE
    /\ UNCHANGED <<status, client, handlers, server, live, content, activation, history>>

-----------------------------------------------------------------------------
(* transport_call.                                                         *)

\* Mutant: the same buffers serve every activation.
AllocAny(used) == Buffer \cup {NoBuffer}

\* lwpb_transport_alloc_buf, when the buffers of the set used are taken.
AllocBuf(used) == (Buffer \ used) \cup {NoBuffer}

\* The activation is over, and its variables with it.
Return(n, r) ==
    /\ at' = [at EXCEPT ![n] = "returned"]
    /\ ret' = [ret EXCEPT ![n] = r]
    /\ req' = [req EXCEPT ![n] = NoBuffer]
    /\ res' = [res EXCEPT ![n] = NoBuffer]

\* Mutant: the response buffer is not freed.
OutLeaks(n, r, p, q) ==
    /\ Return(n, r)
    /\ live' = (live \cup {q}) \ {NoBuffer, p}
    /\ content' = [b \in Buffer |-> IF b \in {p, q} THEN 0 ELSE content[b]]

\* From the label out on: what is in req_buf and res_buf is freed, ret is
\* returned.
Out(n, r, p, q) ==
    /\ Return(n, r)
    /\ live' = live \ {p, q}
    /\ content' = [b \in Buffer |-> IF b \in {p, q} THEN 0 ELSE content[b]]

NextCall(n) == at[n] = "none" /\ \A m \in Call : m < n => at[m] # "none"

\* Mutant: the second allocation is not checked.
FirstMissing(p, q) == p = NoBuffer

Missing(p, q) == NoBuffer \in {p, q}

\* lwpb_client_call, up to the request handler.
ClientCall(n) ==
    /\ status = "running" /\ client /\ NextCall(n)
    /\ \/ ~handlers /\ Fails("aborted")          \* "Request handler missing"
       \/ /\ handlers
          /\ \E p \in AllocBuf(live) :
             \E q \in IF p = NoBuffer THEN {NoBuffer} ELSE AllocBuf(live \cup {p}) :
                \/ Missing(p, q) /\ Out(n, "mem", p, q)
                \/ /\ ~Missing(p, q)
                   /\ at' = [at EXCEPT ![n] = "request"]
                   /\ req' = [req EXCEPT ![n] = p]
                   /\ res' = [res EXCEPT ![n] = q]
                   /\ live' = live \cup {p, q}
                   /\ UNCHANGED <<ret, content>>
          /\ UNCHANGED <<status, application, history>>

\* The done handler is called with code; ret is kept for the return.
Done(n, r, code) ==
    /\ at' = [at EXCEPT ![n] = "done"]
    /\ ret' = [ret EXCEPT ![n] = r]
    /\ done' = [done EXCEPT ![n] = Append(@, code)]
    /\ UNCHANGED <<live, req, res>>

\* The server is given the request that is in the request buffer.
Serve(n) ==
    /\ at' = [at EXCEPT ![n] = "serve"]
    /\ handled' = [handled EXCEPT ![n] = Append(@, content'[req[n]])]
    /\ UNCHANGED <<ret, req, res, live, done>>

\* The request handler returns: with an error, or with a request in the
\* buffer.  direct->server is read only now.
RequestReturns(n) ==
    /\ status = "running" /\ at[n] = "request" /\ Innermost(n)
    /\ \/ Out(n, "handler", req[n], res[n])
          /\ UNCHANGED <<status, handled, done>>
       \/ /\ content' = [content EXCEPT ![req[n]] = n]
          /\ \/ ~server /\ Done(n, "ok", "NOT_CONNECTED") /\ UNCHANGED <<status, handled>>
             \/ server /\ serving /\ Serve(n) /\ UNCHANGED status
             \/ /\ server /\ ~serving            \* call_handler is NULL
                /\ status' = "undefined"
                /\ UNCHANGED <<live, activation, handled, done>>
    /\ UNCHANGED <<application, answers>>

\* Mutant: a failed call is reported like any other.
ServeReturnsSilently(n) ==
    /\ status = "running" /\ at[n] = "serve" /\ Innermost(n)
    /\ \/ Done(n, "failed", "OK") /\ UNCHANGED <<content, answers>>
       \/ /\ content' = [content EXCEPT ![res[n]] = content[req[n]]]
          /\ at' = [at EXCEPT ![n] = "response"]
          /\ answers' = [answers EXCEPT ![n] = Append(@, content'[res[n]])]
          /\ UNCHANGED <<ret, req, res, live, done>>
    /\ UNCHANGED <<status, application, handled>>

\* The server's call handler returns: with an error, or with the response to
\* the request it was given in the buffer.
ServeReturns(n) ==
    /\ status = "running" /\ at[n] = "serve" /\ Innermost(n)
    /\ \/ Done(n, "failed", "FAILED") /\ UNCHANGED <<content, answers>>
       \/ /\ content' = [content EXCEPT ![res[n]] = content[req[n]]]
          /\ at' = [at EXCEPT ![n] = "response"]
          /\ answers' = [answers EXCEPT ![n] = Append(@, content'[res[n]])]
          /\ UNCHANGED <<ret, req, res, live, done>>
    /\ UNCHANGED <<status, application, handled>>

\* The response handler returns: whatever it says, the call is done and OK.
ResponseReturns(n) ==
    /\ status = "running" /\ at[n] = "response" /\ Innermost(n)
    /\ \E r \in {"ok", "handler"} : Done(n, r, "OK")
    /\ UNCHANGED <<status, application, content, handled, answers>>

\* Mutant: a call waits until the calls made before it have returned.
DoneReturnsInOrder(n) ==
    /\ status = "running" /\ at[n] = "done" /\ Innermost(n)
    /\ \A m \in Call : m < n => ~Active(m)
    /\ Out(n, ret[n], req[n], res[n])
    /\ UNCHANGED <<status, application, history>>

DoneReturns(n) ==
    /\ status = "running" /\ at[n] = "done" /\ Innermost(n)
    /\ Out(n, ret[n], req[n], res[n])
    /\ UNCHANGED <<status, application, history>>

-----------------------------------------------------------------------------

Returns == \E n \in Call : \/ RequestReturns(n) \/ ServeReturns(n)
                           \/ ResponseReturns(n) \/ DoneReturns(n)

Next == \/ ClientInit \/ ClientHandler \/ ServerInit \/ ServerHandler
        \/ \E n \in Call : ClientCall(n)
        \/ Returns

\* Handlers return.
Spec == Init /\ [][Next]_vars /\ WF_vars(Returns)

-----------------------------------------------------------------------------
(* Properties. *)

\* Every variable has its type; an activation has its two buffers.
TypeOK ==
    /\ status \in {"running", "aborted", "undefined"}
    /\ {client, handlers, server, serving} \subseteq BOOLEAN
    /\ live \subseteq Buffer
    /\ content \in [Buffer -> 0..MaxCalls]
    /\ at \in [Call -> Handler \cup {"none", "returned"}]
    /\ ret \in [Call -> {"ok", "mem", "handler", "failed"}]
    /\ req \in [Call -> Buffer \cup {NoBuffer}]
    /\ res \in [Call -> Buffer \cup {NoBuffer}]
    /\ handled \in [Call -> Seq(0..MaxCalls)]
    /\ answers \in [Call -> Seq(0..MaxCalls)]
    /\ done \in [Call -> Seq({"OK", "FAILED", "NOT_CONNECTED"})]

Held(n) == {req[n], res[n]}

\* The buffers that are allocated are those of the active calls, two for each,
\* and no two calls share one: on every path out of transport_call, also out
\* of calls made from handlers, each buffer is freed, once.
BuffersOwned ==
    /\ live = UNION {Held(n) : n \in {m \in Call : Active(m)}}
    /\ \A n \in Call : Active(n) => req[n] # res[n]
    /\ \A n, m \in Call : Active(n) /\ Active(m) /\ n # m => Held(n) \cap Held(m) = {}

\* How a call that has returned is reported to its caller: the done handler
\* is called at most once, and exactly once when the call returns
\* LWPB_ERR_OK; with LWPB_RPC_OK when the client has seen a response, with
\* LWPB_RPC_FAILED when the server was asked and gave none.
CallerTold ==
    \A n \in Call : at[n] = "returned" =>
        /\ Len(done[n]) <= 1
        /\ ret[n] = "ok" => Len(done[n]) = 1
        /\ done[n] = <<"OK">> <=> answers[n] # << >>
        /\ done[n] = <<"FAILED">> <=> handled[n] # << >> /\ answers[n] = << >>

\* How far a call has got.
Phase(n) ==
    CASE at[n] = "none" -> "idle"
      [] at[n] # "none" /\ handled[n] = << >> /\ answers[n] = << >> -> "asked"
      [] at[n] # "none" /\ handled[n] = <<n>> /\ answers[n] = << >> -> "executed"
      [] at[n] # "none" /\ handled[n] = <<n>> /\ answers[n] = <<n>> -> "answered"
      [] OTHER -> "wrong"

Promise == INSTANCE RpcCall
           WITH Client <- Call, phase <- [n \in Call |-> Phase(n)]

\* However calls are nested in the handlers of others, each is handled at most
\* once and with its own request, and its client gets the response to it.
ImplementsCall == Promise!RSpec

\* Every call returns, as long as the process does not end.
CallReturns ==
    \A n \in Call : at[n] # "none" ~> at[n] = "returned" \/ status # "running"
=============================================================================
