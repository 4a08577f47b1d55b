-------------------------- MODULE DirectRpc_proofs --------------------------
(***************************************************************************)
(* Proofs about DirectRpc: TypeOK, BuffersOwned and CallerTold hold, and   *)
(* every call keeps the promise of RpcCall, for any number of calls and    *)
(* buffers and however calls are nested.                                   *)
(***************************************************************************)
EXTENDS DirectRpc, TLAPS

-----------------------------------------------------------------------------
(* The inductive invariant: TypeOK, BuffersOwned, and what has happened in *)
(* a call, by how far it has got.                                          *)

Hist(n, h, a, d) == handled[n] = h /\ answers[n] = a /\ done[n] = d

\* The done handler was called: without a server, after the server failed, or
\* after the response.
Ended(n) ==
    \/ Hist(n, << >>, << >>, <<"NOT_CONNECTED">>) /\ ret[n] = "ok"
    \/ Hist(n, <<n>>, << >>, <<"FAILED">>) /\ ret[n] = "failed"
    \/ Hist(n, <<n>>, <<n>>, <<"OK">>) /\ ret[n] \in {"ok", "handler"}

\* The call ended before that, with an error of its own.
Failed(n) == Hist(n, << >>, << >>, << >>) /\ ret[n] \in {"mem", "handler"}

CallState(n) ==
    /\ at[n] \in {"none", "request"} => Hist(n, << >>, << >>, << >>) /\ ret[n] = "ok"
    /\ at[n] = "serve" => /\ Hist(n, <<n>>, << >>, << >>) /\ ret[n] = "ok"
                          /\ content[req[n]] = n
    /\ at[n] = "response" => Hist(n, <<n>>, <<n>>, << >>)
    /\ at[n] = "done" => Ended(n)
    /\ at[n] = "returned" => Ended(n) \/ Failed(n)

\* An active call has its buffers.
HasBuffers(n) == Active(n) => req[n] \in Buffer /\ res[n] \in Buffer

Inv == /\ TypeOK /\ BuffersOwned
       /\ \A n \in Call : CallState(n) /\ HasBuffers(n)

LEMMA CallFacts ==
    ASSUME NEW n \in Call
    PROVE  n \in 0..MaxCalls /\ n \in Nat /\ n # 0 /\ << n >> \in Seq(0..MaxCalls)
  BY DirectAssumption DEF Call

LEMMA AppendToEmpty ==
    ASSUME NEW S, NEW x \in S
    PROVE  Append(<< >>, x) = << x >> /\ << x >> \in Seq(S) /\ << x >> # << >>
  OBVIOUS

\* A call keeps its state when a step leaves it alone, its request included.
LEMMA OthersKept ==
    ASSUME NEW m \in Call, CallState(m), HasBuffers(m),
           at'[m] = at[m], ret'[m] = ret[m], req'[m] = req[m], res'[m] = res[m],
           handled'[m] = handled[m], answers'[m] = answers[m], done'[m] = done[m],
           Active(m) => content'[req[m]] = content[req[m]]
    PROVE  CallState(m)' /\ HasBuffers(m)'
  BY DEF CallState, HasBuffers, Hist, Ended, Failed, Active, Handler

-----------------------------------------------------------------------------
(* The buffers.                                                            *)

LEMMA BuffersKept ==
    ASSUME BuffersOwned, live' = live,
           \A n \in Call : /\ Active(n)' <=> Active(n)
                           /\ Active(n) => req'[n] = req[n] /\ res'[n] = res[n]
    PROVE  BuffersOwned'
  <1>1. \A n \in Call : Active(n) => Held(n)' = Held(n)
    BY DEF Held
  <1>2. (UNION {Held(n) : n \in {m \in Call : Active(m)}})'
           = UNION {Held(n) : n \in {m \in Call : Active(m)}}
    BY <1>1
  <1>3. QED
    BY <1>1, <1>2 DEF BuffersOwned

\* What of an inactive call is changed does not matter.
LEMMA BuffersOut ==
    ASSUME TypeOK, BuffersOwned, NEW n \in Call, NEW r, Active(n),
           Out(n, r, req[n], res[n])
    PROVE  BuffersOwned'
  <1>1. /\ at' = [at EXCEPT ![n] = "returned"]
        /\ live' = live \ Held(n)
        /\ \A m \in Call : m # n => req'[m] = req[m] /\ res'[m] = res[m]
    BY DEF Out, Return, TypeOK, Held
  <1>2. \A m \in Call : Active(m)' <=> Active(m) /\ m # n
    BY <1>1 DEF TypeOK, Active, Handler
  <1>3. \A m \in Call : m # n => Held(m)' = Held(m)
    BY <1>1 DEF Held
  <1>4. live' = UNION {Held(m)' : m \in {k \in Call : Active(k)'}}
    <2>1. ASSUME NEW b \in live' PROVE b \in UNION {Held(m)' : m \in {k \in Call : Active(k)'}}
      <3>1. PICK m \in Call : Active(m) /\ b \in Held(m)
        BY <1>1, <2>1 DEF BuffersOwned
      <3>2. QED
        BY <3>1, <2>1, <1>1, <1>2, <1>3
    <2>2. ASSUME NEW m \in Call, Active(m)', NEW b \in Held(m)' PROVE b \in live'
      <3>1. m # n /\ Active(m) /\ b \in Held(m)
        BY <2>2, <1>2, <1>3
      <3>2. b \in live /\ b \notin Held(n)
        BY <3>1 DEF BuffersOwned
      <3>3. QED
        BY <3>2, <1>1
    <2>3. QED
      BY <2>1, <2>2
  <1>5. QED
    BY <1>1, <1>2, <1>3, <1>4 DEF BuffersOwned

LEMMA BuffersTaken ==
    ASSUME TypeOK, BuffersOwned, NEW n \in Call, ~Active(n),
           NEW p \in Buffer \ live, NEW q \in Buffer \ live, p # q,
           at' = [at EXCEPT ![n] = "request"],
           req' = [req EXCEPT ![n] = p], res' = [res EXCEPT ![n] = q],
           live' = live \cup {p, q}
    PROVE  BuffersOwned'
  <1>1. /\ \A m \in Call : Active(m)' <=> Active(m) \/ m = n
        /\ \A m \in Call : m # n => Held(m)' = Held(m)
        /\ Held(n)' = {p, q} /\ req'[n] # res'[n]
        /\ \A m \in Call : m # n => req'[m] = req[m] /\ res'[m] = res[m]
    BY DEF TypeOK, Active, Handler, Held
  <1>2. live' = UNION {Held(m)' : m \in {k \in Call : Active(k)'}}
    <2>1. ASSUME NEW b \in live' PROVE b \in UNION {Held(m)' : m \in {k \in Call : Active(k)'}}
      <3>1. CASE b \in {p, q}
        BY <3>1, <1>1
      <3>2. CASE b \in live
        <4>1. PICK m \in Call : Active(m) /\ b \in Held(m)
          BY <3>2 DEF BuffersOwned
        <4>2. QED
          BY <4>1, <1>1
      <3>3. QED
        BY <3>1, <3>2
    <2>2. ASSUME NEW m \in Call, Active(m)', NEW b \in Held(m)' PROVE b \in live'
      BY <2>2, <1>1 DEF BuffersOwned
    <2>3. QED
      BY <2>1, <2>2
  <1>3. \A m \in Call : Active(m) => Held(m) \cap {p, q} = {}
    BY DEF BuffersOwned
  <1>4. QED
    BY <1>1, <1>2, <1>3 DEF BuffersOwned

-----------------------------------------------------------------------------
(* The steps.                                                              *)

\* Registering and handlers, and a process that ends.
LEMMA ApplicationStep ==
    ASSUME Inv, UNCHANGED <<live, content, activation, history>>,
           status' \in {"running", "aborted", "undefined"},
           {client, handlers, server, serving}' \subseteq BOOLEAN
    PROVE  Inv'
  <1>1. TypeOK'
    BY DEF Inv, TypeOK, activation, history
  <1>2. BuffersOwned'
    BY BuffersKept DEF Inv, Active, activation
  <1>3. ASSUME NEW m \in Call PROVE CallState(m)' /\ HasBuffers(m)'
    BY OthersKept DEF Inv, activation, history
  <1>4. QED
    BY <1>1, <1>2, <1>3 DEF Inv

\* The call returns and its buffers are freed.
LEMMA OutStep ==
    ASSUME Inv, NEW n \in Call, Active(n),
           NEW r \in {"ok", "mem", "handler", "failed"},
           Out(n, r, req[n], res[n]), UNCHANGED <<status, application, history>>,
           \/ r = ret[n] /\ Ended(n)
           \/ r = "handler" /\ Hist(n, << >>, << >>, << >>)
    PROVE  Inv'
  <1>1. /\ req[n] \in Buffer /\ res[n] \in Buffer
        /\ at' = [at EXCEPT ![n] = "returned"] /\ ret' = [ret EXCEPT ![n] = r]
        /\ req' = [req EXCEPT ![n] = NoBuffer] /\ res' = [res EXCEPT ![n] = NoBuffer]
        /\ live' = live \ {req[n], res[n]}
        /\ content' = [b \in Buffer |-> IF b \in {req[n], res[n]} THEN 0 ELSE content[b]]
    BY DEF Inv, HasBuffers, Out, Return
  <1>2. TypeOK'
    <2>1. content' \in [Buffer -> 0..MaxCalls]
      BY <1>1, DirectAssumption DEF Inv, TypeOK
    <2>2. QED
      BY <1>1, <2>1 DEF Inv, TypeOK, application, history
  <1>3. BuffersOwned'
    BY BuffersOut DEF Inv
  <1>4. CallState(n)' /\ HasBuffers(n)'
    <2>1. at'[n] = "returned" /\ ret'[n] = r
      BY <1>1 DEF Inv, TypeOK
    <2>2. Ended(n)' \/ Failed(n)'
      BY <2>1 DEF Ended, Failed, Hist, history
    <2>3. QED
      BY <2>1, <2>2 DEF CallState, HasBuffers, Active, Handler
  <1>5. ASSUME NEW m \in Call, m # n PROVE CallState(m)' /\ HasBuffers(m)'
    <2>1. Active(m) => req[m] \in Buffer /\ req[m] \notin {req[n], res[n]}
      BY <1>5 DEF Inv, HasBuffers, BuffersOwned, Held
    <2>2. Active(m) => content'[req[m]] = content[req[m]]
      BY <1>1, <2>1
    <2>3. at'[m] = at[m] /\ ret'[m] = ret[m] /\ req'[m] = req[m] /\ res'[m] = res[m]
      BY <1>1, <1>5 DEF Inv, TypeOK
    <2>4. QED
      BY <2>2, <2>3, OthersKept DEF Inv, history
  <1>6. QED
    BY <1>2, <1>3, <1>4, <1>5 DEF Inv

LEMMA ClientCallStep ==
    ASSUME Inv, NEW n \in Call, ClientCall(n)
    PROVE  Inv'
  <1>1. at[n] = "none" /\ ~Active(n) /\ status \in {"running", "aborted", "undefined"}
    BY DEF ClientCall, NextCall, Active, Handler, Inv, TypeOK
  <1>2. Hist(n, << >>, << >>, << >>) /\ ret[n] = "ok"
    BY <1>1 DEF Inv, CallState
  <1>3. CASE Fails("aborted")
    BY <1>3, ApplicationStep DEF Fails, application, Inv, TypeOK
  <1>4. ASSUME UNCHANGED <<status, application, history>>,
               NEW p \in AllocBuf(live), NEW q \in Buffer \cup {NoBuffer},
               p = NoBuffer => q = NoBuffer, q \notin live, NoBuffer \in {p, q},
               Out(n, "mem", p, q)
        PROVE  Inv'
    <2>1. /\ q = NoBuffer /\ p \notin live /\ q \notin live
      BY <1>4, DirectAssumption DEF AllocBuf, Inv, TypeOK
    <2>2. /\ at' = [at EXCEPT ![n] = "returned"] /\ ret' = [ret EXCEPT ![n] = "mem"]
          /\ req' = [req EXCEPT ![n] = NoBuffer] /\ res' = [res EXCEPT ![n] = NoBuffer]
          /\ live' = live
          /\ content' = [b \in Buffer |-> IF b \in {p, q} THEN 0 ELSE content[b]]
      BY <1>4, <2>1 DEF Out, Return
    <2>3. TypeOK'
      <3>1. content' \in [Buffer -> 0..MaxCalls]
        BY <2>2, DirectAssumption DEF Inv, TypeOK
      <3>2. QED
        BY <2>2, <3>1, <1>4 DEF Inv, TypeOK, application, history
    <2>4. BuffersOwned'
      <3>1. \A m \in Call : /\ Active(m)' <=> Active(m)
                            /\ Active(m) => req'[m] = req[m] /\ res'[m] = res[m]
        BY <2>2, <1>1 DEF Inv, TypeOK, Active, Handler
      <3>2. QED
        BY <2>2, <3>1, BuffersKept DEF Inv
    <2>5. CallState(n)' /\ HasBuffers(n)'
      BY <2>2, <1>2, <1>4 DEF CallState, HasBuffers, Active, Handler, Failed, Hist,
                              Inv, TypeOK, history
    <2>6. ASSUME NEW m \in Call, m # n PROVE CallState(m)' /\ HasBuffers(m)'
      <3>1. Active(m) => req[m] \in Buffer /\ req[m] \in live
        BY DEF Inv, HasBuffers, BuffersOwned, Held
      <3>2. Active(m) => content'[req[m]] = content[req[m]]
        BY <2>1, <2>2, <3>1
      <3>3. at'[m] = at[m] /\ ret'[m] = ret[m] /\ req'[m] = req[m] /\ res'[m] = res[m]
        BY <2>2, <2>6 DEF Inv, TypeOK
      <3>4. QED
        BY <3>2, <3>3, <1>4, OthersKept DEF Inv, history
    <2>7. QED
      BY <2>3, <2>4, <2>5, <2>6 DEF Inv
  <1>5. ASSUME UNCHANGED <<status, application, history, ret, content>>,
               NEW p \in Buffer \ live, NEW q \in Buffer \ live, p # q,
               at' = [at EXCEPT ![n] = "request"],
               req' = [req EXCEPT ![n] = p], res' = [res EXCEPT ![n] = q],
               live' = live \cup {p, q}
        PROVE  Inv'
    <2>1. TypeOK'
      BY <1>5 DEF Inv, TypeOK, Handler, application, history
    <2>2. BuffersOwned'
      BY <1>1, <1>5, BuffersTaken DEF Inv
    <2>3. CallState(n)' /\ HasBuffers(n)'
      BY <1>2, <1>5 DEF CallState, HasBuffers, Active, Handler, Hist, Inv, TypeOK, history
    <2>4. ASSUME NEW m \in Call, m # n PROVE CallState(m)' /\ HasBuffers(m)'
      <3>1. at'[m] = at[m] /\ ret'[m] = ret[m] /\ req'[m] = req[m] /\ res'[m] = res[m]
        BY <1>5, <2>4 DEF Inv, TypeOK
      <3>2. QED
        BY <3>1, <1>5, OthersKept DEF Inv, history
    <2>5. QED
      BY <2>1, <2>2, <2>3, <2>4 DEF Inv
  <1>6. QED
    <2>1. CASE ~Fails("aborted")
      <3>0. PICK p \in AllocBuf(live) :
                \E q \in IF p = NoBuffer THEN {NoBuffer} ELSE AllocBuf(live \cup {p}) :
                \/ Missing(p, q) /\ Out(n, "mem", p, q)
                \/ /\ ~Missing(p, q)
                   /\ at' = [at EXCEPT ![n] = "request"]
                   /\ req' = [req EXCEPT ![n] = p] /\ res' = [res EXCEPT ![n] = q]
                   /\ live' = live \cup {p, q} /\ UNCHANGED <<ret, content>>
        BY <2>1 DEF ClientCall
      <3>1. PICK q \in IF p = NoBuffer THEN {NoBuffer} ELSE AllocBuf(live \cup {p}) :
                \/ Missing(p, q) /\ Out(n, "mem", p, q)
                \/ /\ ~Missing(p, q)
                   /\ at' = [at EXCEPT ![n] = "request"]
                   /\ req' = [req EXCEPT ![n] = p] /\ res' = [res EXCEPT ![n] = q]
                   /\ live' = live \cup {p, q} /\ UNCHANGED <<ret, content>>
        BY <3>0
      <3>2. UNCHANGED <<status, application, history>>
        BY <2>1 DEF ClientCall
      <3>3. /\ p \in (Buffer \ live) \cup {NoBuffer} /\ q \in (Buffer \ live) \cup {NoBuffer}
            /\ p = NoBuffer => q = NoBuffer /\ q \notin live
            /\ q \notin live /\ (p = q => p = NoBuffer)
        BY <3>1, DirectAssumption DEF AllocBuf, Inv, TypeOK
      <3>4. CASE Missing(p, q) /\ Out(n, "mem", p, q)
        BY <3>2, <3>3, <3>4, <1>4 DEF Missing, AllocBuf
      <3>5. CASE ~(Missing(p, q) /\ Out(n, "mem", p, q))
        BY <3>1, <3>2, <3>3, <3>5, <1>5 DEF Missing
      <3>6. QED
        BY <3>4, <3>5
    <2>2. QED
      BY <2>1, <1>3

\* The done handler is called.
LEMMA DoneStep ==
    ASSUME Inv, NEW n \in Call, Active(n),
           NEW r \in {"ok", "handler", "failed"}, NEW code \in {"OK", "FAILED", "NOT_CONNECTED"},
           Done(n, r, code), UNCHANGED <<status, application, handled, answers>>,
           content' \in [Buffer -> 0..MaxCalls],
           \A b \in Buffer : b \notin Held(n) => content'[b] = content[b],
           done[n] = << >>,
           \/ code = "NOT_CONNECTED" /\ handled[n] = << >> /\ answers[n] = << >> /\ r = "ok"
           \/ code = "FAILED" /\ handled[n] = << n >> /\ answers[n] = << >> /\ r = "failed"
           \/ code = "OK" /\ handled[n] = << n >> /\ answers[n] = << n >> /\ r # "failed"
    PROVE  Inv'
  <1>1. /\ at' = [at EXCEPT ![n] = "done"] /\ ret' = [ret EXCEPT ![n] = r]
        /\ done' = [done EXCEPT ![n] = << code >>]
        /\ << code >> \in Seq({"OK", "FAILED", "NOT_CONNECTED"})
        /\ UNCHANGED <<live, req, res>>
    BY AppendToEmpty DEF Done, Inv, TypeOK
  <1>2. TypeOK'
    BY <1>1 DEF Inv, TypeOK, Handler, application
  <1>3. BuffersOwned'
    BY <1>1, BuffersKept DEF Inv, TypeOK, Active, Handler
  <1>4. CallState(n)' /\ HasBuffers(n)'
    <2>1. /\ at'[n] = "done" /\ ret'[n] = r /\ done'[n] = << code >>
          /\ handled'[n] = handled[n] /\ answers'[n] = answers[n]
          /\ req'[n] = req[n] /\ res'[n] = res[n]
      BY <1>1 DEF Inv, TypeOK
    <2>2. Ended(n)'
      BY <2>1 DEF Ended, Hist
    <2>3. QED
      BY <2>1, <2>2 DEF CallState, HasBuffers, Active, Inv
  <1>5. ASSUME NEW m \in Call, m # n PROVE CallState(m)' /\ HasBuffers(m)'
    <2>1. Active(m) => req[m] \in Buffer /\ req[m] \notin Held(n)
      BY <1>5 DEF Inv, HasBuffers, BuffersOwned, Held
    <2>2. /\ at'[m] = at[m] /\ ret'[m] = ret[m] /\ req'[m] = req[m] /\ res'[m] = res[m]
          /\ done'[m] = done[m]
      BY <1>1, <1>5 DEF Inv, TypeOK
    <2>3. QED
      BY <2>1, <2>2, OthersKept DEF Inv
  <1>6. QED
    BY <1>2, <1>3, <1>4, <1>5 DEF Inv

\* The handler after the request is called: the server's, or the client's for
\* the response.
LEMMA HandStep ==
    ASSUME Inv, NEW n \in Call, Active(n), NEW h \in {"serve", "response"},
           at' = [at EXCEPT ![n] = h],
           UNCHANGED <<status, application, ret, req, res, live, done>>,
           content' \in [Buffer -> 0..MaxCalls],
           \A b \in Buffer : b \notin Held(n) => content'[b] = content[b],
           done[n] = << >>, handled' \in [Call -> Seq(0..MaxCalls)],
           answers' \in [Call -> Seq(0..MaxCalls)],
           \A m \in Call : m # n => handled'[m] = handled[m] /\ answers'[m] = answers[m],
           handled'[n] = << n >>,
           h = "serve" => answers'[n] = << >> /\ ret[n] = "ok" /\ content'[req[n]] = n,
           h = "response" => answers'[n] = << n >>
    PROVE  Inv'
  <1>1. TypeOK'
    BY DEF Inv, TypeOK, Handler, application
  <1>2. BuffersOwned'
    BY BuffersKept DEF Inv, TypeOK, Active, Handler
  <1>3. CallState(n)' /\ HasBuffers(n)'
    BY DEF CallState, HasBuffers, Active, Hist, Inv, TypeOK
  <1>4. ASSUME NEW m \in Call, m # n PROVE CallState(m)' /\ HasBuffers(m)'
    <2>1. Active(m) => req[m] \in Buffer /\ req[m] \notin Held(n)
      BY <1>4 DEF Inv, HasBuffers, BuffersOwned, Held
    <2>2. at'[m] = at[m]
      BY <1>4 DEF Inv, TypeOK
    <2>3. QED
      BY <1>4, <2>1, <2>2, OthersKept DEF Inv
  <1>5. QED
    BY <1>1, <1>2, <1>3, <1>4 DEF Inv

LEMMA RequestReturnsStep ==
    ASSUME Inv, NEW n \in Call, RequestReturns(n)
    PROVE  Inv'
  <1>1. /\ Active(n) /\ Hist(n, << >>, << >>, << >>) /\ ret[n] = "ok"
        /\ req[n] \in Buffer /\ UNCHANGED <<application, answers>>
    BY DEF RequestReturns, Active, Handler, Inv, CallState, HasBuffers
  <1>2. CASE Out(n, "handler", req[n], res[n]) /\ UNCHANGED <<status, handled, done>>
    BY <1>1, <1>2, OutStep DEF history
  <1>3. CASE content' = [content EXCEPT ![req[n]] = n]
    <2>1. /\ content' \in [Buffer -> 0..MaxCalls] /\ content'[req[n]] = n
          /\ \A b \in Buffer : b \notin Held(n) => content'[b] = content[b]
      BY <1>1, <1>3, CallFacts DEF Inv, TypeOK, Held
    <2>2. CASE Done(n, "ok", "NOT_CONNECTED") /\ UNCHANGED <<status, handled>>
      BY <1>1, <2>1, <2>2, DoneStep DEF Hist
    <2>3. CASE Serve(n) /\ UNCHANGED status
      <3>1. handled' = [handled EXCEPT ![n] = << n >>]
        BY <1>1, <2>1, <2>3, CallFacts, AppendToEmpty DEF Serve, Hist, Inv, TypeOK
      <3>2. handled' \in [Call -> Seq(0..MaxCalls)] /\ handled'[n] = << n >>
        BY <3>1, CallFacts DEF Inv, TypeOK
      <3>3. \A m \in Call : m # n => handled'[m] = handled[m]
        BY <3>1 DEF Inv, TypeOK
      <3>4. QED
        BY <1>1, <2>1, <2>3, <3>2, <3>3, HandStep DEF Serve, Hist, Inv, TypeOK
    <2>4. CASE status' = "undefined" /\ UNCHANGED <<live, activation, handled, done>>
      <3>1. TypeOK'
        BY <1>1, <2>1, <2>4 DEF Inv, TypeOK, application, activation
      <3>2. BuffersOwned'
        BY <2>4, BuffersKept DEF Inv, Active, activation
      <3>3. ASSUME NEW m \in Call PROVE CallState(m)' /\ HasBuffers(m)'
        <4>1. m # n /\ Active(m) => req[m] \in Buffer /\ req[m] \notin Held(n)
          BY <1>1 DEF Inv, HasBuffers, BuffersOwned, Held
        <4>2. at[n] # "serve"
          BY DEF RequestReturns
        <4>3. CASE m # n
          BY <1>1, <2>1, <2>4, <4>1, <4>3, OthersKept DEF Inv, activation
        <4>4. CASE m = n
          BY <1>1, <2>4, <4>2, <4>4 DEF Inv, CallState, HasBuffers, Hist, Active,
                                        Ended, Failed, activation
        <4>5. QED
          BY <4>3, <4>4
      <3>4. QED
        BY <3>1, <3>2, <3>3 DEF Inv
    <2>5. QED
      BY <1>2, <2>2, <2>3, <2>4 DEF RequestReturns
  <1>4. QED
    BY <1>2, <1>3 DEF RequestReturns

LEMMA ServeReturnsStep ==
    ASSUME Inv, NEW n \in Call, ServeReturns(n)
    PROVE  Inv'
  <1>1. /\ Active(n) /\ Hist(n, << n >>, << >>, << >>)
        /\ req[n] \in Buffer /\ res[n] \in Buffer /\ content[req[n]] = n
        /\ UNCHANGED <<status, application, handled>>
    BY DEF ServeReturns, Active, Handler, Inv, CallState, HasBuffers
  <1>2. CASE Done(n, "failed", "FAILED") /\ UNCHANGED <<content, answers>>
    BY <1>1, <1>2, DoneStep DEF Hist, Inv, TypeOK
  <1>3. CASE /\ content' = [content EXCEPT ![res[n]] = content[req[n]]]
             /\ at' = [at EXCEPT ![n] = "response"]
             /\ answers' = [answers EXCEPT ![n] = Append(@, content'[res[n]])]
             /\ UNCHANGED <<ret, req, res, live, done>>
    <2>1. /\ content' \in [Buffer -> 0..MaxCalls] /\ content'[res[n]] = n
          /\ \A b \in Buffer : b \notin Held(n) => content'[b] = content[b]
      BY <1>1, <1>3, CallFacts DEF Inv, TypeOK, Held
    <2>2. answers' = [answers EXCEPT ![n] = << n >>]
      BY <1>1, <1>3, <2>1, CallFacts, AppendToEmpty DEF Hist, Inv, TypeOK
    <2>3. answers' \in [Call -> Seq(0..MaxCalls)] /\ answers'[n] = << n >>
      BY <2>2, CallFacts DEF Inv, TypeOK
    <2>4. \A m \in Call : m # n => answers'[m] = answers[m]
      BY <2>2 DEF Inv, TypeOK
    <2>5. QED
      BY <1>1, <1>3, <2>1, <2>3, <2>4, HandStep DEF Hist, Inv, TypeOK
  <1>4. QED
    BY <1>2, <1>3 DEF ServeReturns

LEMMA ResponseReturnsStep ==
    ASSUME Inv, NEW n \in Call, ResponseReturns(n)
    PROVE  Inv'
  <1>1. /\ Active(n) /\ Hist(n, << n >>, << n >>, << >>)
        /\ UNCHANGED <<status, application, content, handled, answers>>
    BY DEF ResponseReturns, Active, Handler, Inv, CallState
  <1>2. PICK r \in {"ok", "handler"} : Done(n, r, "OK")
    BY DEF ResponseReturns
  <1>3. QED
    BY <1>1, <1>2, DoneStep DEF Hist, Inv, TypeOK

LEMMA DoneReturnsStep ==
    ASSUME Inv, NEW n \in Call, DoneReturns(n)
    PROVE  Inv'
  <1>1. at[n] = "done" /\ CallState(n) /\ ret[n] \in {"ok", "mem", "handler", "failed"}
    BY DEF DoneReturns, Inv, TypeOK
  <1>2. Active(n) /\ Ended(n)
    BY <1>1 DEF Active, Handler, CallState
  <1>3. QED
    BY <1>1, <1>2, OutStep DEF DoneReturns

-----------------------------------------------------------------------------

LEMMA InvInit == Init => Inv
  <1> SUFFICES ASSUME Init PROVE Inv
    OBVIOUS
  <1>1. TypeOK
    <2>1. \A S : << >> \in Seq(S)
      OBVIOUS
    <2>2. 0 \in 0..MaxCalls
      BY DirectAssumption
    <2>3. QED
      BY <2>1, <2>2 DEF Init, TypeOK
  <1>2. \A n \in Call : at[n] = "none" /\ ~Active(n)
    BY DEF Init, Active, Handler
  <1>3. BuffersOwned
    BY <1>2 DEF Init, BuffersOwned
  <1>4. \A n \in Call : CallState(n) /\ HasBuffers(n)
    BY <1>2 DEF Init, CallState, HasBuffers, Hist
  <1>5. QED
    BY <1>1, <1>3, <1>4 DEF Inv

LEMMA InvNext == Inv /\ [Next]_vars => Inv'
  <1> SUFFICES ASSUME Inv, [Next]_vars PROVE Inv'
    OBVIOUS
  <1>1. CASE UNCHANGED vars
    BY <1>1, ApplicationStep DEF vars, application, Inv, TypeOK
  <1>2. CASE ClientInit
    BY <1>2, ApplicationStep DEF ClientInit, Fails, application, Inv, TypeOK
  <1>3. CASE ClientHandler
    BY <1>3, ApplicationStep DEF ClientHandler, application, Inv, TypeOK
  <1>4. CASE ServerInit
    BY <1>4, ApplicationStep DEF ServerInit, Fails, application, Inv, TypeOK
  <1>5. CASE ServerHandler
    BY <1>5, ApplicationStep DEF ServerHandler, application, Inv, TypeOK
  <1>6. CASE \E n \in Call : ClientCall(n)
    BY <1>6, ClientCallStep
  <1>7. CASE Returns
    BY <1>7, RequestReturnsStep, ServeReturnsStep, ResponseReturnsStep, DoneReturnsStep
       DEF Returns
  <1>8. QED
    BY <1>1, <1>2, <1>3, <1>4, <1>5, <1>6, <1>7 DEF Next

\* Every variable keeps its type, for any number of calls and buffers.
THEOREM TypeCorrect == Spec => []TypeOK
  <1>1. Inv => TypeOK
    BY DEF Inv
  <1>2. QED
    BY <1>1, InvInit, InvNext, PTL DEF Spec

\* Each buffer is owned by one active call, and freed once, on every path out
\* of transport_call (direct.c:99-106), however deep calls are nested.
THEOREM BuffersAreOwned == Spec => []BuffersOwned
  <1>1. Inv => BuffersOwned
    BY DEF Inv
  <1>2. QED
    BY <1>1, InvInit, InvNext, PTL DEF Spec

\* The done handler tells the caller of transport_call what became of the call.
THEOREM CallersAreTold == Spec => []CallerTold
  <1>1. Inv => CallerTold
    <2> SUFFICES ASSUME Inv, NEW n \in Call, at[n] = "returned"
                 PROVE  /\ Len(done[n]) <= 1
                        /\ ret[n] = "ok" => Len(done[n]) = 1
                        /\ done[n] = <<"OK">> <=> answers[n] # << >>
                        /\ done[n] = <<"FAILED">> <=> handled[n] # << >> /\ answers[n] = << >>
      BY DEF CallerTold
    <2>1. Ended(n) \/ Failed(n)
      BY DEF Inv, CallState
    <2>2. /\ Len(<< >>) = 0 /\ << n >> # << >>
          /\ \A x \in {"OK", "FAILED", "NOT_CONNECTED"} :
                /\ Len(<< x >>) = 1 /\ << x >> # << >>
                /\ << x >> = <<"OK">> <=> x = "OK"
                /\ << x >> = <<"FAILED">> <=> x = "FAILED"
      OBVIOUS
    <2>3. CASE Failed(n)
      BY <2>2, <2>3 DEF Failed, Hist
    <2>4. CASE Hist(n, << >>, << >>, <<"NOT_CONNECTED">>)
      BY <2>2, <2>4 DEF Hist
    <2>5. CASE Hist(n, << n >>, << >>, <<"FAILED">>) /\ ret[n] = "failed"
      BY <2>2, <2>5 DEF Hist
    <2>6. CASE Hist(n, << n >>, << n >>, <<"OK">>)
      BY <2>2, <2>6 DEF Hist
    <2>7. QED
      BY <2>1, <2>3, <2>4, <2>5, <2>6 DEF Ended
  <1>2. QED
    BY <1>1, InvInit, InvNext, PTL DEF Spec

-----------------------------------------------------------------------------
(* The promise of RpcCall.                                                 *)

Phases == [n \in Call |-> Phase(n)]

InPhase(n) ==
    /\ at[n] = "none" => Phase(n) = "idle"
    /\ at[n] # "none" =>
          \/ handled[n] = << >> /\ answers[n] = << >> /\ Phase(n) = "asked"
          \/ handled[n] = << n >> /\ answers[n] = << >> /\ Phase(n) = "executed"
          \/ handled[n] = << n >> /\ answers[n] = << n >> /\ Phase(n) = "answered"

LEMMA PhaseIs == Inv => \A n \in Call : InPhase(n)
  <1> SUFFICES ASSUME Inv, NEW n \in Call PROVE InPhase(n)
    OBVIOUS
  <1>1. << n >> # << >>
    OBVIOUS
  <1>2. at[n] # "none" => \/ handled[n] = << >> /\ answers[n] = << >>
                          \/ handled[n] = << n >> /\ answers[n] = << >>
                          \/ handled[n] = << n >> /\ answers[n] = << n >>
    <2>1. CallState(n) /\ at[n] \in Handler \cup {"none", "returned"}
      BY DEF Inv, TypeOK
    <2>2. QED
      BY <2>1 DEF CallState, Hist, Ended, Failed, Handler
  <1>3. CASE at[n] = "none"
    BY <1>3 DEF Phase, InPhase
  <1>4. CASE at[n] # "none" /\ handled[n] = << >> /\ answers[n] = << >>
    BY <1>1, <1>4 DEF Phase, InPhase
  <1>5. CASE at[n] # "none" /\ handled[n] = << n >> /\ answers[n] = << >>
    BY <1>1, <1>5 DEF Phase, InPhase
  <1>6. CASE at[n] # "none" /\ handled[n] = << n >> /\ answers[n] = << n >>
    BY <1>1, <1>6 DEF Phase, InPhase
  <1>7. QED
    BY <1>2, <1>3, <1>4, <1>5, <1>6

LEMMA PhaseIsNext == Inv' => (\A n \in Call : InPhase(n))'
  BY PhaseIs, PTL

LEMMA NoProgress ==
    ASSUME UNCHANGED <<handled, answers>>,
           \A n \in Call : at'[n] = "none" <=> at[n] = "none"
    PROVE  Phases' = Phases
  <1>1. \A n \in Call : Phase(n)' = Phase(n)
    BY DEF Phase
  <1>2. QED
    BY <1>1 DEF Phases

\* A step that takes one call one step on.
LEMMA Progress ==
    ASSUME Inv, Inv', NEW n \in Call,
           \A m \in Call : m # n => /\ at'[m] = "none" <=> at[m] = "none"
                                    /\ handled'[m] = handled[m] /\ answers'[m] = answers[m],
           at'[n] # "none",
           \/ at[n] = "none" /\ handled'[n] = << >>
           \/ at[n] # "none" /\ handled[n] = << >> /\ handled'[n] = << n >> /\ answers'[n] = << >>
           \/ at[n] # "none" /\ handled[n] = << n >> /\ answers[n] = << >> /\ answers'[n] = << n >>
    PROVE  Promise!RNext
  <1>1. \A m \in Call : m # n => Phase(m)' = Phase(m)
    BY DEF Phase
  <1>2. << n >> # << >>
    OBVIOUS
  <1>3. \/ Phase(n) = "idle" /\ Phase(n)' = "asked"
        \/ Phase(n) = "asked" /\ Phase(n)' = "executed"
        \/ Phase(n) = "executed" /\ Phase(n)' = "answered"
    BY <1>2, PhaseIs, PhaseIsNext DEF InPhase
  <1>4. Promise!Ask(n) \/ Promise!Execute(n) \/ Promise!Answer(n)
    BY <1>1, <1>3 DEF Promise!Ask, Promise!Execute, Promise!Answer, Promise!Becomes
  <1>5. QED
    BY <1>4 DEF Promise!RNext

LEMMA PhasesStep == Inv /\ Inv' /\ [Next]_vars => [Promise!RNext]_Phases
  <1> SUFFICES ASSUME Inv, Inv', [Next]_vars PROVE Promise!RNext \/ Phases' = Phases
    OBVIOUS
  <1>1. CASE UNCHANGED <<activation, history>>
    BY <1>1, NoProgress DEF activation, history
  <1>2. ASSUME NEW n \in Call, ClientCall(n), ~UNCHANGED <<activation, history>>
        PROVE  Promise!RNext
    <2>1. at[n] = "none" /\ handled[n] = << >>
      BY <1>2 DEF ClientCall, NextCall, Inv, CallState, Hist
    <2>2. /\ UNCHANGED history
          /\ \/ at' = [at EXCEPT ![n] = "returned"]
             \/ at' = [at EXCEPT ![n] = "request"]
      BY <1>2 DEF ClientCall, Fails, Out, Return
    <2>3. at'[n] # "none" /\ \A m \in Call : m # n => at'[m] = at[m]
      BY <2>2 DEF Inv, TypeOK
    <2>4. QED
      BY <2>1, <2>2, <2>3, Progress DEF history
  <1>3. ASSUME NEW n \in Call, at[n] \in Handler, NEW h \in Handler \cup {"returned"},
               at' = [at EXCEPT ![n] = h], UNCHANGED <<handled, answers>>
        PROVE  Phases' = Phases
    BY <1>3, NoProgress DEF Handler, Inv, TypeOK
  <1>4. ASSUME NEW n \in Call, RequestReturns(n), ~UNCHANGED activation
        PROVE  Promise!RNext \/ Phases' = Phases
    <2>1. at[n] \in Handler /\ Hist(n, << >>, << >>, << >>) /\ UNCHANGED answers
      BY <1>4 DEF RequestReturns, Handler, Inv, CallState
    <2>2. CASE \E h \in Handler \cup {"returned"} :
                  at' = [at EXCEPT ![n] = h] /\ UNCHANGED handled
      BY <2>1, <2>2, <1>3
    <2>3. CASE Serve(n) /\ content' = [content EXCEPT ![req[n]] = n]
      <3>1. req[n] \in Buffer /\ content'[req[n]] = n
        BY <1>4, <2>3 DEF RequestReturns, Inv, TypeOK, HasBuffers, Active, Handler
      <3>2. handled' = [handled EXCEPT ![n] = << n >>] /\ at' = [at EXCEPT ![n] = "serve"]
        BY <2>1, <2>3, <3>1, CallFacts, AppendToEmpty DEF Serve, Hist, Inv, TypeOK
      <3>3. /\ at'[n] = "serve" /\ handled'[n] = << n >>
            /\ \A m \in Call : m # n => at'[m] = at[m] /\ handled'[m] = handled[m]
        BY <3>2 DEF Inv, TypeOK
      <3>4. QED
        BY <2>1, <3>3, Progress DEF Hist, Handler
    <2>4. QED
      BY <1>4, <2>2, <2>3 DEF RequestReturns, Out, Return, Done, Handler
  <1>5. ASSUME NEW n \in Call, ServeReturns(n)
        PROVE  Promise!RNext \/ Phases' = Phases
    <2>1. /\ at[n] = "serve" /\ Hist(n, << n >>, << >>, << >>) /\ UNCHANGED handled
          /\ req[n] \in Buffer /\ res[n] \in Buffer /\ content[req[n]] = n
      BY <1>5 DEF ServeReturns, Handler, Active, Inv, CallState, HasBuffers
    <2>2. CASE at' = [at EXCEPT ![n] = "done"] /\ UNCHANGED answers
      BY <2>1, <2>2, <1>3 DEF Handler
    <2>3. CASE /\ content' = [content EXCEPT ![res[n]] = content[req[n]]]
               /\ at' = [at EXCEPT ![n] = "response"]
               /\ answers' = [answers EXCEPT ![n] = Append(@, content'[res[n]])]
      <3>1. content'[res[n]] = n
        BY <2>1, <2>3 DEF Inv, TypeOK
      <3>2. answers' = [answers EXCEPT ![n] = << n >>]
        BY <2>1, <2>3, <3>1, CallFacts, AppendToEmpty DEF Hist, Inv, TypeOK
      <3>3. /\ at'[n] = "response" /\ answers'[n] = << n >>
            /\ \A m \in Call : m # n => at'[m] = at[m] /\ answers'[m] = answers[m]
        BY <2>3, <3>2 DEF Inv, TypeOK
      <3>4. QED
        BY <2>1, <3>3, Progress DEF Hist
    <2>4. QED
      BY <1>5, <2>2, <2>3 DEF ServeReturns, Done
  <1>6. ASSUME NEW n \in Call, ResponseReturns(n) \/ DoneReturns(n)
        PROVE  Phases' = Phases
    <2>1. at[n] \in Handler /\ UNCHANGED <<handled, answers>>
      BY <1>6 DEF ResponseReturns, DoneReturns, Handler, history
    <2>2. \E h \in Handler \cup {"returned"} : at' = [at EXCEPT ![n] = h]
      BY <1>6 DEF ResponseReturns, DoneReturns, Done, Out, Return, Handler
    <2>3. QED
      BY <2>1, <2>2, <1>3
  <1>7. QED
    <2>1. CASE ClientInit \/ ClientHandler \/ ServerInit \/ ServerHandler \/ UNCHANGED vars
      BY <2>1, <1>1 DEF ClientInit, ClientHandler, ServerInit, ServerHandler, Fails, vars
    <2>2. CASE \E n \in Call : ClientCall(n)
      BY <2>2, <1>1, <1>2
    <2>3. CASE Returns
      <3>1. ASSUME NEW n \in Call, RequestReturns(n), UNCHANGED activation
            PROVE  Phases' = Phases
        <4>1. at[n] = "request" /\ at'[n] = "request"
          BY <3>1 DEF RequestReturns, activation
        <4>2. UNCHANGED <<handled, answers>>
          BY <3>1, <4>1 DEF RequestReturns, Out, Return, Done, Serve, Inv, TypeOK
        <4>3. QED
          BY <3>1, <4>2, NoProgress DEF activation
      <3>2. QED
        BY <2>3, <3>1, <1>4, <1>5, <1>6 DEF Returns
    <2>4. QED
      BY <2>1, <2>2, <2>3 DEF Next

\* Calls over the direct transport keep the promise of RpcCall, for any number
\* of calls and however they are nested in one another's handlers.
THEOREM DirectImplementsCall == Spec => ImplementsCall
  <1>1. Init => Promise!RInit
    <2> SUFFICES ASSUME Init PROVE Promise!RInit
      OBVIOUS
    <2>1. \A n \in Call : Phase(n) = "idle"
      BY DEF Init, Phase
    <2>2. QED
      BY <2>1 DEF Promise!RInit
  <1>2. Inv /\ Inv' /\ [Next]_vars => [Promise!RNext]_[n \in Call |-> Phase(n)]
    BY PhasesStep DEF Phases
  <1>3. QED
    BY <1>1, <1>2, InvInit, InvNext, PTL DEF Spec, ImplementsCall, Promise!RSpec
=============================================================================
