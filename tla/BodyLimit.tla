------------------------------ MODULE BodyLimit ------------------------------
(***************************************************************************)
(* app/body_limit.py: the middleware between the HTTP server and the       *)
(* handlers.  exchange[r] is one POST request: what the middleware counts  *)
(* (read, over, started, answered), where its handler is (pc), and what    *)
(* went out (wire).                                                        *)
(*                                                                         *)
(*   receiving -> parsed -> handling -> answer -> closed                   *)
(*   receiving -> cut (the parser was told that the client left)           *)
(*                                                                         *)
(* Every handler of this server reads a body to its end, or not at all.    *)
(***************************************************************************)
EXTENDS Integers, Sequences, FiniteSets

CONSTANTS
    Requests,      \* requests that can be in progress at the same time
    Routes,        \* paths that take a body
    Exempt,        \* those in exempt_paths
    ChunkSizes,    \* lengths of the messages a body arrives in
    MaxBytes,      \* max_bytes
    MaxSent        \* bound: length of a body

ASSUME RoutesAssumption == Routes # {} /\ Exempt \subseteq Routes
ASSUME SizesAssumption ==
    ChunkSizes \subseteq Nat /\ MaxBytes \in Nat /\ MaxSent \in Nat

VARIABLE exchange

ExchangePC == {"free", "receiving", "parsed", "cut", "handling", "answer", "closed"}

\* read counts what arrived, seen what was handed to the handler.  Histories:
\* cut, the body ended early, by the limit or because its client left; served,
\* the handler acted on the request.
Exchange == [ pc       : ExchangePC,
              route    : Routes,
              read     : Nat,
              seen     : Nat,
              over     : BOOLEAN,
              cut      : BOOLEAN,
              started  : BOOLEAN,
              answered : BOOLEAN,
              served   : BOOLEAN,
              wire     : Seq({"response", "413", "500", "end"}) ]

LimitTypeOK == exchange \in [Requests -> Exchange]

Fresh(route) == [pc |-> "receiving", route |-> route, read |-> 0, seen |-> 0, over |-> FALSE,
                 cut |-> FALSE, started |-> FALSE, answered |-> FALSE, served |-> FALSE,
                 wire |-> <<>>]

Free == [Fresh(CHOOSE t \in Routes : TRUE) EXCEPT !.pc = "free"]

LimitInit == exchange = [r \in Requests |-> Free]

Limited(x) == x.route \notin Exempt

Reached(r, l) == exchange[r].pc = l

Advance(r, l) == exchange' = [exchange EXCEPT ![r].pc = l]

-----------------------------------------------------------------------------
\* A request whose declared length is within the limit, or that declares none.
Accept(r, route) ==
    /\ exchange[r].pc \in {"free", "closed"}
    /\ exchange' = [exchange EXCEPT ![r] = Fresh(route)]

\* A declared length over the limit: refused on the header.
RefuseDeclared(r, route) ==
    /\ exchange[r].pc \in {"free", "closed"}
    /\ route \notin Exempt
    /\ exchange' = [exchange EXCEPT ![r] =
          [Fresh(route) EXCEPT !.pc = "closed", !.wire = <<"413", "end">>]]

\* Mutant: only the message that just arrived is compared with the limit.
ReceiveCountingOne(r, n, more) ==
    /\ Reached(r, "receiving")
    /\ exchange[r].read + n <= MaxSent
    /\ LET x    == exchange[r]
           over == Limited(x) /\ n > MaxBytes
           next == IF over THEN "cut" ELSE IF more THEN "receiving" ELSE "parsed"
       IN  exchange' = [exchange EXCEPT ![r] =
              [x EXCEPT !.pc = next, !.read = @ + n, !.over = over, !.cut = over,
                        !.seen = IF over THEN @ ELSE @ + n]]

\* Mutant: past the limit the body just ends, and the handler reads on.
ReceiveTruncating(r, n, more) ==
    /\ Reached(r, "receiving")
    /\ exchange[r].read + n <= MaxSent
    /\ LET x    == exchange[r]
           over == Limited(x) /\ x.read + n > MaxBytes
           next == IF more /\ ~over THEN "receiving" ELSE "parsed"
       IN  exchange' = [exchange EXCEPT ![r] =
              [x EXCEPT !.pc = next, !.read = @ + n, !.over = over, !.cut = over,
                        !.seen = IF over THEN @ ELSE @ + n]]

\* counting_receive: n more bytes.  Past the limit the parser is handed a
\* disconnect in their place.
Receive(r, n, more) ==
    /\ Reached(r, "receiving")
    /\ exchange[r].read + n <= MaxSent
    /\ LET x    == exchange[r]
           over == Limited(x) /\ x.read + n > MaxBytes
           next == IF over THEN "cut" ELSE IF more THEN "receiving" ELSE "parsed"
       IN  exchange' = [exchange EXCEPT ![r] =
              [x EXCEPT !.pc = next, !.read = @ + n, !.over = over, !.cut = over,
                        !.seen = IF over THEN @ ELSE @ + n]]

\* Mutant: a client that leaves is taken for the end of its body.
DisconnectAsEnd(r) ==
    /\ Reached(r, "receiving")
    /\ exchange' = [exchange EXCEPT ![r].pc = "parsed", ![r].cut = TRUE]

\* The client leaves while the body is read; later nobody listens for that.
Disconnect(r) ==
    /\ Reached(r, "receiving")
    /\ exchange' = [exchange EXCEPT ![r].pc = "cut", ![r].cut = TRUE]

\* Mutant: the refusal is not remembered, and the end of the call repeats it.
SendForgetting(x, message) ==
    IF Limited(x) /\ x.over
    THEN IF x.started THEN [x EXCEPT !.wire = Append(@, message)]
         ELSE [x EXCEPT !.wire = @ \o <<"413", "end">>]
    ELSE [x EXCEPT !.started = @ \/ message = "response", !.wire = Append(@, message)]

\* guarded_send: what the handler says after the limit was passed is
\* replaced by one refusal, unless its response had begun.
GuardedSend(x, message) ==
    IF Limited(x) /\ x.over
    THEN IF x.started THEN [x EXCEPT !.wire = Append(@, message)]
         ELSE IF x.answered THEN x
         ELSE [x EXCEPT !.answered = TRUE, !.wire = @ \o <<"413", "end">>]
    ELSE [x EXCEPT !.started = @ \/ message = "response", !.wire = Append(@, message)]

\* The call of the handler is over: a 413 it left unsaid is sent.
Returned(x) ==
    IF Limited(x) /\ x.over /\ ~x.started /\ ~x.answered
    THEN [x EXCEPT !.pc = "closed", !.answered = TRUE, !.wire = @ \o <<"413", "end">>]
    ELSE [x EXCEPT !.pc = "closed"]

\* An exception leaves the middleware: ServerErrorMiddleware, outside it,
\* answers 500 unless a response has begun.
Raised(x) == [x EXCEPT !.pc = "closed", !.wire = IF @ = <<>> THEN <<"500", "end">> ELSE @]

\* A handler answers with two messages, between which nothing of the exchange
\* can change, and returns.
Answer(r) ==
    /\ Reached(r, "answer")
    /\ exchange' = [exchange EXCEPT ![r] =
          Returned(GuardedSend(GuardedSend(@, "response"), "end"))]

\* The parser's ClientDisconnect leaves the handler.  The middleware keeps it
\* when it was the one to cut the body.
HandlerCut(r) ==
    /\ Reached(r, "cut")
    /\ exchange' = [exchange EXCEPT ![r] = IF Limited(@) /\ @.over THEN Returned(@) ELSE Raised(@)]
=============================================================================
