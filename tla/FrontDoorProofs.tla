--------------------------- MODULE FrontDoorProofs ---------------------------
(***************************************************************************)
(* Proofs about FrontDoor, for any number of requests, routes, accounts,   *)
(* passwords, chunk sizes, commands, failed calls, stops and starts.       *)
(***************************************************************************)
EXTENDS FrontDoor, DataFacts

(***************************************************************************)
(* The exchanges.  OneResponse, NothingPastLimit and CutFormSignsNobodyIn  *)
(* follow from what holds of one exchange at each stage (Sound): nothing   *)
(* is on the wire before the handler answers; only a registration answers  *)
(* after its body was cut; and a password is only being verified for a     *)
(* form that arrived whole (VerifiedWhole).                                *)
(***************************************************************************)
Complete(x) ==
    \/ x.wire = <<"response", "end">> /\ (x.over => x.started)
    \/ x.wire = <<"413", "end">> /\ (x.over \/ x.read = 0)
    \/ x.wire = <<"500", "end">> /\ ~x.over

Sound(x) ==
    /\ x \in Exchange
    /\ x.over => Limited(x) /\ x.cut
    /\ x.cut => x.pc \in {"cut", "answer", "closed"}
    /\ x.pc # "closed" => x.wire = <<>> /\ ~x.started /\ ~x.answered
    /\ x.pc = "closed" => Complete(x)
    /\ x.seen <= x.read
    /\ Limited(x) => x.seen <= MaxBytes
    /\ x.pc \in {"receiving", "cut"} => ~x.served
    /\ x.cut /\ x.route # "register" => ~x.served /\ x.pc # "answer"

VerifiedWhole == \A r \in Requests : exchange[r].pc # "handling" => attempt[r] = NoAttempt

ExchangeInv ==
    /\ exchange \in [Requests -> Exchange]
    /\ attempt \in [Attempts -> Attempt]
    /\ \A r \in Requests : Sound(exchange[r])
    /\ VerifiedWhole

-----------------------------------------------------------------------------
(* What can be on the wire.                                                *)

LEMMA AppendSecond ==
  ASSUME NEW a, NEW b
  PROVE  Append(<<a>>, b) = <<a, b>>
<1> DEFINE S == {a, b}
           s == Append(<<a>>, b)
           t == <<a, b>>
<1>1. <<a>> \in Seq(S) /\ b \in S /\ t \in Seq(S) /\ Len(<<a>>) = 1
  OBVIOUS
<1>2. <<a>>[1] = a /\ t[1] = a /\ t[2] = b /\ Len(t) = 2
  OBVIOUS
<1>3. s \in Seq(S) /\ Len(s) = 2 /\ s[1] = a /\ s[2] = b
  BY <1>1, <1>2, AppendProperties
<1> HIDE DEF S, s, t
<1>4. s = t
  BY <1>1, <1>2, <1>3, SeqEqual
<1> QED
  BY <1>4 DEF s, t

Message == {"response", "413", "500", "end"}

LEMMA Wires ==
  /\ <<"413", "end">> \in Seq(Message) /\ <<"500", "end">> \in Seq(Message)
  /\ <<"response">> \in Seq(Message) /\ <<"response", "end">> \in Seq(Message)
  /\ <<>> \o <<"413", "end">> = <<"413", "end">>
  /\ Append(<<>>, "response") = <<"response">>
  /\ Append(<<"response">>, "end") = <<"response", "end">>
<1>1. \A a, b \in Message : <<a>> \in Seq(Message) /\ <<a, b>> \in Seq(Message)
  OBVIOUS
<1>2. "413" \in Message /\ "500" \in Message /\ "end" \in Message /\ "response" \in Message
  BY DEF Message
<1>3. \A a \in Message : Append(<<>>, a) = <<a>>
  OBVIOUS
<1> HIDE DEF Message
<1>4. <<>> \o <<"413", "end">> = <<"413", "end">>
  BY <1>1, <1>2, ConcatEmptySeq
<1> QED
  BY <1>1, <1>2, <1>3, <1>4, AppendSecond

LEMMA ExchangeMessages ==
  Exchange = [ pc : ExchangePC, route : Routes, read : Nat, seen : Nat, over : BOOLEAN,
               cut : BOOLEAN, started : BOOLEAN, answered : BOOLEAN, served : BOOLEAN, wire : Seq(Message) ]
  BY DEF Exchange, Message

LEMMA Stages ==
  \A l \in {"free", "receiving", "parsed", "cut", "handling", "answer", "closed"} : l \in ExchangePC
  BY DEF ExchangePC

-----------------------------------------------------------------------------
(* The steps of one exchange.                                              *)

LEMMA NoAttemptType == NoAttempt \in Attempt
  BY DEF NoAttempt, Attempt, AttemptPC

LEMMA FreshSound ==
  ASSUME NEW t \in Routes
  PROVE  Fresh(t) \in Exchange /\ Sound(Fresh(t))
<1>1. Fresh(t) \in Exchange
  BY DEF Fresh, Exchange, ExchangePC
<1> QED
  BY <1>1, SizesAssumption DEF Fresh, Sound, Limited

LEMMA FreeSound == Free \in Exchange /\ Sound(Free)
<1> DEFINE t == CHOOSE u \in Routes : TRUE
<1>1. t \in Routes
  BY RoutesAssumption
<1>2. Free = [Fresh(t) EXCEPT !.pc = "free"]
  BY DEF Free
<1> HIDE DEF t
<1>3. Fresh(t) \in Exchange /\ Sound(Fresh(t)) /\ Fresh(t).pc = "receiving"
  BY <1>1, FreshSound DEF Fresh
<1>4. "free" \in ExchangePC
  BY Stages
<1>5. /\ Free \in Exchange /\ Free.pc = "free" /\ Free.route = Fresh(t).route
      /\ Free.wire = Fresh(t).wire /\ Free.started = Fresh(t).started
      /\ Free.answered = Fresh(t).answered /\ Free.read = Fresh(t).read
      /\ Free.over = Fresh(t).over /\ Free.cut = Fresh(t).cut /\ Free.seen = Fresh(t).seen
  BY <1>2, <1>3, <1>4, ExchangeMessages
<1> QED
  BY <1>3, <1>5 DEF Sound, Limited

LEMMA RefusedSound ==
  ASSUME NEW t \in Routes,
         NEW y, y = [Fresh(t) EXCEPT !.pc = "closed", !.wire = <<"413", "end">>]
  PROVE  y \in Exchange /\ Sound(y)
<1> DEFINE w == <<"413", "end">>
<1>1. Fresh(t) \in Exchange /\ "closed" \in ExchangePC /\ w \in Seq(Message)
  BY FreshSound, Wires, Stages
<1>3. y.wire = w /\ y.pc = "closed" /\ ~y.over /\ ~y.cut /\ y.seen = 0 /\ y.read = 0
  BY DEF Fresh
<1>4. y \in Exchange
  <2>1. y = [Fresh(t) EXCEPT !.pc = "closed", !.wire = w]
    OBVIOUS
  <2> HIDE DEF w
  <2> QED
    BY <1>1, <2>1, ExchangeMessages
<1> QED
  BY <1>3, <1>4, SizesAssumption DEF Sound, Complete, w

LEMMA ReceivedSound ==
  ASSUME NEW x, Sound(x), x.pc = "receiving", NEW n \in Nat, NEW more \in BOOLEAN,
         NEW over, over = (Limited(x) /\ x.read + n > MaxBytes),
         NEW next, next = IF over THEN "cut" ELSE IF more THEN "receiving" ELSE "parsed",
         NEW y, y = [x EXCEPT !.pc = next, !.read = @ + n, !.over = over, !.cut = over,
                              !.seen = IF over THEN @ ELSE @ + n]
  PROVE  y \in Exchange /\ Sound(y)
<1> DEFINE a == x.read + n
           b == IF over THEN x.seen ELSE x.seen + n
<1>1. x \in Exchange /\ over \in BOOLEAN /\ next \in ExchangePC
  BY DEF Sound, ExchangePC
<1>2. x.read \in Nat /\ x.seen \in Nat /\ ~x.over
  BY <1>1 DEF Exchange, Sound
<1>3. a \in Nat /\ b \in Nat
  BY <1>2
<1>4. y = [x EXCEPT !.pc = next, !.read = a, !.over = over, !.cut = over, !.seen = b]
  BY <1>1
<1>5. a = x.read + n /\ b = (IF over THEN x.seen ELSE x.seen + n)
  OBVIOUS
<1> HIDE DEF a, b
<1>6. /\ y \in Exchange /\ y.pc = next /\ y.read = a /\ y.over = over /\ y.cut = over /\ y.seen = b
      /\ y.route = x.route /\ y.wire = x.wire /\ y.served = x.served
      /\ y.started = x.started /\ y.answered = x.answered
  BY <1>1, <1>3, <1>4, ExchangeMessages
<1>7. Limited(y) = Limited(x)
  BY <1>6 DEF Limited
<1>8. x.wire = <<>> /\ ~x.started /\ ~x.answered /\ ~x.served /\ x.seen <= x.read
      /\ (Limited(x) => x.seen <= MaxBytes)
  BY DEF Sound
<1>9. y.seen <= y.read /\ (Limited(y) => y.seen <= MaxBytes)
  <2>1. ~over /\ Limited(x) => ~(x.read + n > MaxBytes)
    BY Zenon
  <2>2. b <= a
    BY <1>2, <1>5, <1>8
  <2>3. ASSUME Limited(x) PROVE b <= MaxBytes
    BY <1>2, <1>5, <1>8, <2>1, <2>3, SizesAssumption
  <2> QED
    BY <1>6, <1>7, <2>2, <2>3
<1>10. (y.over => Limited(y) /\ y.cut) /\ (y.cut => y.pc = "cut")
  <2>1. over => Limited(x) /\ next = "cut"
    BY Zenon
  <2> QED
    BY <1>6, <1>7, <2>1, Zenon
<1>11. y.pc \in {"cut", "receiving", "parsed"}
  BY <1>6
<1>12. y.wire = <<>> /\ ~y.started /\ ~y.answered /\ ~y.served
  BY <1>6, <1>8
<1>13. Sound(y)
  BY <1>6, <1>9, <1>10, <1>11, <1>12, Zenon DEF Sound
<1> QED
  BY <1>6, <1>13

\* A step of the handler that says nothing yet.
LEMMA MovedSound ==
  ASSUME NEW x, Sound(x), NEW l \in {"handling", "answer"}, NEW s \in BOOLEAN,
         x.pc \in {"receiving", "parsed", "handling", "cut"},
         x.cut => l = "answer" /\ x.route = "register",
         NEW y, y = [x EXCEPT !.pc = l, !.served = s]
  PROVE  y \in Exchange /\ Sound(y)
<1>1. x \in Exchange /\ l \in ExchangePC
  BY DEF Sound, ExchangePC
<1>2. y \in Exchange
  BY <1>1 DEF Exchange
<1>3. y.pc = l /\ y.route = x.route /\ y.read = x.read /\ y.over = x.over /\ y.wire = x.wire
      /\ y.cut = x.cut /\ y.seen = x.seen /\ y.served = s /\ y.started = x.started /\ y.answered = x.answered
  BY <1>1 DEF Exchange
<1>4. Limited(y) = Limited(x)
  BY <1>3 DEF Limited
<1> QED
  BY <1>2, <1>3, <1>4 DEF Sound

\* The client leaves.
LEMMA DisconnectedSound ==
  ASSUME NEW x, Sound(x), x.pc = "receiving",
         NEW y, y = [x EXCEPT !.pc = "cut", !.cut = TRUE]
  PROVE  y \in Exchange /\ Sound(y)
<1>1. x \in Exchange /\ "cut" \in ExchangePC
  BY Stages DEF Sound
<1>2. y \in Exchange
  BY <1>1 DEF Exchange
<1>3. /\ y.pc = "cut" /\ y.cut /\ y.route = x.route /\ y.read = x.read /\ y.over = x.over
      /\ y.wire = x.wire /\ y.seen = x.seen /\ y.served = x.served
      /\ y.started = x.started /\ y.answered = x.answered
  BY <1>1 DEF Exchange
<1>4. Limited(y) = Limited(x)
  BY <1>3 DEF Limited
<1> QED
  BY <1>2, <1>3, <1>4 DEF Sound

\* An end of the exchange with a complete response.
LEMMA ClosedSound ==
  ASSUME NEW x, Sound(x), NEW y, y \in Exchange, y.pc = "closed", Complete(y),
         y.route = x.route, y.read = x.read, y.over = x.over, y.cut = x.cut, y.seen = x.seen,
         y.served = x.served
  PROVE  Sound(y)
  BY DEF Sound, Limited

LEMMA RaisedSound ==
  ASSUME NEW x, Sound(x), x.pc # "closed", ~x.over
  PROVE  Raised(x) \in Exchange /\ Sound(Raised(x))
<1> DEFINE w == <<"500", "end">>
           y == [x EXCEPT !.pc = "closed", !.started = FALSE, !.answered = FALSE, !.wire = w]
<1>1. x \in Exchange /\ x.wire = <<>> /\ ~x.started /\ ~x.answered
  BY DEF Sound
<1>2. Raised(x) = [x EXCEPT !.pc = "closed", !.wire = w]
  BY <1>1 DEF Raised
<1>3. Raised(x) = y
  BY <1>1, <1>2 DEF Exchange
<1>4. y \in Exchange /\ y.pc = "closed" /\ y.wire = w /\ y.route = x.route /\ y.read = x.read
      /\ y.over = x.over /\ y.cut = x.cut /\ y.seen = x.seen /\ y.served = x.served
  <2>1. "closed" \in ExchangePC /\ w \in Seq(Message)
    BY Wires, Stages
  <2> HIDE DEF w
  <2> QED
    BY <1>1, <2>1, ExchangeMessages
<1>5. Complete(y)
  BY <1>4 DEF Complete
<1> HIDE DEF y
<1> QED
  BY <1>3, <1>4, <1>5, ClosedSound

\* The middleware sends the refusal the handler left unsaid.
LEMMA CutSound ==
  ASSUME NEW x, Sound(x), x.pc = "cut", x.over
  PROVE  Returned(x) \in Exchange /\ Sound(Returned(x))
<1> DEFINE w == <<"413", "end">>
           y == [x EXCEPT !.pc = "closed", !.started = FALSE, !.answered = TRUE, !.wire = w]
<1>1. x \in Exchange /\ x.wire = <<>> /\ Limited(x) /\ ~x.started /\ ~x.answered
  BY DEF Sound
<1>2. Returned(x) = [x EXCEPT !.pc = "closed", !.answered = TRUE, !.wire = w]
  BY <1>1, Wires DEF Returned
<1>3. Returned(x) = y
  BY <1>1, <1>2 DEF Exchange
<1>4. y \in Exchange /\ y.pc = "closed" /\ y.wire = w /\ y.route = x.route /\ y.read = x.read
      /\ y.over = x.over /\ y.cut = x.cut /\ y.seen = x.seen /\ y.served = x.served
  <2>1. "closed" \in ExchangePC /\ w \in Seq(Message)
    BY Wires, Stages
  <2> HIDE DEF w
  <2> QED
    BY <1>1, <2>1, ExchangeMessages
<1>5. Complete(y)
  BY <1>4 DEF Complete
<1> HIDE DEF y
<1> QED
  BY <1>3, <1>4, <1>5, ClosedSound

\* The first message of a handler, the second, and its return.
LEMMA RefusalReplaces ==
  ASSUME NEW x, Sound(x), x.pc = "answer", x.over
  PROVE  Returned(GuardedSend(GuardedSend(x, "response"), "end"))
            = [x EXCEPT !.pc = "closed", !.started = FALSE, !.answered = TRUE,
                        !.wire = <<"413", "end">>]
<1> DEFINE z == [x EXCEPT !.answered = TRUE, !.wire = <<"413", "end">>]
<1>1. x \in Exchange /\ x.wire = <<>> /\ ~x.started /\ ~x.answered /\ Limited(x)
  BY DEF Sound
<1>2. GuardedSend(x, "response") = z
  BY <1>1, Wires DEF GuardedSend
<1>3. z.over /\ z.answered /\ ~z.started /\ Limited(z)
  BY <1>1 DEF Exchange, Limited
<1>4. GuardedSend(z, "end") = z /\ Returned(z) = [z EXCEPT !.pc = "closed"]
  BY <1>3 DEF GuardedSend, Returned
<1>5. [z EXCEPT !.pc = "closed"] = [x EXCEPT !.pc = "closed", !.started = FALSE,
                                             !.answered = TRUE, !.wire = <<"413", "end">>]
  BY <1>1 DEF Exchange
<1> HIDE DEF z
<1> QED
  BY <1>2, <1>4, <1>5

LEMMA ResponseStands ==
  ASSUME NEW x, Sound(x), x.pc = "answer", ~x.over
  PROVE  Returned(GuardedSend(GuardedSend(x, "response"), "end"))
            = [x EXCEPT !.pc = "closed", !.started = TRUE, !.answered = FALSE,
                        !.wire = <<"response", "end">>]
<1> DEFINE z == [x EXCEPT !.started = TRUE, !.wire = <<"response">>]
           v == [x EXCEPT !.started = TRUE, !.wire = <<"response", "end">>]
<1>1. x \in Exchange /\ x.wire = <<>> /\ ~x.started /\ ~x.answered
  BY DEF Sound
<1>2. GuardedSend(x, "response") = z
  BY <1>1, Wires DEF GuardedSend, Exchange
<1>3. ~z.over /\ z.started /\ z.wire = <<"response">>
  BY <1>1 DEF Exchange
<1>4. GuardedSend(z, "end") = [z EXCEPT !.started = TRUE, !.wire = <<"response", "end">>]
  BY <1>3, Wires DEF GuardedSend
<1>5. GuardedSend(z, "end") = v
  BY <1>1, <1>4 DEF Exchange
<1>6. ~v.over
  BY <1>1 DEF Exchange
<1>7. Returned(v) = [v EXCEPT !.pc = "closed"]
  BY <1>6 DEF Returned
<1> QED
  BY <1>1, <1>2, <1>5, <1>7 DEF Exchange

\* What the handler says becomes one response: its own, or the refusal.
LEMMA AnswerSound ==
  ASSUME NEW x, Sound(x), x.pc = "answer",
         NEW y, y = Returned(GuardedSend(GuardedSend(x, "response"), "end"))
  PROVE  y \in Exchange /\ Sound(y)
<1>1. x \in Exchange
  BY DEF Sound
<1>2. CASE x.over
  <2>1. y \in Exchange /\ y.pc = "closed" /\ y.wire = <<"413", "end">> /\ y.route = x.route
        /\ y.read = x.read /\ y.over = x.over /\ y.cut = x.cut /\ y.seen = x.seen
        /\ y.served = x.served
    <3> DEFINE w == <<"413", "end">>
    <3>1. "closed" \in ExchangePC /\ w \in Seq(Message)
      BY Wires, Stages
    <3>2. y = [x EXCEPT !.pc = "closed", !.started = FALSE, !.answered = TRUE, !.wire = w]
      BY <1>2, RefusalReplaces
    <3>3. w = <<"413", "end">>
      OBVIOUS
    <3> HIDE DEF w
    <3> QED
      BY <1>1, <3>1, <3>2, <3>3, ExchangeMessages
  <2> QED
    BY <1>2, <2>1, ClosedSound DEF Complete
<1>3. CASE ~x.over
  <2>1. y \in Exchange /\ y.pc = "closed" /\ y.wire = <<"response", "end">> /\ y.started
        /\ y.route = x.route /\ y.read = x.read /\ y.over = x.over /\ y.cut = x.cut
        /\ y.seen = x.seen /\ y.served = x.served
    <3> DEFINE w == <<"response", "end">>
    <3>1. "closed" \in ExchangePC /\ w \in Seq(Message)
      BY Wires, Stages
    <3>2. y = [x EXCEPT !.pc = "closed", !.started = TRUE, !.answered = FALSE, !.wire = w]
      BY <1>3, ResponseStands
    <3>3. w = <<"response", "end">>
      OBVIOUS
    <3> HIDE DEF w
    <3> QED
      BY <1>1, <3>1, <3>2, <3>3, ExchangeMessages
  <2> QED
    BY <1>3, <2>1, ClosedSound DEF Complete
<1> QED
  BY <1>2, <1>3

-----------------------------------------------------------------------------
(* The exchanges of a server.                                              *)

\* One exchange changes, to a sound one that verifies nothing unless it handles.
LEMMA OneExchange ==
  ASSUME ExchangeInv, NEW r \in Requests, NEW y, y \in Exchange, Sound(y),
         exchange' = [exchange EXCEPT ![r] = y],
         attempt' \in [Attempts -> Attempt],
         \A q \in Requests : q # r => attempt'[q] = attempt[q],
         y.pc # "handling" => attempt'[r] = NoAttempt
  PROVE  ExchangeInv'
  BY DEF ExchangeInv, VerifiedWhole

LEMMA SameExchange ==
  ASSUME ExchangeInv, exchange' = exchange, attempt' = attempt
  PROVE  ExchangeInv'
  BY DEF ExchangeInv, VerifiedWhole

\* An attempt that ends, or none.
LEMMA AttemptEnds ==
  ASSUME ExchangeInv, NEW r \in Requests, attempt' = [attempt EXCEPT ![r] = NoAttempt]
  PROVE  /\ attempt' \in [Attempts -> Attempt]
         /\ \A q \in Requests : q # r => attempt'[q] = attempt[q]
         /\ attempt'[r] = NoAttempt
  BY NoAttemptType, SlotsAssumption DEF ExchangeInv

LEMMA OpenKeeps ==
  ASSUME ExchangeInv, NEW r \in Requests, Open(r)
  PROVE  ExchangeInv'
<1>1. attempt' = attempt
  BY DEF Open, accountVars
<1>2. PICK t \in Routes : Accept(r, t) \/ RefuseDeclared(r, t)
  BY DEF Open
<1>3. exchange[r].pc # "handling"
  BY <1>2 DEF Accept, RefuseDeclared
<1>4. attempt' \in [Attempts -> Attempt] /\ attempt'[r] = NoAttempt
  BY <1>1, <1>3 DEF ExchangeInv, VerifiedWhole
<1>5. PICK y : y \in Exchange /\ Sound(y) /\ exchange' = [exchange EXCEPT ![r] = y]
  BY <1>2, FreshSound, RefusedSound DEF Accept, RefuseDeclared
<1> QED
  BY <1>1, <1>4, <1>5, OneExchange

LEMMA TransferKeeps ==
  ASSUME ExchangeInv, NEW r \in Requests, Transfer(r)
  PROVE  ExchangeInv'
<1> DEFINE x == exchange[r]
<1>1. attempt' = attempt /\ attempt \in [Attempts -> Attempt] /\ Sound(x) /\ x \in Exchange
  BY DEF Transfer, accountVars, ExchangeInv
<1>2. x.pc # "handling" /\ (exchange[r].pc # "handling" => attempt[r] = NoAttempt)
  BY DEF Transfer, Receive, Disconnect, HandlerCut, Answer, Reached, ExchangeInv, VerifiedWhole
<1>3. \E y : y \in Exchange /\ Sound(y) /\ exchange' = [exchange EXCEPT ![r] = y]
  <2>1. ASSUME NEW n \in ChunkSizes, NEW more \in BOOLEAN, Receive(r, n, more)
        PROVE  \E y : y \in Exchange /\ Sound(y) /\ exchange' = [exchange EXCEPT ![r] = y]
    <3> DEFINE over == Limited(x) /\ x.read + n > MaxBytes
               next == IF over THEN "cut" ELSE IF more THEN "receiving" ELSE "parsed"
               y == [x EXCEPT !.pc = next, !.read = @ + n, !.over = over, !.cut = over,
                              !.seen = IF over THEN @ ELSE @ + n]
    <3>1. exchange' = [exchange EXCEPT ![r] = y] /\ x.pc = "receiving"
      BY <2>1 DEF Receive, Reached
    <3>2. n \in Nat
      BY SizesAssumption
    <3>3. y \in Exchange /\ Sound(y)
      BY <1>1, <3>1, <3>2, ReceivedSound
    <3> QED
      BY <3>1, <3>3
  <2>2. ASSUME Disconnect(r)
        PROVE  \E y : y \in Exchange /\ Sound(y) /\ exchange' = [exchange EXCEPT ![r] = y]
    <3> DEFINE y == [x EXCEPT !.pc = "cut", !.cut = TRUE]
    <3>1. x.pc = "receiving" /\ exchange' = [exchange EXCEPT ![r] = y]
      BY <2>2 DEF Disconnect, Reached
    <3>2. y \in Exchange /\ Sound(y)
      BY <1>1, <3>1, DisconnectedSound
    <3> QED
      BY <3>1, <3>2
  <2>3. ASSUME HandlerCut(r)
        PROVE  \E y : y \in Exchange /\ Sound(y) /\ exchange' = [exchange EXCEPT ![r] = y]
    <3>1. x.pc = "cut" /\ (x.over => Limited(x))
      BY <1>1, <2>3 DEF HandlerCut, Reached, Sound
    <3>2. CASE x.over
      BY <1>1, <2>3, <3>1, <3>2, CutSound DEF HandlerCut
    <3>3. CASE ~x.over
      BY <1>1, <2>3, <3>1, <3>3, RaisedSound DEF HandlerCut
    <3> QED
      BY <3>2, <3>3
  <2>4. ASSUME Answer(r)
        PROVE  \E y : y \in Exchange /\ Sound(y) /\ exchange' = [exchange EXCEPT ![r] = y]
    <3> DEFINE y == Returned(GuardedSend(GuardedSend(x, "response"), "end"))
    <3>1. exchange' = [exchange EXCEPT ![r] = y] /\ x.pc = "answer"
      BY <2>4 DEF Answer, Reached
    <3>2. y \in Exchange /\ Sound(y)
      BY <1>1, <3>1, AnswerSound
    <3> QED
      BY <3>1, <3>2
  <2> QED
    BY <2>1, <2>2, <2>3, <2>4 DEF Transfer
<1>4. PICK y : y \in Exchange /\ Sound(y) /\ exchange' = [exchange EXCEPT ![r] = y]
  BY <1>3
<1> QED
  BY <1>1, <1>2, <1>4, OneExchange

\* The form of a sign-in is handled by one attempt, from its start to its end.
LEMMA SignInKeeps ==
  ASSUME ExchangeInv, NEW r \in Requests, NEW n \in Names, NEW p \in Passwords, SignIn(r, n, p)
  PROVE  ExchangeInv'
<1> DEFINE x == exchange[r]
           y == [x EXCEPT !.pc = "handling", !.served = TRUE]
           a == [NoAttempt EXCEPT !.pc = "lookup", !.name = n, !.password = p]
<1>1. Sound(x) /\ x.pc = "parsed" /\ exchange' = [exchange EXCEPT ![r] = y]
  BY DEF SignIn, Reached, ExchangeInv
<1>2. ~x.cut
  BY <1>1 DEF Sound
<1>3. y \in Exchange /\ Sound(y) /\ y.pc = "handling"
  BY <1>1, <1>2, MovedSound DEF Sound, Exchange
<1>4. a \in Attempt
  BY DEF NoAttempt, Attempt, AttemptPC
<1>5. attempt' = [attempt EXCEPT ![r] = a] /\ attempt \in [Attempts -> Attempt]
  BY DEF SignIn, StartAttempt, ExchangeInv
<1> HIDE DEF y, a
<1>6. attempt' \in [Attempts -> Attempt] /\ \A q \in Requests : q # r => attempt'[q] = attempt[q]
  BY <1>4, <1>5, SlotsAssumption
<1> QED
  BY <1>1, <1>3, <1>6, OneExchange

\* A step of the handler whose attempt is over, or that had none.
LEMMA AnswersKeep ==
  ASSUME ExchangeInv, NEW r \in Requests, NEW y, y \in Exchange, Sound(y),
         exchange' = [exchange EXCEPT ![r] = y],
         \/ attempt' = attempt /\ exchange[r].pc # "handling"
         \/ attempt' = [attempt EXCEPT ![r] = NoAttempt]
  PROVE  ExchangeInv'
<1>1. /\ attempt' \in [Attempts -> Attempt]
      /\ \A q \in Requests : q # r => attempt'[q] = attempt[q]
      /\ attempt'[r] = NoAttempt
  BY AttemptEnds DEF ExchangeInv, VerifiedWhole
<1> QED
  BY <1>1, OneExchange

LEMMA AnsweredSound ==
  ASSUME NEW x, Sound(x), x.pc \in {"receiving", "parsed", "handling"}
  PROVE  [x EXCEPT !.pc = "answer"] \in Exchange /\ Sound([x EXCEPT !.pc = "answer"])
<1>1. x \in Exchange /\ ~x.cut /\ x.served \in BOOLEAN
  BY DEF Sound, Exchange
<1>2. [x EXCEPT !.pc = "answer"] = [x EXCEPT !.pc = "answer", !.served = x.served]
  BY <1>1 DEF Exchange
<1> QED
  BY <1>1, <1>2, MovedSound

LEMMA AnswerOnlyKeeps ==
  ASSUME ExchangeInv, NEW r \in Requests, AnswerOnly(r)
  PROVE  ExchangeInv'
<1> DEFINE x == exchange[r]
           y == [x EXCEPT !.pc = "answer"]
<1>1. Sound(x) /\ x.pc \in {"receiving", "parsed"} /\ exchange' = [exchange EXCEPT ![r] = y]
  BY DEF AnswerOnly, Reached, Advance, ExchangeInv
<1>2. y \in Exchange /\ Sound(y)
  BY <1>1, AnsweredSound
<1>3. attempt' = attempt
  BY DEF AnswerOnly, accountVars
<1> QED
  BY <1>1, <1>2, <1>3, AnswersKeep

LEMMA RefuseRateKeeps ==
  ASSUME ExchangeInv, NEW r \in Requests, NEW ip, NEW inserted, NEW counted,
         RefuseRate(r, ip, inserted, counted)
  PROVE  ExchangeInv'
<1> DEFINE x == exchange[r]
           y == [x EXCEPT !.pc = "answer", !.served = TRUE]
<1>1. Sound(x) /\ x.pc = "parsed" /\ exchange' = [exchange EXCEPT ![r] = y] /\ attempt' = attempt
  BY DEF RefuseRate, Reached, ExchangeInv
<1>2. ~x.cut
  BY <1>1 DEF Sound
<1>3. y \in Exchange /\ Sound(y)
  BY <1>1, <1>2, MovedSound
<1> QED
  BY <1>1, <1>3, AnswersKeep

LEMMA RefusePasswordKeeps ==
  ASSUME ExchangeInv, NEW r \in Requests, NEW ip, NEW inserted, NEW counted,
         RefusePassword(r, ip, inserted, counted)
  PROVE  ExchangeInv'
<1> DEFINE x == exchange[r]
           y == [x EXCEPT !.pc = "answer"]
<1>1. /\ Sound(x) /\ x.pc = "handling" /\ exchange' = [exchange EXCEPT ![r] = y]
      /\ attempt' = [attempt EXCEPT ![r] = NoAttempt]
  BY DEF RefusePassword, Reached, Advance, ExchangeInv
<1>2. y \in Exchange /\ Sound(y)
  BY <1>1, AnsweredSound
<1> QED
  BY <1>1, <1>2, AnswersKeep

LEMMA ConcludeKeeps ==
  ASSUME ExchangeInv, NEW r \in Requests, Conclude(r)
  PROVE  ExchangeInv'
<1> DEFINE x == exchange[r]
           y == IF Attempting(r, "error") THEN Raised(x) ELSE [x EXCEPT !.pc = "answer"]
<1>1. /\ Sound(x) /\ x.pc = "handling" /\ exchange' = [exchange EXCEPT ![r] = y]
      /\ attempt' = [attempt EXCEPT ![r] = NoAttempt]
  BY DEF Conclude, Reached, ExchangeInv
<1>2. ~x.over
  BY <1>1 DEF Sound
<1>3. y \in Exchange /\ Sound(y)
  BY <1>1, <1>2, AnsweredSound, RaisedSound
<1> QED
  BY <1>1, <1>3, AnswersKeep

LEMMA RegisterKeeps ==
  ASSUME ExchangeInv, NEW r \in Requests, NEW ok \in BOOLEAN, Register(r, ok)
  PROVE  ExchangeInv'
<1> DEFINE x == exchange[r]
           y == [x EXCEPT !.pc = "answer", !.served = ok]
<1>1. /\ Sound(x) /\ x.pc \in {"parsed", "cut"} /\ x.route = "register"
      /\ exchange' = [exchange EXCEPT ![r] = y] /\ attempt' = attempt
  BY DEF Register, On, ExchangeInv
<1>2. y \in Exchange /\ Sound(y)
  BY <1>1, MovedSound DEF Sound
<1> QED
  BY <1>1, <1>2, AnswersKeep

LEMMA UnusableBodyKeeps ==
  ASSUME ExchangeInv, NEW r \in Requests, UnusableBody(r)
  PROVE  ExchangeInv'
<1> DEFINE x == exchange[r]
           y == Raised(x)
<1>1. /\ Sound(x) /\ x.pc = "parsed" /\ exchange' = [exchange EXCEPT ![r] = y]
      /\ attempt' = attempt
  BY DEF UnusableBody, Reached, accountVars, ExchangeInv
<1>2. ~x.over
  BY <1>1 DEF Sound
<1>3. y \in Exchange /\ Sound(y)
  BY <1>1, <1>2, RaisedSound
<1> HIDE DEF y
<1> QED
  BY <1>1, <1>3, AnswersKeep

-----------------------------------------------------------------------------
(* The accounts.  A verification that got past the comparison holds a      *)
(* password equal to one that was in the table when the row was read; that *)
(* one was chosen by an operator, and what was chosen is never unchosen.   *)
(* So the upgrade may write it at any later time.                          *)

AttemptSound(a) ==
    /\ a.pc # "none" => a.name \in Names /\ a.password \in Passwords
    /\ a.pc = "verify" => a.stored \in Hash /\ a.stored.password \in chosen[a.name]
    /\ a.pc \in {"rehash", "good"} => a.password \in chosen[a.name]

AccountInv ==
    /\ users \in [Names -> Hash \cup {NoAccount}]
    /\ chosen \in [Names -> SUBSET Passwords]
    /\ \A n \in Names : users[n] # NoAccount => users[n].password \in chosen[n]
    /\ attempt \in [Attempts -> Attempt]
    /\ \A r \in Attempts : AttemptSound(attempt[r])
    /\ cli.pc \in {"setup_create", "create", "reset"} => cli.name \in Names

LEMMA AccountsStart == AccountsInit => AccountInv
<1> SUFFICES ASSUME AccountsInit PROVE AccountInv
  OBVIOUS
<1>1. attempt = [r \in Attempts |-> NoAttempt] /\ cli.pc = "idle"
  BY DEF AccountsInit
<1>2. attempt \in [Attempts -> Attempt] /\ \A r \in Attempts : AttemptSound(attempt[r])
  BY <1>1, NoAttemptType DEF AttemptSound, NoAttempt
<1>3. PICK host \in {"bare", "started", "upgraded"}, old \in Passwords :
         /\ users = [n \in Names |-> IF host = "upgraded" /\ n = Admin
                                     THEN [password |-> old, current |-> FALSE] ELSE NoAccount]
         /\ chosen = [n \in Names |-> IF host = "upgraded" /\ n = Admin THEN {old} ELSE {}]
  BY DEF AccountsInit
<1>4. users \in [Names -> Hash \cup {NoAccount}] /\ chosen \in [Names -> SUBSET Passwords]
  BY <1>3 DEF Hash
<1>5. \A n \in Names : users[n] # NoAccount => users[n].password \in chosen[n]
  BY <1>3
<1> QED
  BY <1>1, <1>2, <1>4, <1>5 DEF AccountInv

\* One attempt changes, to a sound one, and nothing else of the accounts does.
LEMMA OneAttempt ==
  ASSUME AccountInv, NEW r \in Attempts, NEW a, a \in Attempt, AttemptSound(a),
         attempt' = [attempt EXCEPT ![r] = a], UNCHANGED <<users, chosen, cli>>
  PROVE  AccountInv'
  BY DEF AccountInv, AttemptSound

LEMMA NoAttemptSound == NoAttempt \in Attempt /\ AttemptSound(NoAttempt)
  BY NoAttemptType DEF AttemptSound, NoAttempt

LEMMA SameAccounts ==
  ASSUME AccountInv, UNCHANGED <<users, chosen, cli, attempt>>
  PROVE  AccountInv'
  BY DEF AccountInv, AttemptSound

LEMMA LookupKeeps ==
  ASSUME AccountInv, NEW r \in Attempts, NEW ok, Lookup(r, ok), UNCHANGED <<chosen, cli>>
  PROVE  AccountInv'
<1> DEFINE a == attempt[r]
           row == users[a.name]
           next == IF ~ok THEN "error" ELSE IF row = NoAccount THEN "bad" ELSE "verify"
           b == [a EXCEPT !.pc = next, !.stored = IF ok THEN row ELSE @]
<1>1. a \in Attempt /\ a.pc = "lookup" /\ a.name \in Names /\ a.password \in Passwords
  BY DEF AccountInv, AttemptSound, Lookup, Attempting
<1>2. row \in Hash \cup {NoAccount} /\ (row # NoAccount => row.password \in chosen[a.name])
  BY <1>1 DEF AccountInv
<1>3. b \in Attempt /\ b.pc = next /\ b.name = a.name /\ b.password = a.password
      /\ (next = "verify" => b.stored = row /\ row # NoAccount)
  BY <1>1, <1>2 DEF Attempt, AttemptPC
<1>4. next \notin {"rehash", "good"}
  OBVIOUS
<1>5. attempt' = [attempt EXCEPT ![r] = b] /\ users' = users
  BY DEF Lookup, AccountInv
<1> HIDE DEF a, row, next, b
<1>6. AttemptSound(b)
  BY <1>1, <1>2, <1>3, <1>4 DEF AttemptSound
<1> QED
  BY <1>3, <1>5, <1>6, OneAttempt

LEMMA VerifyKeeps ==
  ASSUME AccountInv, NEW r \in Attempts, Verify(r), UNCHANGED <<chosen, cli>>
  PROVE  AccountInv'
<1> DEFINE a == attempt[r]
           next == IF a.stored.password # a.password THEN "bad"
                   ELSE IF a.stored.current THEN "good" ELSE "rehash"
           b == [a EXCEPT !.pc = next]
<1>1. a \in Attempt /\ a.pc = "verify" /\ a.name \in Names /\ a.password \in Passwords
      /\ a.stored.password \in chosen[a.name]
  BY DEF AccountInv, AttemptSound, Verify, Attempting
<1>2. next # "bad" => a.password \in chosen[a.name]
  BY <1>1
<1>3. b \in Attempt /\ b.pc = next /\ b.name = a.name /\ b.password = a.password
  BY <1>1 DEF Attempt, AttemptPC
<1>4. next \in {"bad", "good", "rehash"}
  OBVIOUS
<1>5. attempt' = [attempt EXCEPT ![r] = b] /\ users' = users
  BY DEF Verify, AccountInv
<1> HIDE DEF a, next, b
<1>6. AttemptSound(b)
  BY <1>1, <1>2, <1>3, <1>4 DEF AttemptSound
<1> QED
  BY <1>3, <1>5, <1>6, OneAttempt

\* The upgrade writes a password that was chosen, over whatever is there.
LEMMA RehashKeeps ==
  ASSUME AccountInv, NEW r \in Attempts, NEW ok, Rehash(r, ok), UNCHANGED <<chosen, cli>>
  PROVE  AccountInv'
<1> DEFINE a == attempt[r]
           h == [password |-> a.password, current |-> TRUE]
           b == [a EXCEPT !.pc = "good"]
<1>1. a \in Attempt /\ a.name \in Names /\ a.password \in Passwords
      /\ a.password \in chosen[a.name]
  BY DEF AccountInv, AttemptSound, Rehash, Attempting
<1>2. b \in Attempt /\ b.pc = "good" /\ b.name = a.name /\ b.password = a.password
  BY <1>1 DEF Attempt, AttemptPC
<1>3. h \in Hash /\ h.password = a.password
  BY <1>1 DEF Hash
<1>4. attempt' = [attempt EXCEPT ![r] = b]
  BY DEF Rehash, AccountInv
<1>5. users' = [users EXCEPT ![a.name] = h] \/ users' = users
  BY DEF Rehash, SetPassword
<1> HIDE DEF a, h, b
<1>6. AttemptSound(b)
  BY <1>1, <1>2 DEF AttemptSound
<1>7. /\ users' \in [Names -> Hash \cup {NoAccount}]
      /\ \A n \in Names : users'[n] # NoAccount => users'[n].password \in chosen[n]
  BY <1>1, <1>3, <1>5 DEF AccountInv
<1>8. attempt' \in [Attempts -> Attempt] /\ \A q \in Attempts : AttemptSound(attempt'[q])
  BY <1>2, <1>4, <1>6 DEF AccountInv
<1> QED
  BY <1>7, <1>8 DEF AccountInv, AttemptSound

LEMMA VerifyUserKeeps ==
  ASSUME AccountInv, NEW r \in Attempts, VerifyUser(r), UNCHANGED <<chosen, cli>>
  PROVE  AccountInv'
  BY LookupKeeps, VerifyKeeps, RehashKeeps DEF VerifyUser

LEMMA EnterPasswordKeeps ==
  ASSUME AccountInv, NEW p \in Passwords, EnterPassword(p), UNCHANGED attempt
  PROVE  AccountInv'
<1> DEFINE n == cli.name
           h == [password |-> p, current |-> TRUE]
<1>1. n \in Names /\ h \in Hash /\ h.password = p
  BY DEF AccountInv, EnterPassword, Hash
<1>2. users' = [users EXCEPT ![n] = h] /\ chosen' = [chosen EXCEPT ![n] = @ \cup {p}]
      /\ cli'.pc = "idle"
  BY DEF EnterPassword, OperatorSets, SetPassword, CliGoto
<1> HIDE DEF n, h
<1>3. /\ chosen' \in [Names -> SUBSET Passwords] /\ p \in chosen'[n]
      /\ \A m \in Names : chosen[m] \subseteq chosen'[m]
  BY <1>1, <1>2 DEF AccountInv
<1>4. /\ users' \in [Names -> Hash \cup {NoAccount}]
      /\ \A m \in Names : users'[m] # NoAccount => users'[m].password \in chosen'[m]
  BY <1>1, <1>2, <1>3 DEF AccountInv
<1>5. \A r \in Attempts : AttemptSound(attempt[r])'
  BY <1>3 DEF AccountInv, AttemptSound
<1> QED
  BY <1>2, <1>3, <1>4, <1>5 DEF AccountInv

LEMMA OperateKeeps ==
  ASSUME AccountInv, Operate
  PROVE  AccountInv'
<1>1. attempt' = attempt
  BY DEF Operate
<1>2. CASE \E p \in Passwords : EnterPassword(p)
  BY <1>1, <1>2, EnterPasswordKeeps
<1>3. CASE RunSetup \/ SetupLookup \/ GiveUp \/ \E n \in Names : RunAddUser(n)
  <2>1. UNCHANGED <<users, chosen>>
    BY <1>3 DEF RunSetup, SetupLookup, GiveUp, RunAddUser
  <2>2. cli'.pc \in {"setup_create", "create", "reset"} => cli'.name \in Names
    BY <1>3, AdminAssumption DEF RunSetup, SetupLookup, GiveUp, RunAddUser, CliGoto
  <2> QED
    BY <1>1, <2>1, <2>2 DEF AccountInv, AttemptSound
<1> QED
  BY <1>2, <1>3 DEF Operate

-----------------------------------------------------------------------------
(* The server.                                                             *)

FrontDoorInv == ExchangeInv /\ AccountInv

LEMMA CheckKeeps ==
  ASSUME FrontDoorInv, NEW r \in Requests, Check(r)
  PROVE  FrontDoorInv'
<1>1. r \in Attempts /\ exchange' = exchange /\ exchange[r].pc = "handling"
      /\ UNCHANGED <<chosen, cli>>
  BY SlotsAssumption DEF Check, hostVars, Reached
<1>2. AccountInv'
  BY <1>1, VerifyUserKeeps DEF FrontDoorInv, Check
<1>3. \A q \in Requests : q # r => attempt'[q] = attempt[q]
  BY SlotsAssumption DEF FrontDoorInv, AccountInv, Check, VerifyUser, Lookup, Verify, Rehash
<1>4. ExchangeInv'
  BY <1>1, <1>2, <1>3 DEF FrontDoorInv, ExchangeInv, AccountInv, VerifiedWhole
<1> QED
  BY <1>2, <1>4 DEF FrontDoorInv

LEMMA HandleKeeps ==
  ASSUME FrontDoorInv, NEW r \in Requests, Handle(r)
  PROVE  FrontDoorInv'
<1>1. r \in Attempts /\ ExchangeInv /\ AccountInv
  BY SlotsAssumption DEF FrontDoorInv
<1>2. CASE AnswerOnly(r)
  BY <1>1, <1>2, AnswerOnlyKeeps, SameAccounts DEF AnswerOnly, accountVars, FrontDoorInv
<1>3. CASE Check(r)
  BY <1>3, CheckKeeps
<1>4. CASE Conclude(r)
  BY <1>1, <1>4, ConcludeKeeps, OneAttempt, NoAttemptSound DEF Conclude, hostVars, FrontDoorInv
<1>5. ASSUME NEW n \in Names, NEW p \in Passwords, SignIn(r, n, p)
      PROVE  FrontDoorInv'
  <2> DEFINE a == [NoAttempt EXCEPT !.pc = "lookup", !.name = n, !.password = p]
  <2>1. a \in Attempt /\ AttemptSound(a)
    BY DEF NoAttempt, Attempt, AttemptPC, AttemptSound
  <2>2. attempt' = [attempt EXCEPT ![r] = a] /\ UNCHANGED <<users, chosen, cli>>
    BY <1>5 DEF SignIn, StartAttempt, hostVars
  <2> HIDE DEF a
  <2> QED
    BY <1>1, <1>5, <2>1, <2>2, OneAttempt, SignInKeeps DEF FrontDoorInv
<1>6. ASSUME NEW ip \in Ips, NEW inserted \in BOOLEAN, NEW counted \in BOOLEAN,
             RefuseRate(r, ip, inserted, counted)
      PROVE  FrontDoorInv'
  BY <1>1, <1>6, RefuseRateKeeps, SameAccounts DEF RefuseRate, hostVars, FrontDoorInv
<1>7. ASSUME NEW ip \in Ips, NEW inserted \in BOOLEAN, NEW counted \in BOOLEAN,
             RefusePassword(r, ip, inserted, counted)
      PROVE  FrontDoorInv'
  BY <1>1, <1>7, RefusePasswordKeeps, OneAttempt, NoAttemptSound
     DEF RefusePassword, hostVars, FrontDoorInv
<1>8. ASSUME NEW ok \in BOOLEAN, Register(r, ok)
      PROVE  FrontDoorInv'
  BY <1>1, <1>8, RegisterKeeps, SameAccounts DEF Register, hostVars, FrontDoorInv
<1>9. CASE UnusableBody(r)
  BY <1>1, <1>9, UnusableBodyKeeps, SameAccounts DEF UnusableBody, accountVars, FrontDoorInv
<1> QED
  BY <1>2, <1>3, <1>4, <1>5, <1>6, <1>7, <1>8, <1>9 DEF Handle

LEMMA ServeKeeps ==
  ASSUME FrontDoorInv, NEW r \in Requests, Serve(r)
  PROVE  FrontDoorInv'
<1>1. CASE Open(r)
  BY <1>1, OpenKeeps, SameAccounts DEF Open, accountVars, FrontDoorInv
<1>2. CASE Transfer(r)
  BY <1>2, TransferKeeps, SameAccounts DEF Transfer, accountVars, FrontDoorInv
<1>3. CASE Handle(r)
  BY <1>3, HandleKeeps
<1> QED
  BY <1>1, <1>2, <1>3 DEF Serve

LEMMA HostKeeps ==
  ASSUME FrontDoorInv, Host
  PROVE  FrontDoorInv'
<1>1. exchange' = exchange /\ attempt' = attempt
  BY DEF Host, Tick, Cleanup, Start, Operate
<1>2. CASE Operate
  BY <1>1, <1>2, SameExchange, OperateKeeps DEF FrontDoorInv
<1>3. CASE Tick \/ Cleanup \/ Start
  <2>1. UNCHANGED <<users, chosen, cli, attempt>>
    BY <1>3 DEF Tick, Cleanup, Start
  <2> QED
    BY <1>1, <2>1, SameExchange, SameAccounts DEF FrontDoorInv
<1> QED
  BY <1>2, <1>3 DEF Host

LEMMA ShutdownKeeps ==
  ASSUME FrontDoorInv, Shutdown
  PROVE  FrontDoorInv'
<1>1. /\ exchange' = [r \in Requests |-> Free] /\ attempt' = [r \in Attempts |-> NoAttempt]
      /\ UNCHANGED <<users, chosen, cli>>
  BY DEF Shutdown, Stop
<1>2. ExchangeInv'
  BY <1>1, FreeSound, NoAttemptType, SlotsAssumption DEF ExchangeInv, VerifiedWhole
<1>3. AccountInv'
  BY <1>1, NoAttemptSound DEF FrontDoorInv, AccountInv, AttemptSound, NoAttempt
<1> QED
  BY <1>2, <1>3 DEF FrontDoorInv

LEMMA Invariance == Spec => []FrontDoorInv
<1>1. Init => FrontDoorInv
  <2> SUFFICES ASSUME Init PROVE FrontDoorInv
    OBVIOUS
  <2>1. exchange = [r \in Requests |-> Free] /\ attempt = [r \in Attempts |-> NoAttempt]
    BY DEF Init, LimitInit, AccountsInit
  <2>2. ExchangeInv
    BY <2>1, FreeSound, NoAttemptType, SlotsAssumption DEF ExchangeInv, VerifiedWhole
  <2> QED
    BY <2>2, AccountsStart DEF FrontDoorInv, Init
<1>2. FrontDoorInv /\ [Next]_vars => FrontDoorInv'
  <2> SUFFICES ASSUME FrontDoorInv, [Next]_vars PROVE FrontDoorInv'
    OBVIOUS
  <2>1. CASE UNCHANGED vars
    BY <2>1, SameExchange, SameAccounts DEF vars, FrontDoorInv
  <2>2. CASE Next
    BY <2>2, HostKeeps, ShutdownKeeps, ServeKeeps DEF Next
  <2> QED
    BY <2>1, <2>2
<1> QED
  BY <1>1, <1>2, PTL DEF Spec

-----------------------------------------------------------------------------
\* However its handler ends, and wherever its body is cut, a request gets at
\* most one response and, once over, a whole one; a refusal for size is given
\* exactly to the bodies that passed the limit before the handler answered.
THEOREM OneResponseHolds == Spec => []OneResponse
<1>1. FrontDoorInv => OneResponse
  <2> SUFFICES ASSUME FrontDoorInv, NEW r \in Requests
               PROVE  LET x == exchange[r] IN
                 /\ x.wire \in {<<>>} \cup {<<h>> : h \in {"response", "413", "500"}}
                               \cup {<<h, "end">> : h \in {"response", "413", "500"}}
                 /\ (x.pc = "closed") => Len(x.wire) = 2
                 /\ (x.pc = "closed" /\ x.over /\ ~x.started) => x.wire[1] = "413"
                 /\ (x.read > 0 /\ ~x.over /\ x.wire # <<>>) => x.wire[1] # "413"
    BY DEF OneResponse
  <2> DEFINE x == exchange[r]
  <2>1. Sound(x) /\ x.read \in Nat
    BY DEF FrontDoorInv, ExchangeInv, Sound, Exchange
  <2>2. CASE x.pc # "closed"
    BY <2>1, <2>2 DEF Sound
  <2>3. CASE x.pc = "closed"
    <3>1. Complete(x)
      BY <2>1, <2>3 DEF Sound
    <3>2. /\ x.wire \in {<<h, "end">> : h \in {"response", "413", "500"}}
          /\ Len(x.wire) = 2
      BY <3>1 DEF Complete
    <3>3. x.over /\ ~x.started => x.wire[1] = "413"
      BY <3>1 DEF Complete
    <3>4. x.read > 0 /\ ~x.over => x.wire[1] # "413"
      BY <2>1, <3>1 DEF Complete
    <3> QED
      BY <3>2, <3>3, <3>4
  <2> QED
    BY <2>2, <2>3
<1> QED
  BY <1>1, Invariance, PTL

\* Of a body with a limit no handler is given more than max_bytes, whatever
\* the sizes of the messages it arrives in and the length it declared.
THEOREM NothingPastLimitHolds == Spec => []NothingPastLimit
<1>1. FrontDoorInv => NothingPastLimit
  BY DEF FrontDoorInv, ExchangeInv, Sound, NothingPastLimit
<1> QED
  BY <1>1, Invariance, PTL

\* The form of a sign-in that was cut off, by the limit or because its client
\* left, is never verified and never logged, however many requests there are.
THEOREM CutFormHolds == Spec => []CutFormSignsNobodyIn
<1>1. FrontDoorInv => CutFormSignsNobodyIn
  <2> SUFFICES ASSUME FrontDoorInv, NEW r \in Requests, exchange[r].cut,
                      exchange[r].route \in {"login", "panel"}
               PROVE  ~exchange[r].served /\ attempt[r] = NoAttempt
    BY DEF CutFormSignsNobodyIn
  <2>1. Sound(exchange[r]) /\ VerifiedWhole
    BY DEF FrontDoorInv, ExchangeInv
  <2> QED
    BY <2>1 DEF Sound, VerifiedWhole
<1> QED
  BY <1>1, Invariance, PTL

\* The password of an account, and one that was just accepted, is one that an
\* operator chose for it, with any number of logins upgrading the hash while
\* operators reset the password.
THEOREM PasswordsAreChosenHolds == Spec => []PasswordsAreChosen
<1>1. FrontDoorInv => PasswordsAreChosen
  BY SlotsAssumption
     DEF FrontDoorInv, AccountInv, AttemptSound, PasswordsAreChosen, Attempting
<1> QED
  BY <1>1, Invariance, PTL

-----------------------------------------------------------------------------
(* The log and its alert.  An alert that is remembered has been logged, and *)
(* is no older than the window at the last pass of the cleanup loop; that   *)
(* pass is at most an interval ago while the server runs, and a server that *)
(* is down remembers none (AlertInv).  So what holds an alert back is one   *)
(* that is recent enough.                                                   *)

ClockInv ==
    /\ now \in 0 .. MaxTime /\ swept \in 0 .. MaxTime
    /\ swept <= now /\ (up => now <= swept + Interval)

AlertInv ==
    /\ warnings \in SUBSET Warning /\ alerted \subseteq warnings
    /\ \A a \in alerted : a.when >= swept - Window
    /\ ~up => alerted = {}

CounterTypes ==
    /\ configured \in BOOLEAN /\ schema \in BOOLEAN /\ up \in BOOLEAN
    /\ failed \in [Ips -> [0 .. MaxTime -> Nat]]
    /\ failures \in 0 .. MaxFailures
    /\ cli \in [pc : CliPC, name : Names \cup {Nil}] /\ commands \in 0 .. MaxCommands
    /\ accepted \in 0 .. MaxRequests

LogInv == ClockInv /\ AlertInv /\ CounterTypes

LEMMA CrossedThreshold ==
  ASSUME NEW count
  PROVE  /\ Crossed(count) \in Nat
         /\ Crossed(count) # 0 => Crossed(count) \in Thresholds
         /\ \A t \in Thresholds : count >= t => Crossed(count) >= t
<1> DEFINE R == {t \in Thresholds : count >= t}
           S == R \cup {0}
<1>1. IsFiniteSet(R)
  BY AlertAssumption, FS_Subset
<1>2. IsFiniteSet(S)
  BY <1>1, FS_AddElement
<1>3. \A x \in S : x \in Nat
  BY AlertAssumption
<1> HIDE DEF S
<1>4. S # {} /\ \A x \in S : x \in Int
  BY <1>3 DEF S
<1>5. Max(S) \in S /\ \A y \in S : Max(S) >= y
  BY <1>2, <1>4, MaxOfFinite
<1>6. Crossed(count) = Max(S)
  BY DEF Crossed, S
<1> QED
  BY <1>3, <1>5, <1>6 DEF S

\* The level of an address is that of one of its alerts.
LEMMA LevelHeld ==
  ASSUME AlertInv, NEW ip
  PROVE  /\ AlertLevel(ip) \in Nat
         /\ AlertLevel(ip) # 0 => \E a \in alerted : a.ip = ip /\ a.level = AlertLevel(ip)
<1> DEFINE R == {w.level : w \in {a \in alerted : a.ip = ip}}
           S == R \cup {0}
<1>1. R \subseteq Thresholds
  BY DEF AlertInv, Warning
<1>2. IsFiniteSet(S)
  <2>1. IsFiniteSet(R)
    BY <1>1, AlertAssumption, FS_Subset
  <2> QED
    BY <2>1, FS_AddElement
<1>3. S # {} /\ \A x \in S : x \in Nat /\ x \in Int
  <2>1. Thresholds \subseteq Nat
    BY AlertAssumption
  <2> HIDE DEF R
  <2> QED
    BY <1>1, <2>1
<1>4. Max(S) \in S
  <2> HIDE DEF S
  <2> QED
    BY <1>2, <1>3, MaxOfFinite
<1>5. AlertLevel(ip) = Max(S)
  BY DEF AlertLevel
<1>6. Max(S) \in Nat
  BY <1>3, <1>4
<1>7. Max(S) # 0 => Max(S) \in R
  BY <1>4
<1> QED
  BY <1>5, <1>6, <1>7

\* A failed login is counted, and the alert is raised or was raised before.
LEMMA AnomalyKeeps ==
  ASSUME LogInv, up, NEW ip \in Ips, NEW count, CheckAnomaly(ip, count),
         UNCHANGED <<up, now, swept>>
  PROVE  /\ AlertInv'
         /\ \A t \in Thresholds :
               count >= t => \E w \in warnings' : /\ w.ip = ip /\ w.level >= t
                                                  /\ now - w.when <= Window + Interval
<1> DEFINE crossed == Crossed(count)
           others  == {a \in alerted : a.ip # ip}
           warning == [ip |-> ip, level |-> crossed, when |-> now]
<1>1. /\ crossed \in Nat /\ (crossed # 0 => crossed \in Thresholds)
      /\ \A t \in Thresholds : count >= t => crossed >= t
  BY CrossedThreshold
<1>2. /\ \A t \in Thresholds : t \in Nat /\ t # 0
      /\ Window \in Nat /\ Interval \in Nat
      /\ now \in Int /\ swept \in Int /\ now <= swept + Interval /\ swept <= now
  BY AlertAssumption DEF LogInv, ClockInv
<1>3. /\ warnings \in SUBSET Warning /\ alerted \subseteq warnings
      /\ \A a \in alerted : a.when >= swept - Window /\ a.when \in Int /\ a.level \in Nat
  BY <1>2 DEF LogInv, AlertInv, Warning
<1> HIDE DEF crossed
<1>4. CASE crossed = 0
  <2>1. alerted' = others /\ warnings' = warnings
    BY <1>4 DEF CheckAnomaly, crossed
  <2>2. AlertInv'
    BY <1>3, <2>1 DEF AlertInv
  <2>3. \A t \in Thresholds : ~(count >= t)
    BY <1>1, <1>2, <1>4
  <2> QED
    BY <2>2, <2>3
<1>5. CASE crossed # 0 /\ crossed <= AlertLevel(ip)
  <2>1. alerted' = alerted /\ warnings' = warnings
    BY <1>5 DEF CheckAnomaly, crossed
  <2>2. AlertInv'
    BY <1>3, <2>1 DEF AlertInv
  <2>3. PICK a \in alerted : a.ip = ip /\ a.level = AlertLevel(ip)
    BY <1>1, <1>5, LevelHeld DEF LogInv
  <2>4. a \in warnings' /\ now - a.when <= Window + Interval
    BY <1>2, <1>3, <2>1
  <2>5. \A t \in Thresholds : count >= t => a.level >= t
    BY <1>1, <1>2, <1>3, <1>5, <2>3
  <2> QED
    BY <2>2, <2>3, <2>4, <2>5
<1>6. CASE crossed # 0 /\ ~(crossed <= AlertLevel(ip))
  <2>1. alerted' = others \cup {warning} /\ warnings' = warnings \cup {warning}
    BY <1>6 DEF CheckAnomaly, crossed
  <2>2. warning \in Warning
    BY <1>1, <1>6 DEF Warning, LogInv, ClockInv
  <2>3. warning.when >= swept - Window
    BY <1>2 DEF LogInv, ClockInv
  <2>4. AlertInv'
    BY <1>3, <2>1, <2>2, <2>3 DEF AlertInv
  <2>5. warning.ip = ip /\ now - warning.when <= Window + Interval
    BY <1>2
  <2>6. \A t \in Thresholds : count >= t => warning.level >= t
    BY <1>1
  <2> QED
    BY <2>1, <2>4, <2>5, <2>6
<1> QED
  BY <1>4, <1>5, <1>6

LEMMA ChargeKeeps ==
  ASSUME failures \in 0 .. MaxFailures, NEW n \in Nat, Charge(n)
  PROVE  failures' \in 0 .. MaxFailures
  BY BoundsAssumption DEF Charge

LEMMA LogFailureKeeps ==
  ASSUME LogInv, up, NEW ip \in Ips, NEW inserted \in BOOLEAN, NEW counted \in BOOLEAN,
         LogFailure(ip, inserted, counted), UNCHANGED <<hostVars, accepted>>
  PROVE  LogInv'
<1>1. failures' \in 0 .. MaxFailures
  <2>1. Cost(inserted) + Cost(counted) \in Nat
    BY DEF Cost
  <2> QED
    BY <2>1, ChargeKeeps DEF LogFailure, LogInv, CounterTypes
<1>2. failed' \in [Ips -> [0 .. MaxTime -> Nat]]
  <2>1. failed \in [Ips -> [0 .. MaxTime -> Nat]] /\ now \in 0 .. MaxTime
    BY DEF LogInv, ClockInv, CounterTypes
  <2>2. CASE failed' = failed
    BY <2>1, <2>2
  <2>3. CASE failed' = [failed EXCEPT ![ip][now] = @ + 1]
    <3>1. failed[ip] \in [0 .. MaxTime -> Nat]
      BY <2>1
    <3>2. [failed[ip] EXCEPT ![now] = @ + 1] \in [0 .. MaxTime -> Nat]
      BY <2>1, <3>1
    <3> QED
      BY <2>1, <2>3, <3>2
  <2> QED
    BY <2>2, <2>3 DEF LogFailure
<1>3. AlertInv'
  <2>1. CASE counted
    BY <2>1, AnomalyKeeps DEF LogFailure, hostVars
  <2>2. CASE ~counted
    <3>1. UNCHANGED <<alerted, warnings, swept, up>>
      BY <2>2 DEF LogFailure, hostVars
    <3> QED
      BY <3>1 DEF LogInv, AlertInv
  <2> QED
    BY <2>1, <2>2
<1>4. UNCHANGED <<configured, schema, up, now, swept, cli, commands, accepted>>
  BY DEF hostVars
<1> QED
  BY <1>1, <1>2, <1>3, <1>4 DEF LogInv, ClockInv, CounterTypes

\* A step that writes no log.
LEMMA SameLog ==
  ASSUME LogInv, UNCHANGED <<hostVars, logVars>>,
         failures' \in 0 .. MaxFailures, accepted' \in 0 .. MaxRequests
  PROVE  LogInv'
  BY DEF LogInv, ClockInv, AlertInv, CounterTypes, hostVars, logVars

LEMMA HandleLog ==
  ASSUME LogInv, up, NEW r \in Requests, Handle(r)
  PROVE  LogInv'
<1>1. failures \in 0 .. MaxFailures /\ accepted \in 0 .. MaxRequests
  BY DEF LogInv, CounterTypes
<1>2. CASE AnswerOnly(r)
  BY <1>1, <1>2, SameLog DEF AnswerOnly, accountVars, hostVars, logVars
<1>3. CASE Check(r)
  <2>1. failures' \in 0 .. MaxFailures
    <3>1. CASE Verify(r)
      BY <1>1, <3>1 DEF Verify
    <3>2. ASSUME NEW ok \in BOOLEAN, Charge(Cost(ok)) PROVE failures' \in 0 .. MaxFailures
      BY <1>1, <3>2, ChargeKeeps DEF Cost
    <3> QED
      BY <1>3, <3>1, <3>2 DEF Check, VerifyUser, Lookup, Rehash
  <2> QED
    BY <1>1, <1>3, <2>1, SameLog DEF Check
<1>4. CASE Conclude(r)
  <2>1. UNCHANGED <<hostVars, logVars, failures, accepted>>
    BY <1>4, ZenonT(30) DEF Conclude
  <2> QED
    BY <1>1, <2>1, SameLog
<1>5. ASSUME NEW n \in Names, NEW p \in Passwords, SignIn(r, n, p)
      PROVE  LogInv'
  BY <1>1, <1>5, SameLog DEF SignIn
<1>6. ASSUME NEW ip \in Ips, NEW inserted \in BOOLEAN, NEW counted \in BOOLEAN,
             RefuseRate(r, ip, inserted, counted) \/ RefusePassword(r, ip, inserted, counted)
      PROVE  LogInv'
  BY <1>6, LogFailureKeeps DEF RefuseRate, RefusePassword
<1>7. ASSUME NEW ok \in BOOLEAN, Register(r, ok)
      PROVE  LogInv'
  <2>1. failures' \in 0 .. MaxFailures
    BY <1>1, <1>7, ChargeKeeps DEF Register, Cost
  <2> QED
    BY <1>1, <1>7, <2>1, SameLog DEF Register
<1>8. CASE UnusableBody(r)
  BY <1>1, <1>8, SameLog DEF UnusableBody, accountVars, hostVars, logVars
<1> QED
  BY <1>2, <1>3, <1>4, <1>5, <1>6, <1>7, <1>8 DEF Handle

LEMMA ServeLog ==
  ASSUME LogInv, NEW r \in Requests, Serve(r)
  PROVE  LogInv'
<1>1. up
  BY DEF Serve, LoopFree
<1>2. failures \in 0 .. MaxFailures /\ accepted \in 0 .. MaxRequests
  BY DEF LogInv, CounterTypes
<1>3. CASE Open(r)
  <2>1. accepted' \in 0 .. MaxRequests
    BY <1>2, <1>3, SlotsAssumption DEF Open
  <2> QED
    BY <1>2, <1>3, <2>1, SameLog DEF Open, accountVars, hostVars, logVars
<1>4. CASE Transfer(r)
  BY <1>2, <1>4, SameLog DEF Transfer, accountVars, hostVars, logVars
<1>5. CASE Handle(r)
  BY <1>1, <1>5, HandleLog
<1> QED
  BY <1>3, <1>4, <1>5 DEF Serve

LEMMA ClockLog ==
  ASSUME LogInv, Tick \/ Cleanup \/ Start \/ Stop, UNCHANGED accepted
  PROVE  LogInv'
<1> USE AlertAssumption, BoundsAssumption
<1>1. /\ now \in 0 .. MaxTime /\ swept \in 0 .. MaxTime /\ swept <= now
      /\ up => now <= swept + Interval
      /\ \A a \in alerted : a.when >= swept - Window /\ a.when \in Int
      /\ warnings \in SUBSET Warning /\ alerted \subseteq warnings
      /\ ~up => alerted = {}
  BY DEF LogInv, ClockInv, AlertInv, Warning
<1>2. CASE Tick
  <2>1. /\ now < MaxTime /\ (up => now < swept + Interval) /\ now' = now + 1
        /\ UNCHANGED <<configured, schema, up, failed, alerted, swept, failures, cli,
                       commands, warnings>>
    BY <1>2 DEF Tick
  <2>2. ClockInv'
    BY <1>1, <2>1 DEF ClockInv
  <2> QED
    BY <2>1, <2>2 DEF LogInv, AlertInv, CounterTypes
<1>3. CASE Cleanup
  <2>1. /\ swept' = now /\ alerted' = {a \in alerted : a.when >= now - Window}
        /\ UNCHANGED <<configured, schema, up, failed, now, failures, cli, commands, warnings>>
    BY <1>3 DEF Cleanup, PruneAlerts
  <2>2. ClockInv'
    BY <1>1, <2>1 DEF ClockInv
  <2>3. AlertInv'
    BY <1>1, <2>1 DEF AlertInv
  <2> QED
    BY <2>1, <2>2, <2>3 DEF LogInv, CounterTypes
<1>4. CASE Start
  <2>1. /\ ~up /\ up' = TRUE /\ schema' = TRUE /\ swept' = now
        /\ UNCHANGED <<configured, failed, alerted, now, failures, cli, commands, warnings>>
    BY <1>4 DEF Start
  <2>2. ClockInv' /\ AlertInv'
    BY <1>1, <2>1 DEF ClockInv, AlertInv
  <2> QED
    BY <2>1, <2>2 DEF LogInv, CounterTypes
<1>5. CASE Stop
  <2>1. /\ up' = FALSE /\ alerted' = {}
        /\ UNCHANGED <<configured, schema, failed, now, swept, failures, cli, commands, warnings>>
    BY <1>5 DEF Stop
  <2>2. ClockInv' /\ AlertInv'
    BY <1>1, <2>1 DEF ClockInv, AlertInv
  <2> QED
    BY <2>1, <2>2 DEF LogInv, CounterTypes
<1> QED
  BY <1>2, <1>3, <1>4, <1>5

LEMMA OperateLog ==
  ASSUME LogInv, Operate, UNCHANGED accepted
  PROVE  LogInv'
<1>1. ClockInv' /\ AlertInv' /\ UNCHANGED <<up, failed, failures, accepted>>
  BY DEF Operate, LogInv, ClockInv, AlertInv
<1>2. /\ configured \in BOOLEAN /\ schema \in BOOLEAN
      /\ cli \in [pc : CliPC, name : Names \cup {Nil}] /\ commands \in 0 .. MaxCommands
  BY DEF LogInv, CounterTypes
<1>3. /\ configured' \in BOOLEAN /\ schema' \in BOOLEAN
      /\ cli' \in [pc : CliPC, name : Names \cup {Nil}] /\ commands' \in 0 .. MaxCommands
  <2>1. ASSUME NEW l \in CliPC, NEW n \in Names \cup {Nil}, CliGoto(l, n)
        PROVE  cli' \in [pc : CliPC, name : Names \cup {Nil}]
    BY <2>1 DEF CliGoto
  <2>2. ASSUME Given PROVE commands' \in 0 .. MaxCommands
    BY <1>2, <2>2, BoundsAssumption DEF Given
  <2>3. CASE RunSetup
    BY <1>2, <2>1, <2>2, <2>3, AdminAssumption DEF RunSetup, CliPC
  <2>4. CASE SetupLookup
    BY <1>2, <2>1, <2>4, AdminAssumption DEF SetupLookup, CliPC
  <2>5. CASE GiveUp
    BY <1>2, <2>1, <2>5 DEF GiveUp, CliPC
  <2>6. ASSUME NEW n \in Names, RunAddUser(n)
        PROVE  /\ configured' \in BOOLEAN /\ schema' \in BOOLEAN
               /\ cli' \in [pc : CliPC, name : Names \cup {Nil}] /\ commands' \in 0 .. MaxCommands
    BY <1>2, <2>1, <2>2, <2>6 DEF RunAddUser, CliPC
  <2>7. ASSUME NEW p \in Passwords, EnterPassword(p)
        PROVE  /\ configured' \in BOOLEAN /\ schema' \in BOOLEAN
               /\ cli' \in [pc : CliPC, name : Names \cup {Nil}] /\ commands' \in 0 .. MaxCommands
    BY <1>2, <2>1, <2>7 DEF EnterPassword, CliPC
  <2> QED
    BY <2>3, <2>4, <2>5, <2>6, <2>7 DEF Operate
<1> QED
  BY <1>1, <1>3 DEF LogInv, CounterTypes

LEMMA LogInvariance == Spec => []LogInv
<1>1. Init => LogInv
  <2> SUFFICES ASSUME Init PROVE LogInv
    OBVIOUS
  <2>1. /\ configured \in BOOLEAN /\ schema \in BOOLEAN /\ up = FALSE
        /\ failed = [ip \in Ips |-> [t \in 0 .. MaxTime |-> 0]]
        /\ alerted = {} /\ warnings = {} /\ now = 0 /\ swept = 0 /\ failures = 0
        /\ cli = [pc |-> "idle", name |-> Nil] /\ commands = 0 /\ accepted = 0
    BY DEF Init, AccountsInit
  <2>2. ClockInv /\ AlertInv
    BY <2>1, BoundsAssumption DEF ClockInv, AlertInv
  <2>3. failed \in [Ips -> [0 .. MaxTime -> Nat]] /\ cli \in [pc : CliPC, name : Names \cup {Nil}]
    BY <2>1 DEF CliPC
  <2>4. failures \in 0 .. MaxFailures /\ commands \in 0 .. MaxCommands /\ accepted \in 0 .. MaxRequests
    BY <2>1, BoundsAssumption, SlotsAssumption
  <2>5. up \in BOOLEAN
    BY <2>1
  <2> QED
    BY <2>1, <2>2, <2>3, <2>4, <2>5, ZenonT(30) DEF LogInv, CounterTypes
<1>2. LogInv /\ [Next]_vars => LogInv'
  <2> SUFFICES ASSUME LogInv, [Next]_vars PROVE LogInv'
    OBVIOUS
  <2>1. CASE UNCHANGED vars
    BY <2>1 DEF vars, LogInv, ClockInv, AlertInv, CounterTypes
  <2>2. CASE Host
    BY <2>2, ClockLog, OperateLog DEF Host
  <2>3. CASE Shutdown
    BY <2>3, ClockLog DEF Shutdown
  <2>4. CASE \E r \in Requests : Serve(r)
    BY <2>4, ServeLog
  <2> QED
    BY <2>1, <2>2, <2>3, <2>4 DEF Next
<1> QED
  BY <1>1, <1>2, PTL DEF Spec

\* The states of the exchanges, the accounts, the log and the commands are of
\* their types, and the bounds hold.
THEOREM TypeCorrect == Spec => []TypeOK
<1>1. FrontDoorInv /\ LogInv => TypeOK
  <2> SUFFICES ASSUME FrontDoorInv, LogInv PROVE TypeOK
    OBVIOUS
  <2>1. alerted \in SUBSET Warning /\ warnings \in SUBSET Warning
    BY DEF LogInv, AlertInv
  <2>2. LimitTypeOK
    BY DEF FrontDoorInv, ExchangeInv, LimitTypeOK
  <2>3. AccountsTypeOK
    BY <2>1 DEF FrontDoorInv, AccountInv, LogInv, ClockInv, CounterTypes, AccountsTypeOK
  <2> QED
    BY <2>2, <2>3 DEF LogInv, CounterTypes, TypeOK
<1> QED
  BY <1>1, Invariance, LogInvariance, PTL

\* Whichever requests count the failures, in whatever order, and however often
\* the cleanup loop has dropped alerts or the server was restarted: failures
\* that reach a threshold are reported at that level or above, by this step or
\* by one no longer ago than the window and an interval of the loop.
THEOREM AttackIsReportedHolds == Spec => AttackIsReported
<1> DEFINE Reported == \A ip \in Ips :
              failed'[ip] # failed[ip] /\ failures' = failures =>
                 \A t \in Thresholds :
                    Recent(failed', ip) >= t =>
                       \E w \in warnings' : /\ w.ip = ip /\ w.level >= t
                                            /\ now - w.when <= Window + Interval
<1>1. LogInv /\ [Next]_vars => [Reported]_vars
  <2> SUFFICES ASSUME LogInv, [Next]_vars, NEW ip \in Ips,
                      failed'[ip] # failed[ip], failures' = failures,
                      NEW t \in Thresholds, Recent(failed', ip) >= t
               PROVE  \E w \in warnings' : /\ w.ip = ip /\ w.level >= t
                                           /\ now - w.when <= Window + Interval
    OBVIOUS
  <2>1. PICK r \in Requests, ad \in Ips, inserted \in BOOLEAN, counted \in BOOLEAN :
           LoopFree(r) /\ (RefuseRate(r, ad, inserted, counted)
                           \/ RefusePassword(r, ad, inserted, counted))
    <3>1. failed' # failed
      OBVIOUS
    <3>2. Next
      BY <3>1 DEF vars
    <3>3. ~Host /\ ~Shutdown
      BY <3>1 DEF Host, Shutdown, Stop, Tick, Cleanup, Start, Operate
    <3>4. PICK r \in Requests : Serve(r)
      BY <3>2, <3>3 DEF Next
    <3>5. Handle(r) /\ LoopFree(r)
      BY <3>1, <3>4 DEF Serve, Open, Transfer, accountVars
    <3>6. \E ad \in Ips, inserted, counted \in BOOLEAN :
             RefuseRate(r, ad, inserted, counted) \/ RefusePassword(r, ad, inserted, counted)
      BY <3>1, <3>5 DEF Handle, AnswerOnly, UnusableBody, Check, Conclude, SignIn, Register, accountVars, logVars
    <3> QED
      BY <3>5, <3>6
  <2>2. LogFailure(ad, inserted, counted) /\ UNCHANGED hostVars
    BY <2>1 DEF RefuseRate, RefusePassword
  <2>3. up /\ UNCHANGED <<up, now, swept>>
    BY <2>1, <2>2 DEF LoopFree, hostVars
  <2>4. ad = ip
    BY <2>2 DEF LogFailure, LogInv, CounterTypes
  <2>5. counted
    BY <2>2 DEF LogFailure, Charge, Cost, LogInv, CounterTypes
  <2>6. CheckAnomaly(ip, Recent(failed', ip))
    BY <2>2, <2>4, <2>5 DEF LogFailure
  <2> HIDE DEF Reported
  <2> QED
    BY <2>3, <2>6, AnomalyKeeps
<1> QED
  BY <1>1, LogInvariance, PTL DEF Spec, AttackIsReported
=============================================================================
