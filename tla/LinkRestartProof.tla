-------------------------- MODULE LinkRestartProof --------------------------
(***************************************************************************)
(* Proofs that the session survives any number of link losses on the IgH   *)
(* transport without a parser losing its place or a command of an earlier  *)
(* interval being executed, for every ring, pool and bound.                *)
(***************************************************************************)
EXTENDS LinkRestart, TLAPS

(* -------------------- tokens read one after the other ------------------ *)

(* What a token leads to is a state a parser can be in.                    *)
LEMMA AfterTyped == ASSUME NEW t \in Token PROVE After(t) \in Parser
  BY RestartAssumption DEF After, Token, Parser, Inside, Boundary, Control, Field, Kind

(* A parser that meets the token it expects goes on and is not garbled.    *)
LEMMA ParsedExpected ==
    ASSUME NEW p \in Parser, NEW t \in Token, Expected(p, t)
    PROVE  Parsed(p, t) = {After(t)} /\ ~Garbles(p, t)
  BY DEF Parsed, Garbles, Expected, After, Parser, Token, Discard

(* Taking the first token leaves the rest to be read from where it leads.  *)
LEMMA FollowsTail ==
    ASSUME NEW p, NEW q \in Seq(Token), q # <<>>, Follows(p, q)
    PROVE  /\ Expected(p, Head(q))
           /\ Follows(After(Head(q)), Tail(q))
           /\ Ends(After(Head(q)), Tail(q)) = Ends(p, q)
<1> DEFINE r == Tail(q)
           t == Head(q)
<1>1. /\ Len(q) \in Nat /\ Len(q) > 0 /\ t = q[1]
      /\ r \in Seq(Token) /\ Len(r) = Len(q) - 1
      /\ \A i \in 1 .. Len(r) : r[i] = q[i + 1]
  OBVIOUS
<1> HIDE DEF r, t
<1>2. r # <<>> <=> Len(r) > 0
  BY <1>1
<1>3. Follows(After(t), r)
  <2>1. ASSUME r # <<>> PROVE Expected(After(t), r[1])
    <3>1. 1 \in 1 .. (Len(q) - 1) /\ r[1] = q[1 + 1]
      BY <1>1, <1>2, <2>1
    <3> QED
      BY <1>1, <3>1 DEF Follows
  <2>2. ASSUME NEW i \in 1 .. (Len(r) - 1) PROVE Expected(After(r[i]), r[i + 1])
    <3>1. i + 1 \in 1 .. (Len(q) - 1) /\ r[i] = q[i + 1] /\ r[i + 1] = q[(i + 1) + 1]
      BY <1>1, <2>2
    <3> QED
      BY <3>1 DEF Follows
  <2> QED
    BY <2>1, <2>2 DEF Follows
<1>4. Ends(After(t), r) = Ends(p, q)
  <2>1. CASE Len(q) = 1
    BY <1>1, <1>2, <2>1 DEF Ends
  <2>2. CASE Len(q) > 1
    <3>1. r # <<>> /\ r[Len(r)] = q[Len(q)]
      BY <1>1, <1>2, <2>2
    <3> QED
      BY <3>1 DEF Ends
  <2> QED
    BY <1>1, <2>1, <2>2
<1>5. Expected(p, t)
  BY <1>1 DEF Follows
<1> QED
  BY <1>3, <1>4, <1>5 DEF r, t

(* One more token that is expected at the end.                             *)
LEMMA FollowsAppend ==
    ASSUME NEW p, NEW q \in Seq(Token), NEW t \in Token,
           Follows(p, q), Expected(Ends(p, q), t)
    PROVE  Follows(p, Append(q, t)) /\ Ends(p, Append(q, t)) = After(t)
<1> DEFINE r == Append(q, t)
<1>1. /\ r \in Seq(Token) /\ Len(r) = Len(q) + 1 /\ Len(q) \in Nat
      /\ r # <<>> /\ r[Len(q) + 1] = t
      /\ \A i \in 1 .. Len(q) : r[i] = q[i]
  OBVIOUS
<1> HIDE DEF r
<1>2. Expected(p, r[1])
  <2>1. CASE q = <<>>
    BY <1>1, <2>1 DEF Ends
  <2>2. CASE q # <<>>
    <3>1. 1 \in 1 .. Len(q)
      BY <1>1, <2>2
    <3> QED
      BY <1>1, <2>2, <3>1 DEF Follows
  <2> QED
    BY <2>1, <2>2
<1>3. ASSUME NEW i \in 1 .. (Len(r) - 1) PROVE Expected(After(r[i]), r[i + 1])
  <2>1. CASE i < Len(q)
    <3>1. i \in 1 .. (Len(q) - 1) /\ r[i] = q[i] /\ r[i + 1] = q[i + 1]
      BY <1>1, <2>1
    <3> QED
      BY <3>1 DEF Follows
  <2>2. CASE i = Len(q)
    <3>1. q # <<>> /\ r[i] = q[Len(q)] /\ r[i + 1] = t
      BY <1>1, <2>2
    <3> QED
      BY <3>1 DEF Ends
  <2> QED
    BY <1>1, <2>1, <2>2
<1>4. Follows(p, r) /\ Ends(p, r) = After(t)
  BY <1>1, <1>2, <1>3 DEF Follows, Ends
<1> QED
  BY <1>4 DEF r

(* A whole field after whole fields.                                       *)
LEMMA WholeField ==
    ASSUME NEW p, NEW q \in Seq(Token), NEW f \in Field, Whole(p, q)
    PROVE  Whole(p, q \o Tokens(f))
<1> DEFINE a == [field |-> f, part |-> "head"]
           b == [field |-> f, part |-> "tail"]
<1>1. a \in Token /\ b \in Token
  BY DEF Token
<1>2. q \o Tokens(f) = Append(Append(q, a), b) /\ Append(q, a) \in Seq(Token)
  BY <1>1 DEF Tokens
<1>3. Expected(Boundary, a) /\ After(a) = Inside(f) /\ Expected(Inside(f), b)
      /\ After(b) = Boundary
  BY DEF Expected, Boundary, Inside, After
<1> HIDE DEF a, b
<1>4. Follows(p, Append(q, a)) /\ Ends(p, Append(q, a)) = Inside(f)
  BY <1>1, <1>3, FollowsAppend DEF Whole
<1>5. Follows(p, Append(Append(q, a), b)) /\ Ends(p, Append(Append(q, a), b)) = Boundary
  BY <1>1, <1>2, <1>3, <1>4, FollowsAppend
<1> QED
  BY <1>2, <1>5 DEF Whole

(* Nothing at all is whole from a boundary.                                *)
LEMMA WholeEmpty == \A p : Follows(p, <<>>) /\ Ends(p, <<>>) = p
  BY DEF Follows, Ends

(* Fields and tokens are what they are taken for.                          *)
LEMMA ControlTyped == ASSUME NEW k \in Kind PROVE Control(k) \in Field
  BY RestartAssumption DEF Control, Field

(* A field is two tokens of its own.                                       *)
LEMMA TokensTyped ==
    ASSUME NEW f \in Field
    PROVE  /\ Tokens(f) \in Seq(Token) /\ Len(Tokens(f)) = 2
           /\ \A i \in 1 .. 2 : Tokens(f)[i].field = f
  BY DEF Tokens, Token

(* So are the states of a parser.                                          *)
LEMMA StatesTyped == Boundary \in Parser /\ \A f \in Field : Inside(f) \in Parser
  BY RestartAssumption DEF Boundary, Inside, Parser, Control, Field, Kind

(* A field that fits into a ring.                                          *)
LEMMA SentTyped ==
    ASSUME NEW q \in Seq(Token), NEW f \in Field, Len(q) + 2 <= RingSize
    PROVE  q \o Tokens(f) \in Seq(Token) /\ Len(q \o Tokens(f)) <= RingSize
<1> DEFINE both == Tokens(f)
           r == q \o both
<1>1. both \in Seq(Token)
  BY TokensTyped
<1>2. Len(both) = 2
  BY TokensTyped
<1> HIDE DEF both
<1>3. r \in Seq(Token) /\ Len(r) = Len(q) + Len(both)
  BY <1>1
<1> HIDE DEF r
<1>4. Len(r) <= RingSize
  BY <1>2, <1>3, RestartAssumption
<1> QED
  BY <1>3, <1>4 DEF both, r

(* ------------------------ the age of a command ------------------------- *)

(* Taking a token leaves nothing older behind.                             *)
LEMMA DatedTail ==
    ASSUME NEW q \in Seq(Token), q # <<>>, NEW n, Dated(q, n)
    PROVE  Dated(Tail(q), n)
<1> DEFINE r == Tail(q)
<1>1. /\ Len(r) = Len(q) - 1 /\ Len(q) \in Nat
      /\ \A i \in 1 .. Len(r) : r[i] = q[i + 1]
  OBVIOUS
<1> HIDE DEF r
<1>2. \A i \in 1 .. Len(r) : i + 1 \in 1 .. Len(q)
  BY <1>1
<1>3. Dated(r, n)
  BY <1>1, <1>2 DEF Dated
<1> QED
  BY <1>3 DEF r

(* A token young enough may be added.                                      *)
LEMMA DatedAppend ==
    ASSUME NEW q \in Seq(Token), NEW n, NEW t \in Token, Dated(q, n),
           t.field.kind = "data" => t.field.epoch >= n
    PROVE  Dated(Append(q, t), n)
<1> DEFINE r == Append(q, t)
<1>1. /\ Len(r) = Len(q) + 1 /\ Len(q) \in Nat /\ r[Len(q) + 1] = t
      /\ \A i \in 1 .. Len(q) : r[i] = q[i]
  OBVIOUS
<1> HIDE DEF r
<1>2. \A i \in 1 .. Len(r) : i \in 1 .. Len(q) \/ i = Len(q) + 1
  BY <1>1
<1>3. Dated(r, n)
  BY <1>1, <1>2 DEF Dated
<1> QED
  BY <1>3 DEF r

(* And so may a field.                                                     *)
LEMMA DatedField ==
    ASSUME NEW q \in Seq(Token), NEW n, NEW f \in Field, Dated(q, n),
           f.kind = "data" => f.epoch >= n
    PROVE  Dated(q \o Tokens(f), n)
<1> DEFINE a == [field |-> f, part |-> "head"]
           b == [field |-> f, part |-> "tail"]
<1>1. a \in Token /\ b \in Token /\ a.field = f /\ b.field = f
  BY DEF Token
<1>2. q \o Tokens(f) = Append(Append(q, a), b) /\ Append(q, a) \in Seq(Token)
  BY <1>1 DEF Tokens
<1> HIDE DEF a, b
<1>3. Dated(Append(q, a), n)
  BY <1>1, DatedAppend
<1>4. Dated(Append(Append(q, a), b), n)
  BY <1>1, <1>2, <1>3, DatedAppend
<1> QED
  BY <1>2, <1>4

(* ---------------------------- initial states --------------------------- *)

(* At first every queue is empty and both parsers are between fields.      *)
LEMMA InitRestart == Init => RestartInv
<1> SUFFICES ASSUME Init PROVE RestartInv
  OBVIOUS
<1>1. TypeOK
  <2>1. <<>> \in Seq(Token) /\ <<>> \in Seq(Field) /\ Len(<<>>) = 0
    OBVIOUS
  <2>2. 0 <= RingSize /\ 0 <= PoolSize /\ 0 \in 0 .. MaxLosses /\ 0 \in 0 .. 0
        /\ 0 \in 0 .. Attempts /\ 0 \in 0 .. MaxData /\ 0 \in 0 .. MaxEarly
    BY RestartAssumption
  <2> QED
    BY <2>1, <2>2, StatesTyped DEF Init, TypeOK
<1>2. Intervals
  BY RestartAssumption DEF Init, Intervals, Dated
<1>3. UpWhole /\ DownWhole
  BY WholeEmpty, StatesTyped DEF Init, UpWhole, DownWhole, Whole
<1> QED
  BY <1>1, <1>2, <1>3 DEF RestartInv, Init

(* -------------------------- the host's threads ------------------------- *)

(* A field is sent as a whole or not at all, so that what the host's ring  *)
(* holds stays whole, and it bears the date of the interval it is sent in. *)
LEMMA SendKeeps ==
    ASSUME RestartInv, NEW f \in Field, Send(f), f.kind = "data" => f.epoch = hostEpoch,
           UNCHANGED <<downRing, linkVars, claimed, boardParser>>
    PROVE  /\ hostRing' \in Seq(Token) /\ Len(hostRing') <= RingSize
           /\ Intervals' /\ (PromptClaim => DownWhole')
<1>1. /\ hostRing \in Seq(Token) /\ RingSize \in Nat /\ hostEpoch \in Nat
      /\ hostRing' = hostRing \o Tokens(f) /\ Len(hostRing) + 2 <= RingSize
  BY RestartAssumption DEF RestartInv, TypeOK, Send
<1>2. hostRing' \in Seq(Token) /\ Len(hostRing') <= RingSize
  BY <1>1, SentTyped
<1>3. Intervals'
  <2>1. link = "op" => hostEpoch = opened /\ Dated(hostRing', opened)
    BY <1>1, DatedField DEF RestartInv, Intervals
  <2> QED
    BY <2>1 DEF RestartInv, Intervals, Dated, linkVars
<1>4. ASSUME PromptClaim PROVE DownWhole'
  <2>1. \A p : Whole(p, hostRing) => Whole(p, hostRing')
    BY <1>1, WholeField
  <2> QED
    BY <1>4, <2>1 DEF RestartInv, DownWhole, Follows, Ends, linkVars
<1> QED
  BY <1>2, <1>3, <1>4

(* keepalive_loop sends a whole field, which names no command.             *)
LEMMA DecideKeeps == ASSUME RestartInv, Decide PROVE RestartInv'
<1> DEFINE f == Control(IF hostSession THEN "keepalive" ELSE "start")
<1>1. f \in Field /\ f.kind # "data" /\ Send(f)
  BY ControlTyped DEF Decide, Kind, Control
<1>2. /\ hostRing' \in Seq(Token) /\ Len(hostRing') <= RingSize
      /\ Intervals' /\ (PromptClaim => DownWhole')
  BY <1>1, SendKeeps DEF Decide, linkVars, boardVars
<1>3. TypeOK'
  <2>1. attempt' \in 0 .. Attempts /\ answered' \in BOOLEAN
    <3>1. 1 \in 0 .. Attempts
      BY RestartAssumption
    <3> QED
      BY <3>1 DEF Decide
  <2>2. UNCHANGED <<downRing, upRing, linkVars, claimed, pump, boardVars, hostVars,
                    dataVars, hostGarbled, boardGarbled, staleRun>>
    BY DEF Decide
  <2>3. keeper' \in {"decide", "open", "refresh"}
    BY DEF Decide
  <2> HIDE DEF f
  <2> QED
    BY <1>2, <2>1, <2>2, <2>3 DEF RestartInv, TypeOK, linkVars, boardVars, hostVars, dataVars
<1>4. UpWhole'
  BY DEF Decide, RestartInv, UpWhole, Whole, Follows, Ends, linkVars, hostVars
<1> QED
  BY <1>2, <1>3, <1>4 DEF Decide, RestartInv

(* wait_for returns and touches no queue.                                  *)
LEMMA AnsweredKeeps == ASSUME RestartInv, Answered PROVE RestartInv'
<1>1. TypeOK'
  BY DEF Answered, RestartInv, TypeOK, linkVars, boardVars, hostVars, dataVars
<1>2. Intervals' /\ UpWhole' /\ (PromptClaim => DownWhole')
  BY DEF Answered, RestartInv, Intervals, UpWhole, DownWhole, Whole, Follows, Ends, Dated,
         linkVars, boardVars, hostVars
<1> QED
  BY <1>1, <1>2 DEF Answered, RestartInv

(* The early timeouts stay within their bound.                             *)
LEMMA TimesOutTyped == ASSUME RestartInv, TimesOut PROVE early' \in 0 .. MaxEarly
  BY RestartAssumption DEF RestartInv, TypeOK, TimesOut

(* Another attempt sends the same whole field once more.                   *)
LEMMA TryAgainKeeps == ASSUME RestartInv, TryAgain PROVE RestartInv'
<1> DEFINE f == Control(IF keeper = "refresh" THEN "keepalive" ELSE "start")
<1>1. f \in Field /\ f.kind # "data" /\ Send(f)
  BY ControlTyped DEF TryAgain, Kind, Control
<1>2. /\ hostRing' \in Seq(Token) /\ Len(hostRing') <= RingSize
      /\ Intervals' /\ (PromptClaim => DownWhole')
  BY <1>1, SendKeeps DEF TryAgain, linkVars, boardVars
<1>3. attempt' \in 0 .. Attempts /\ early' \in 0 .. MaxEarly
  BY RestartAssumption, TimesOutTyped DEF TryAgain, RestartInv, TypeOK
<1>4. TypeOK'
  BY <1>2, <1>3 DEF TryAgain, RestartInv, TypeOK, linkVars, boardVars, hostVars
<1>5. UpWhole'
  BY DEF TryAgain, RestartInv, UpWhole, Whole, Follows, Ends, linkVars, hostVars
<1> QED
  BY <1>2, <1>4, <1>5 DEF TryAgain, RestartInv

(* handle_session_failure forgets the session, not the parser.             *)
LEMMA GiveUpKeeps == ASSUME RestartInv, GiveUp PROVE RestartInv'
<1>1. early' \in 0 .. MaxEarly
  BY TimesOutTyped DEF GiveUp
<1>2. TypeOK'
  BY <1>1 DEF GiveUp, RestartInv, TypeOK, linkVars, boardVars
<1>3. Intervals' /\ UpWhole' /\ (PromptClaim => DownWhole')
  BY DEF GiveUp, RestartInv, Intervals, UpWhole, DownWhole, Whole, Follows, Ends, Dated,
         linkVars, boardVars
<1> QED
  BY <1>2, <1>3 DEF GiveUp, RestartInv

(* A command is a whole field, dated with the current interval.            *)
LEMMA HostWriteKeeps == ASSUME RestartInv, HostWrite PROVE RestartInv'
<1> DEFINE f == [kind |-> "data", id |-> dataDown + 1, epoch |-> hostEpoch]
<1>1. dataDown' \in 0 .. MaxData /\ hostEpoch \in 0 .. MaxLosses
  BY RestartAssumption DEF HostWrite, RestartInv, TypeOK
<1>2. f \in Field /\ f.epoch = hostEpoch /\ Send(f)
  BY <1>1 DEF HostWrite, Field, Kind
<1>3. /\ hostRing' \in Seq(Token) /\ Len(hostRing') <= RingSize
      /\ Intervals' /\ (PromptClaim => DownWhole')
  BY <1>2, SendKeeps DEF HostWrite, linkVars, boardVars
<1>4. TypeOK'
  BY <1>1, <1>3 DEF HostWrite, RestartInv, TypeOK, linkVars, boardVars, hostVars, keeperVars
<1>5. UpWhole'
  BY DEF HostWrite, RestartInv, UpWhole, Whole, Follows, Ends, linkVars, hostVars
<1> QED
  BY <1>3, <1>4, <1>5 DEF HostWrite, RestartInv

(* ------------------------------- the wire ------------------------------ *)

(* The first and the other tokens of a ring.                               *)
LEMMA HeadAndTail ==
    ASSUME NEW q \in Seq(Token), q # <<>>
    PROVE  /\ Head(q) \in Token /\ Head(q) = q[1] /\ Len(q) >= 1
           /\ Tail(q) \in Seq(Token) /\ Len(Tail(q)) = Len(q) - 1
  OBVIOUS

(* One token of the host goes over; the order stays.                       *)
LEMMA TransferDownKeeps == ASSUME RestartInv, TransferDown PROVE RestartInv'
<1> DEFINE t == Head(hostRing)
<1>1. /\ hostRing \in Seq(Token) /\ hostRing # <<>> /\ link = "op"
      /\ hostRing' = Tail(hostRing) /\ downRing' = Append(downRing, t)
      /\ downRing \in Seq(Token) /\ Len(downRing) < RingSize
      /\ PromptClaim => claimed = opened
  BY DEF TransferDown, RestartInv, TypeOK
<1>2. UNCHANGED <<upRing, linkVars, claimed, pump, boardVars, hostVars, keeperVars,
                  dataVars, hostGarbled, boardGarbled, staleRun>>
  BY DEF TransferDown
<1>3. /\ t \in Token /\ t = hostRing[1] /\ Len(hostRing) >= 1
      /\ hostRing' \in Seq(Token) /\ Len(hostRing') = Len(hostRing) - 1
  BY <1>1, HeadAndTail
<1>4. TypeOK'
  <2>1. downRing' \in Seq(Token) /\ Len(downRing') <= RingSize
    BY <1>1, <1>3, RestartAssumption
  <2>2. Len(hostRing') <= RingSize
    BY <1>1, <1>3, RestartAssumption DEF RestartInv, TypeOK
  <2> QED
    BY <1>2, <1>3, <2>1, <2>2
       DEF RestartInv, TypeOK, linkVars, boardVars, hostVars, keeperVars, dataVars
<1>5. Intervals'
  <2>1. /\ opened \in Nat /\ claimed \in Nat /\ claimed <= opened
        /\ hostEpoch = opened /\ Dated(hostRing, opened) /\ Dated(downRing, claimed)
    BY <1>1, RestartAssumption DEF RestartInv, TypeOK, Intervals
  <2>2. Dated(hostRing', opened)
    BY <1>1, <2>1, DatedTail
  <2>3. t.field.kind = "data" => t.field.epoch >= claimed
    <3>1. 1 \in 1 .. Len(hostRing)
      BY <1>1, <1>3
    <3>2. t.field.kind = "data" => t.field.epoch >= opened
      BY <1>3, <2>1, <3>1 DEF Dated
    <3>3. t.field.epoch \in Nat
      BY <1>3, RestartAssumption DEF Token, Field
    <3> QED
      BY <2>1, <3>2, <3>3
  <2>4. Dated(downRing', claimed)
    BY <1>1, <1>3, <2>1, <2>3, DatedAppend
  <2> QED
    BY <1>2, <2>1, <2>2, <2>4 DEF RestartInv, Intervals, Dated, linkVars
<1>6. UpWhole'
  BY <1>2 DEF RestartInv, UpWhole, Whole, Follows, Ends, linkVars, hostVars
<1>7. ASSUME PromptClaim PROVE DownWhole'
  <2> DEFINE p == Ends(boardParser, downRing)
  <2>1. claimed = opened /\ Whole(p, hostRing) /\ Follows(boardParser, downRing)
    BY <1>1, <1>7 DEF RestartInv, DownWhole
  <2>2. /\ Expected(p, t) /\ Follows(After(t), hostRing')
        /\ Ends(After(t), hostRing') = Boundary
    BY <1>1, <2>1, FollowsTail DEF Whole
  <2>3. Follows(boardParser, downRing') /\ Ends(boardParser, downRing') = After(t)
    BY <1>1, <1>3, <2>1, <2>2, FollowsAppend
  <2> HIDE DEF t, p
  <2>4. Whole(Ends(boardParser, downRing'), hostRing')
    BY <2>2, <2>3 DEF Whole
  <2>5. /\ boardParser' = boardParser /\ link' = "op" /\ claimed' = claimed /\ opened' = opened
    BY <1>1, <1>2 DEF boardVars, linkVars
  <2>6. Follows(boardParser, downRing)' /\ Whole(Ends(boardParser, downRing), hostRing)'
    BY <2>3, <2>4, <2>5 DEF Whole, Follows, Ends
  <2> QED
    BY <2>1, <2>5, <2>6 DEF DownWhole
<1> QED
  BY <1>2, <1>4, <1>5, <1>6, <1>7 DEF RestartInv

(* Until a kStartAck brings it to a field boundary the host parses nothing;*)
(* from then on it reads along with what the ring holds.                   *)
LEMMA TransferUpKeeps == ASSUME RestartInv, TransferUp PROVE RestartInv'
<1> DEFINE t == Head(upRing)
<1>1. /\ upRing \in Seq(Token) /\ upRing # <<>> /\ link = "op" /\ upRing' = Tail(upRing)
      /\ hostParser \in Parser /\ awaiting \in BOOLEAN /\ hostSession \in BOOLEAN
      /\ answered \in BOOLEAN
  BY DEF TransferUp, RestartInv, TypeOK
<1>2. UNCHANGED <<hostRing, downRing, linkVars, claimed, pump, boardVars, keeper,
                  attempt, dataVars, boardGarbled, staleRun>>
  BY DEF TransferUp
<1>3. /\ t \in Token /\ upRing' \in Seq(Token) /\ Len(upRing') <= RingSize
  BY <1>1, HeadAndTail, RestartAssumption DEF RestartInv, TypeOK
<1>4. After(t) \in Parser /\ Whole(After(t), upRing')
  <2>1. PICK p \in Parser : Whole(p, upRing)
    BY DEF RestartInv, UpWhole
  <2> QED
    BY <1>1, <1>3, <2>1, FollowsTail, AfterTyped DEF Whole
<1>5. /\ hostParser' \in Parser /\ awaiting' \in BOOLEAN
      /\ hostSession' \in BOOLEAN /\ answered' \in BOOLEAN
      /\ hostGarbled' = FALSE /\ (~awaiting' => hostParser' = After(t))
  <2>1. CASE awaiting
    <3>1. Scan(t)
      BY <2>1 DEF TransferUp
    <3>2. hostParser' \in Parser
      <4>1. t.field \in Field
        BY <1>3 DEF Token
      <4> QED
        BY <3>1, <4>1, StatesTyped DEF Scan
    <3>3. ASSUME ~awaiting' PROVE hostParser' = After(t)
      <4> DEFINE ends == [field |-> Control("startAck"), part |-> "tail"]
                 starts == [field |-> Control("startAck"), part |-> "head"]
      <4>1. t = ends
        BY <3>1, <3>3, Zenon DEF Scan
      <4>2. ends # starts /\ ends.part = "tail"
        <5>1. ends.part = "tail" /\ starts.part = "head"
          OBVIOUS
        <5> HIDE DEF ends, starts
        <5> QED
          BY <5>1
      <4>3. hostParser' = Boundary
        BY <3>1, <4>1, <4>2 DEF Scan
      <4> QED
        BY <4>1, <4>2, <4>3 DEF After
    <3>4. awaiting' \in BOOLEAN /\ hostGarbled' = FALSE
      BY <3>1 DEF Scan, RestartInv
    <3>5. hostSession' \in BOOLEAN /\ answered' \in BOOLEAN
      BY <1>1, <3>1 DEF Scan
    <3> QED
      BY <3>2, <3>3, <3>4, <3>5
  <2>2. CASE ~awaiting
    <3>1. Feed(t) /\ Whole(hostParser, upRing)
      BY <1>1, <2>2 DEF TransferUp, RestartInv, UpWhole
    <3>2. Expected(hostParser, t)
      BY <1>1, <3>1, FollowsTail DEF Whole
    <3>3. hostParser' = After(t) /\ ~Garbles(hostParser, t)
      BY <1>1, <1>3, <3>1, <3>2, ParsedExpected DEF Feed
    <3>4. hostGarbled' = FALSE /\ awaiting' \in BOOLEAN
      BY <1>1, <3>1, <3>3 DEF Feed, RestartInv
    <3>5. hostSession' \in BOOLEAN /\ answered' \in BOOLEAN
      BY <3>1 DEF Feed
    <3> QED
      BY <1>4, <3>3, <3>4, <3>5
  <2> QED
    BY <2>1, <2>2
<1> HIDE DEF t
<1>6. TypeOK'
  BY <1>2, <1>3, <1>5 DEF RestartInv, TypeOK, linkVars, boardVars, dataVars
<1>7. UpWhole'
  <2>1. (\E p \in Parser : Whole(p, upRing))'
    BY <1>4 DEF Whole, Follows, Ends
  <2>2. ASSUME ~awaiting' PROVE Whole(hostParser, upRing)'
    BY <1>4, <1>5, <2>2 DEF Whole, Follows, Ends
  <2> QED
    BY <2>1, <2>2 DEF UpWhole
<1>8. Intervals' /\ (PromptClaim => DownWhole')
  BY <1>2 DEF RestartInv, Intervals, DownWhole, Whole, Follows, Ends, Dated, linkVars, boardVars
<1> QED
  BY <1>2, <1>5, <1>6, <1>7, <1>8 DEF RestartInv

(* A loss makes what an open link guarantees moot.                         *)
LEMMA LoseLinkKeeps == ASSUME RestartInv, LoseLink PROVE RestartInv'
<1>1. /\ link' = "lost" /\ losses' = losses + 1 /\ losses < MaxLosses
      /\ UNCHANGED <<hostRing, downRing, upRing, opened, hostEpoch, claimed, pump,
                     boardVars, hostVars, keeperVars, dataVars, hostGarbled,
                     boardGarbled, staleRun>>
  BY DEF LoseLink
<1>2. TypeOK'
  <2>1. losses' \in 0 .. MaxLosses
    BY <1>1, RestartAssumption DEF RestartInv, TypeOK
  <2> QED
    BY <1>1, <2>1 DEF RestartInv, TypeOK, boardVars, hostVars, keeperVars, dataVars
<1>3. Intervals'
  <2>1. opened \in Nat /\ losses \in Nat /\ opened <= losses
    BY RestartAssumption DEF RestartInv, TypeOK, Intervals
  <2> QED
    BY <1>1, <2>1 DEF RestartInv, Intervals, Dated
<1>4. UpWhole' /\ (PromptClaim => DownWhole')
  BY <1>1 DEF RestartInv, UpWhole, DownWhole, Whole, Follows, Ends, boardVars, hostVars
<1> QED
  BY <1>1, <1>2, <1>3, <1>4 DEF RestartInv

(* The board comes back with an empty up ring and a new claim.             *)
LEMMA ReopenKeeps == ASSUME RestartInv, Reopen PROVE RestartInv'
<1>1. /\ link = "lost" /\ link' = "reopened" /\ opened' = opened + 1 /\ upRing' = <<>>
      /\ UNCHANGED <<hostRing, downRing, hostEpoch, losses, claimed, pump, boardVars,
                     hostVars, keeperVars, dataVars, hostGarbled, boardGarbled, staleRun>>
  BY DEF Reopen
<1>2. /\ opened \in Nat /\ losses \in 0 .. MaxLosses /\ opened < losses
      /\ claimed \in 0 .. opened /\ hostEpoch \in 0 .. opened
  BY <1>1, RestartAssumption DEF RestartInv, TypeOK, Intervals
<1>3. TypeOK'
  <2>1. opened' \in 0 .. MaxLosses /\ hostEpoch' \in 0 .. opened' /\ claimed' \in 0 .. opened'
    BY <1>1, <1>2, RestartAssumption
  <2>2. upRing' \in Seq(Token) /\ Len(upRing') <= RingSize
    BY <1>1, RestartAssumption
  <2> QED
    BY <1>1, <2>1, <2>2 DEF RestartInv, TypeOK, boardVars, hostVars, keeperVars, dataVars
<1>4. Intervals'
  BY <1>1, <1>2 DEF RestartInv, Intervals, Dated
<1>5. UpWhole'
  <2>1. Boundary \in Parser /\ Whole(Boundary, <<>>)
    BY StatesTyped, WholeEmpty DEF Whole
  <2> QED
    BY <1>1, <2>1 DEF UpWhole, Whole, Follows, Ends
<1>6. PromptClaim => DownWhole'
  BY <1>1, <1>2 DEF RestartInv, DownWhole, Follows, boardVars
<1> QED
  BY <1>1, <1>3, <1>4, <1>5, <1>6 DEF RestartInv

(* The host forgets what it had, and waits for a fresh kStartAck.          *)
LEMMA RecoverKeeps == ASSUME RestartInv, Recover, Notifies = TRUE PROVE RestartInv'
<1>1. /\ link = "reopened" /\ link' = "op" /\ hostEpoch' = opened /\ hostRing' = <<>>
      /\ hostParser' = Boundary /\ awaiting' = TRUE /\ hostSession' = FALSE
      /\ UNCHANGED <<downRing, upRing, opened, losses, claimed, pump, boardVars,
                     keeperVars, dataVars, hostGarbled, boardGarbled, staleRun>>
  BY DEF Recover, OnLinkRestart
<1>2. TypeOK'
  <2>1. hostRing' \in Seq(Token) /\ Len(hostRing') <= RingSize
    BY <1>1, RestartAssumption
  <2>2. hostEpoch' \in 0 .. opened'
    BY <1>1, RestartAssumption DEF RestartInv, TypeOK
  <2> QED
    BY <1>1, <2>1, <2>2, StatesTyped DEF RestartInv, TypeOK, boardVars, keeperVars, dataVars
<1>3. Intervals'
  <2>1. Dated(hostRing, opened)'
    BY <1>1 DEF Dated
  <2> QED
    BY <1>1, <2>1 DEF RestartInv, Intervals, Dated
<1>4. UpWhole'
  BY <1>1 DEF RestartInv, UpWhole, Whole, Follows, Ends
<1>5. ASSUME PromptClaim PROVE DownWhole'
  <2>1. Follows(boardParser, downRing)'
    BY <1>1, <1>5 DEF RestartInv, DownWhole, Follows, boardVars
  <2>2. Whole(Boundary, <<>>)
    BY WholeEmpty DEF Whole
  <2>3. claimed = opened => Ends(boardParser, downRing) = Boundary
    BY <1>1, <1>5 DEF RestartInv, DownWhole, Ends
  <2> QED
    BY <1>1, <2>1, <2>2, <2>3 DEF DownWhole, Whole, Follows, Ends, boardVars
<1> QED
  BY <1>1, <1>2, <1>3, <1>4, <1>5 DEF RestartInv

(* -------------------------------- core0 -------------------------------- *)

(* A claim is answered by emptying ring and parser together.               *)
LEMMA PumpClaimKeeps == ASSUME RestartInv, PumpClaim PROVE RestartInv'
<1>1. UNCHANGED <<hostRing, upRing, linkVars, pool, hostVars, keeperVars, dataVars,
                  hostGarbled, boardGarbled, staleRun>> /\ pump' = "pop"
  BY DEF PumpClaim
<1>2. CASE claimed = opened
  <2>1. UNCHANGED <<claimed, downRing, boardParser, boardSession, boardUplink>>
    BY <1>2 DEF PumpClaim
  <2>2. TypeOK'
    BY <1>1, <2>1 DEF RestartInv, TypeOK, linkVars, hostVars, keeperVars, dataVars
  <2>3. Intervals' /\ UpWhole' /\ (PromptClaim => DownWhole')
    BY <1>1, <2>1 DEF RestartInv, Intervals, UpWhole, DownWhole, Whole, Follows, Ends, Dated,
                      linkVars, hostVars
  <2> QED
    BY <1>1, <2>2, <2>3 DEF RestartInv
<1>3. CASE claimed # opened
  <2>1. /\ claimed' = opened /\ downRing' = <<>> /\ boardParser' = Boundary
        /\ boardSession' = FALSE /\ boardUplink' = FALSE
    BY <1>3 DEF PumpClaim, HandleLinkRestart, FlushDown
  <2>2. TypeOK'
    <3>1. downRing' \in Seq(Token) /\ Len(downRing') <= RingSize
      BY <2>1, RestartAssumption
    <3>2. claimed' \in 0 .. opened
      BY <2>1, RestartAssumption DEF RestartInv, TypeOK
    <3> QED
      BY <1>1, <2>1, <3>1, <3>2, StatesTyped
         DEF RestartInv, TypeOK, linkVars, hostVars, keeperVars, dataVars
  <2>3. Intervals'
    <3>1. Dated(downRing, claimed)'
      BY <2>1 DEF Dated
    <3> QED
      BY <1>1, <3>1 DEF RestartInv, Intervals, Dated, linkVars
  <2>4. UpWhole'
    BY <1>1 DEF RestartInv, UpWhole, Whole, Follows, Ends, linkVars, hostVars
  <2>5. ASSUME PromptClaim PROVE DownWhole'
    <3>1. Follows(boardParser, downRing)' /\ Ends(boardParser, downRing)' = Boundary
      BY <2>1, WholeEmpty DEF Follows, Ends
    <3>2. link' = "op" => Whole(Boundary, hostRing)'
      BY <1>1, <1>3, <2>5 DEF RestartInv, DownWhole, Whole, Follows, Ends, linkVars
    <3>3. claimed' = opened'
      BY <1>1, <2>1 DEF linkVars
    <3>4. link' = "op" => Whole(Ends(boardParser, downRing), hostRing)'
      BY <3>1, <3>2 DEF Whole, Ends, Follows
    <3> QED
      BY <2>1, <3>1, <3>3, <3>4 DEF DownWhole
  <2> QED
    BY <1>1, <2>2, <2>3, <2>4, <2>5 DEF RestartInv
<1> QED
  BY <1>2, <1>3

(* The pool stays within its size.                                         *)
LEMMA QueueTyped ==
    ASSUME NEW fields \in Seq(Field), Len(fields) <= PoolSize, NEW f \in Field
    PROVE  Queue(fields, f) \in Seq(Field) /\ Len(Queue(fields, f)) <= PoolSize
  BY RestartAssumption DEF Queue

(* The session callback leaves flags and a pool within its bound.          *)
LEMMA DispatchTyped ==
    ASSUME RestartInv, NEW kind, Dispatch(kind)
    PROVE  /\ boardSession' \in BOOLEAN /\ boardUplink' \in BOOLEAN
           /\ pool' \in Seq(Field) /\ Len(pool') <= PoolSize
<1>1. boardSession' \in BOOLEAN /\ boardUplink' \in BOOLEAN
  BY DEF Dispatch
<1>2. pool \in Seq(Field) /\ Len(pool) <= PoolSize /\ PoolSize \in Nat
  BY RestartAssumption DEF RestartInv, TypeOK
<1>3. Control("startAck") \in Field /\ Control("keepaliveAck") \in Field
  BY ControlTyped DEF Kind
<1>4. <<>> \in Seq(Field) /\ Len(<<>>) <= PoolSize
  BY RestartAssumption
<1>5. CASE kind = "start"
  <2> DEFINE old == IF boardSession THEN pool ELSE <<>>
  <2>1. old \in Seq(Field) /\ Len(old) <= PoolSize
    BY <1>2, <1>4
  <2>2. pool' = Queue(old, Control("startAck"))
    BY <1>5 DEF Dispatch
  <2> HIDE DEF old
  <2> QED
    BY <1>1, <1>3, <2>1, <2>2, QueueTyped
<1>6. CASE kind = "keepalive" /\ boardSession
  <2>1. pool' = Queue(pool, Control("keepaliveAck"))
    BY <1>6 DEF Dispatch
  <2> QED
    BY <1>1, <1>2, <1>3, <2>1, QueueTyped
<1>7. CASE kind # "start" /\ ~(kind = "keepalive" /\ boardSession)
  <2>1. pool' = pool
    BY <1>7 DEF Dispatch
  <2> QED
    BY <1>1, <1>2, <2>1
<1> QED
  BY <1>5, <1>6, <1>7

(* A parser that reads along is never surprised; a command it completes is *)
(* no older than the claim.                                                *)
LEMMA PumpPopKeeps == ASSUME RestartInv, PumpPop PROVE RestartInv'
<1>1. UNCHANGED <<hostRing, upRing, linkVars, claimed, hostVars, keeperVars,
                  dataVars, hostGarbled>> /\ pump' = "publish"
  BY DEF PumpPop
<1>2. CASE downRing = <<>>
  <2>1. UNCHANGED <<downRing, boardVars, boardGarbled, staleRun>>
    BY <1>2 DEF PumpPop
  <2>2. TypeOK'
    BY <1>1, <2>1 DEF RestartInv, TypeOK, linkVars, hostVars, keeperVars, dataVars, boardVars
  <2>3. Intervals' /\ UpWhole' /\ (PromptClaim => DownWhole')
    BY <1>1, <2>1 DEF RestartInv, Intervals, UpWhole, DownWhole, Whole, Follows, Ends, Dated,
                      linkVars, hostVars, boardVars
  <2> QED
    BY <1>1, <2>1, <2>2, <2>3 DEF RestartInv
<1>3. CASE downRing # <<>>
  <2> DEFINE t == Head(downRing)
             done == Completes(boardParser, t)
  <2>1. /\ downRing' = Tail(downRing)
        /\ boardParser' \in Parsed(boardParser, t)
        /\ boardGarbled' = (boardGarbled \/ Garbles(boardParser, t))
        /\ staleRun' = \/ staleRun
                       \/ /\ done /\ t.field.kind = "data" /\ boardSession
                          /\ t.field.epoch < claimed
        /\ done => Dispatch(t.field.kind)
        /\ ~done => UNCHANGED <<boardSession, boardUplink, pool>>
    BY <1>3 DEF PumpPop
  <2>2. /\ downRing \in Seq(Token) /\ Len(downRing) <= RingSize /\ boardParser \in Parser
        /\ claimed \in Nat /\ Dated(downRing, claimed)
    BY RestartAssumption DEF RestartInv, TypeOK, Intervals
  <2>3. /\ t \in Token /\ t = downRing[1] /\ Len(downRing) >= 1
        /\ downRing' \in Seq(Token) /\ Len(downRing') <= RingSize
    BY <1>3, <2>1, <2>2, HeadAndTail, RestartAssumption
  <2>4. boardParser' \in Parser
    <3>1. t.field \in Field /\ Control("junk") \in Field
      BY <2>3, ControlTyped DEF Token, Kind
    <3>2. Discard \in Parser
      BY <3>1 DEF Discard, Parser
    <3>3. Inside(t.field) \in Parser /\ Inside(Control("junk")) \in Parser /\ Boundary \in Parser
      BY <3>1, StatesTyped
    <3> HIDE DEF t
    <3> QED
      BY <2>1, <3>2, <3>3 DEF Parsed
  <2>5. staleRun' = FALSE
    <3>1. 1 \in 1 .. Len(downRing)
      BY <2>2, <2>3
    <3>2. t.field.kind = "data" => t.field.epoch >= claimed
      BY <2>2, <2>3, <3>1 DEF Dated
    <3>3. t.field.epoch \in Nat
      BY <2>3, RestartAssumption DEF Token, Field
    <3>4. ~(t.field.kind = "data" /\ t.field.epoch < claimed)
      BY <2>2, <3>2, <3>3
    <3> HIDE DEF t, done
    <3> QED
      BY <2>1, <3>4 DEF RestartInv
  <2>6. /\ boardSession' \in BOOLEAN /\ boardUplink' \in BOOLEAN
        /\ pool' \in Seq(Field) /\ Len(pool') <= PoolSize /\ boardGarbled' \in BOOLEAN
    <3>1. boardGarbled' \in BOOLEAN
      BY <2>1
    <3>2. CASE done
      BY <2>1, <3>1, <3>2, DispatchTyped
    <3>3. CASE ~done
      BY <2>1, <3>1, <3>3 DEF RestartInv, TypeOK
    <3> QED
      BY <3>2, <3>3
  <2> HIDE DEF done
  <2>7. TypeOK'
    BY <1>1, <2>3, <2>4, <2>5, <2>6
       DEF RestartInv, TypeOK, linkVars, hostVars, keeperVars, dataVars
  <2>8. Intervals'
    <3>1. Dated(downRing', claimed)
      BY <1>3, <2>1, <2>2, DatedTail
    <3> QED
      BY <1>1, <3>1 DEF RestartInv, Intervals, Dated, linkVars
  <2>9. UpWhole'
    BY <1>1 DEF RestartInv, UpWhole, Whole, Follows, Ends, linkVars, hostVars
  <2>10. ASSUME PromptClaim PROVE DownWhole' /\ ~boardGarbled'
    <3>1. Follows(boardParser, downRing) /\ ~boardGarbled
      BY <2>10 DEF RestartInv, DownWhole
    <3>2. /\ Expected(boardParser, t) /\ Follows(After(t), downRing')
          /\ Ends(After(t), downRing') = Ends(boardParser, downRing)
      BY <1>3, <2>1, <2>2, <3>1, FollowsTail
    <3>3. boardParser' = After(t) /\ ~Garbles(boardParser, t)
      BY <2>1, <2>2, <2>3, <3>2, ParsedExpected
    <3>4. ~boardGarbled'
      BY <2>1, <3>1, <3>3
    <3> HIDE DEF t
    <3>5. Follows(boardParser, downRing)'
          /\ Ends(boardParser, downRing)' = Ends(boardParser, downRing)
      BY <3>2, <3>3 DEF Follows, Ends
    <3>6. DownWhole'
      BY <1>1, <1>3, <2>10, <3>5 DEF RestartInv, DownWhole, Whole, linkVars, Follows, Ends
    <3> QED
      BY <3>4, <3>6
  <2> QED
    BY <1>1, <2>5, <2>7, <2>8, <2>9, <2>10 DEF RestartInv
<1> QED
  BY <1>2, <1>3

(* A batch goes up as a whole field or not at all.                         *)
LEMMA PumpPublishKeeps == ASSUME RestartInv, PumpPublish PROVE RestartInv'
<1>1. UNCHANGED <<hostRing, downRing, linkVars, claimed, boardParser, hostVars,
                  keeperVars, dataVars, hostGarbled, boardGarbled, staleRun>>
      /\ pump' = "claim"
  BY DEF PumpPublish
<1>2. Intervals' /\ (PromptClaim => DownWhole')
  BY <1>1 DEF RestartInv, Intervals, DownWhole, Whole, Follows, Ends, Dated, linkVars
<1>3. CASE upRing' = upRing /\ pool' = pool
  <2>1. boardSession' \in BOOLEAN /\ boardUplink' \in BOOLEAN
    BY <1>3 DEF PumpPublish, RestartInv, TypeOK
  <2>2. TypeOK'
    BY <1>1, <1>3, <2>1 DEF RestartInv, TypeOK, linkVars, hostVars, keeperVars, dataVars
  <2>3. UpWhole'
    BY <1>1, <1>3 DEF RestartInv, UpWhole, Whole, Follows, Ends, linkVars, hostVars
  <2> QED
    BY <1>1, <1>2, <2>2, <2>3 DEF RestartInv
<1>4. CASE /\ pool # <<>> /\ Len(upRing) + 2 <= RingSize
           /\ upRing' = upRing \o Tokens(Head(pool)) /\ pool' = Tail(pool)
           /\ UNCHANGED <<boardSession, boardUplink>>
  <2> DEFINE f == Head(pool)
  <2>1. /\ pool \in Seq(Field) /\ upRing \in Seq(Token) /\ Len(pool) <= PoolSize
        /\ PoolSize \in Nat /\ RingSize \in Nat
    BY RestartAssumption DEF RestartInv, TypeOK
  <2>2. f \in Field /\ pool' \in Seq(Field) /\ Len(pool') <= PoolSize
    BY <1>4, <2>1
  <2> HIDE DEF f
  <2>3. upRing' = upRing \o Tokens(f)
    BY <1>4 DEF f
  <2>4. upRing' \in Seq(Token) /\ Len(upRing') <= RingSize
    <3>1. Len(upRing) + 2 <= RingSize
      BY <1>4
    <3> QED
      BY <2>1, <2>2, <2>3, <3>1, SentTyped
  <2>5. TypeOK'
    BY <1>1, <1>4, <2>2, <2>4 DEF RestartInv, TypeOK, linkVars, hostVars, keeperVars, dataVars
  <2>6. \A p : Whole(p, upRing) => Whole(p, upRing')
    BY <2>1, <2>2, <2>3, WholeField
  <2>7. UpWhole'
    BY <1>1, <2>6 DEF RestartInv, UpWhole, Whole, Follows, Ends, linkVars, hostVars
  <2> QED
    BY <1>1, <1>2, <2>5, <2>7 DEF RestartInv
<1> QED
  BY <1>3, <1>4 DEF PumpPublish

(* A driver report only fills the pool, which refuses what is too much.    *)
LEMMA ReportKeeps == ASSUME RestartInv, Report PROVE RestartInv'
<1> DEFINE f == [kind |-> "data", id |-> dataUp + 1, epoch |-> 0]
<1>1. dataUp' \in 0 .. MaxData /\ dataUp' = dataUp + 1
  BY RestartAssumption DEF Report, RestartInv, TypeOK
<1>2. f \in Field
  BY <1>1, RestartAssumption DEF Field, Kind
<1>3. pool' = Queue(pool, f) /\ pool \in Seq(Field) /\ Len(pool) <= PoolSize
  BY DEF Report, RestartInv, TypeOK
<1> HIDE DEF f
<1>4. pool' \in Seq(Field) /\ Len(pool') <= PoolSize
  BY <1>2, <1>3, QueueTyped
<1>5. UNCHANGED <<hostRing, downRing, upRing, linkVars, claimed, pump, boardParser,
                  boardSession, boardUplink, hostVars, keeperVars, dataDown, early,
                  hostGarbled, boardGarbled, staleRun>>
  BY DEF Report
<1>6. TypeOK'
  BY <1>1, <1>4, <1>5 DEF RestartInv, TypeOK, linkVars, hostVars, keeperVars
<1>7. Intervals' /\ UpWhole' /\ (PromptClaim => DownWhole')
  BY <1>5 DEF RestartInv, Intervals, UpWhole, DownWhole, Whole, Follows, Ends, Dated,
              linkVars, hostVars
<1> QED
  BY <1>5, <1>6, <1>7 DEF RestartInv

(* ------------------------- what a flush drops -------------------------- *)

(* Taking a token leaves nothing younger behind.                           *)
LEMMA WrittenTail ==
    ASSUME NEW q \in Seq(Token), q # <<>>, NEW n, Written(q, n)
    PROVE  Written(Tail(q), n) /\ (Head(q).field.kind = "data" => Head(q).field.epoch <= n)
<1> DEFINE r == Tail(q)
           t == Head(q)
<1>1. /\ Len(r) = Len(q) - 1 /\ Len(q) \in Nat /\ Len(q) > 0 /\ t = q[1]
      /\ \A i \in 1 .. Len(r) : r[i] = q[i + 1]
  OBVIOUS
<1> HIDE DEF r, t
<1>2. 1 \in 1 .. Len(q) /\ \A i \in 1 .. Len(r) : i + 1 \in 1 .. Len(q)
  BY <1>1
<1>3. Written(r, n) /\ (t.field.kind = "data" => t.field.epoch <= n)
  BY <1>1, <1>2 DEF Written
<1> QED
  BY <1>3 DEF r, t

(* A token old enough may be added.                                        *)
LEMMA WrittenAppend ==
    ASSUME NEW q \in Seq(Token), NEW n, NEW t \in Token, Written(q, n),
           t.field.kind = "data" => t.field.epoch <= n
    PROVE  Written(Append(q, t), n)
<1> DEFINE r == Append(q, t)
<1>1. /\ Len(r) = Len(q) + 1 /\ Len(q) \in Nat /\ r[Len(q) + 1] = t
      /\ \A i \in 1 .. Len(q) : r[i] = q[i]
  OBVIOUS
<1> HIDE DEF r
<1>2. \A i \in 1 .. Len(r) : i \in 1 .. Len(q) \/ i = Len(q) + 1
  BY <1>1
<1>3. Written(r, n)
  BY <1>1, <1>2 DEF Written
<1> QED
  BY <1>3 DEF r

(* And so may a field.                                                     *)
LEMMA WrittenField ==
    ASSUME NEW q \in Seq(Token), NEW n, NEW f \in Field, Written(q, n),
           f.kind = "data" => f.epoch <= n
    PROVE  Written(q \o Tokens(f), n)
<1> DEFINE a == [field |-> f, part |-> "head"]
           b == [field |-> f, part |-> "tail"]
<1>1. a \in Token /\ b \in Token /\ a.field = f /\ b.field = f
  BY DEF Token
<1>2. q \o Tokens(f) = Append(Append(q, a), b) /\ Append(q, a) \in Seq(Token)
  BY <1>1 DEF Tokens
<1> HIDE DEF a, b
<1>3. Written(Append(q, a), n)
  BY <1>1, WrittenAppend
<1>4. Written(Append(Append(q, a), b), n)
  BY <1>1, <1>2, <1>3, WrittenAppend
<1> QED
  BY <1>2, <1>4

(* What a step does to the dates: at most one ring changes at its ends.    *)
LEMMA FlushStep ==
    ASSUME RestartInv, FlushInv, [Next]_vars, Notifies = TRUE
    PROVE  FlushInv'
<1>1. /\ hostRing \in Seq(Token) /\ downRing \in Seq(Token)
      /\ opened \in Nat /\ hostEpoch \in Nat /\ hostEpoch <= opened
      /\ Written(hostRing, hostEpoch) /\ Written(downRing, opened)
  BY RestartAssumption DEF RestartInv, TypeOK, FlushInv
<1>2. ASSUME NEW f \in Field, Send(f), f.kind = "data" => f.epoch = hostEpoch,
             UNCHANGED <<downRing, opened, hostEpoch, claimed>>
      PROVE  FlushInv'
  <2>1. f.kind = "data" => f.epoch <= hostEpoch
    BY <1>1, <1>2
  <2>2. Written(hostRing', hostEpoch)
    BY <1>1, <1>2, <2>1, WrittenField DEF Send
  <2> QED
    BY <1>2, <2>2 DEF FlushInv, Written
<1>3. CASE Decide
  <2> DEFINE f == Control(IF hostSession THEN "keepalive" ELSE "start")
  <2>1. f \in Field /\ f.kind # "data" /\ Send(f)
        /\ UNCHANGED <<downRing, opened, hostEpoch, claimed>>
    BY <1>3, ControlTyped DEF Decide, Kind, Control, linkVars
  <2> HIDE DEF f
  <2> QED
    BY <1>2, <2>1
<1>4. CASE TryAgain
  <2> DEFINE f == Control(IF keeper = "refresh" THEN "keepalive" ELSE "start")
  <2>1. f \in Field /\ f.kind # "data" /\ Send(f)
        /\ UNCHANGED <<downRing, opened, hostEpoch, claimed>>
    BY <1>4, ControlTyped DEF TryAgain, Kind, Control, linkVars
  <2> HIDE DEF f
  <2> QED
    BY <1>2, <2>1
<1>5. CASE HostWrite
  <2> DEFINE f == [kind |-> "data", id |-> dataDown + 1, epoch |-> hostEpoch]
  <2>1. dataDown' \in 0 .. MaxData /\ hostEpoch \in 0 .. MaxLosses /\ dataDown' = dataDown + 1
    BY <1>5, RestartAssumption DEF HostWrite, RestartInv, TypeOK
  <2>2. f \in Field /\ f.epoch = hostEpoch /\ Send(f)
        /\ UNCHANGED <<downRing, opened, hostEpoch, claimed>>
    BY <1>5, <2>1 DEF HostWrite, Field, Kind, linkVars
  <2> HIDE DEF f
  <2> QED
    BY <1>2, <2>2
<1>6. CASE TransferDown
  <2> DEFINE t == Head(hostRing)
  <2>1. /\ hostRing # <<>> /\ downRing' = Append(downRing, t) /\ hostRing' = Tail(hostRing)
        /\ PromptClaim => claimed = opened
        /\ UNCHANGED <<opened, hostEpoch, claimed>>
    BY <1>6 DEF TransferDown, linkVars
  <2>2. /\ Written(hostRing', hostEpoch) /\ t \in Token
        /\ t.field.kind = "data" => t.field.epoch <= hostEpoch
    BY <1>1, <2>1, WrittenTail, HeadAndTail
  <2>3. t.field.kind = "data" => t.field.epoch <= opened
    BY <1>1, <2>2 DEF Token, Field
  <2> HIDE DEF t
  <2>4. Written(downRing', opened)
    BY <1>1, <2>1, <2>2, <2>3, WrittenAppend
  <2> QED
    BY <2>1, <2>2, <2>4 DEF FlushInv, Written
<1>7. CASE Reopen
  <2>1. UNCHANGED <<hostRing, downRing, hostEpoch, claimed>> /\ opened' = opened + 1
    BY <1>7 DEF Reopen
  <2>2. ASSUME NEW i \in 1 .. Len(downRing), downRing[i].field.kind = "data"
        PROVE  downRing[i].field.epoch < opened' /\ downRing[i].field.epoch <= opened'
    <3>1. downRing[i] \in Token /\ downRing[i].field.epoch <= opened
      BY <1>1, <2>2 DEF Written
    <3>2. downRing[i].field.epoch \in Nat
      BY <3>1, RestartAssumption DEF Token, Field
    <3> QED
      BY <1>1, <2>1, <3>1, <3>2
  <2> QED
    BY <1>1, <2>1, <2>2 DEF FlushInv, Written
<1>8. CASE Recover
  <2>1. UNCHANGED <<downRing, opened, claimed>> /\ hostEpoch' = opened /\ hostRing' = <<>>
    BY <1>8 DEF Recover
  <2>2. Written(hostRing', hostEpoch')
    BY <2>1 DEF Written
  <2> QED
    BY <2>1, <2>2 DEF FlushInv, Written
<1>9. CASE PumpClaim
  <2>1. UNCHANGED <<hostRing, hostEpoch, opened>>
        /\ (downRing' = <<>> \/ UNCHANGED <<downRing, claimed>>)
    BY <1>9 DEF PumpClaim, FlushDown, linkVars
  <2>2. CASE downRing' = <<>>
    BY <1>1, <2>1, <2>2 DEF FlushInv, Written
  <2>3. CASE UNCHANGED <<downRing, claimed>>
    BY <2>1, <2>3 DEF FlushInv, Written
  <2> QED
    BY <2>1, <2>2, <2>3
<1>10. CASE PumpPop
  <2>1. /\ UNCHANGED <<hostRing, hostEpoch, opened, claimed>>
        /\ UNCHANGED downRing \/ (downRing # <<>> /\ downRing' = Tail(downRing))
    BY <1>10 DEF PumpPop, linkVars
  <2>2. CASE UNCHANGED downRing
    BY <2>1, <2>2 DEF FlushInv, Written
  <2>3. CASE downRing # <<>> /\ downRing' = Tail(downRing)
    <3> DEFINE r == Tail(downRing)
    <3>1. Written(r, opened)
      BY <1>1, <2>3, WrittenTail
    <3>2. /\ \A i \in 1 .. Len(r) : r[i] = downRing[i + 1]
          /\ Len(r) = Len(downRing) - 1 /\ Len(downRing) \in Nat
      BY <1>1, <2>3
    <3>3. downRing' = r
      BY <2>3
    <3> HIDE DEF r
    <3>4. \A i \in 1 .. Len(r) : i + 1 \in 1 .. Len(downRing)
      BY <3>2
    <3>5. PromptClaim /\ claimed # opened =>
             \A i \in 1 .. Len(r) : r[i].field.kind = "data" => r[i].field.epoch < opened
      BY <3>2, <3>4 DEF FlushInv
    <3> QED
      BY <1>1, <2>1, <3>1, <3>3, <3>5 DEF FlushInv, Written
  <2> QED
    BY <2>1, <2>2, <2>3
<1>11. CASE UNCHANGED <<hostRing, downRing, hostEpoch, opened, claimed>>
  BY <1>11 DEF FlushInv, Written
<1>12. CASE Answered \/ GiveUp \/ TransferUp \/ LoseLink \/ PumpPublish \/ Report
            \/ UNCHANGED vars
  <2>1. UNCHANGED <<hostRing, downRing, hostEpoch, opened, claimed>>
    BY <1>12 DEF Answered, GiveUp, TransferUp, LoseLink, PumpPublish, Report, vars, linkVars
  <2> QED
    BY <1>11, <2>1
<1> QED
  BY <1>3, <1>4, <1>5, <1>6, <1>7, <1>8, <1>9, <1>10, <1>12 DEF Next

(* ------------------------------- theorems ------------------------------ *)

(* The invariant of a host that is told of every restart, as IgH's is,     *)
(* holds whatever happens to the link.                                     *)
THEOREM RestartInvariant ==
    ASSUME Notifies = TRUE
    PROVE  Spec => []RestartInv
<1>1. RestartInv /\ [Next]_vars => RestartInv'
  <2> SUFFICES ASSUME RestartInv, [Next]_vars PROVE RestartInv'
    OBVIOUS
  <2>1. CASE UNCHANGED vars
    <3>1. TypeOK'
      BY <2>1 DEF RestartInv, TypeOK, vars, linkVars, boardVars, hostVars, keeperVars, dataVars
    <3>2. Intervals' /\ UpWhole' /\ (PromptClaim => DownWhole')
      BY <2>1 DEF RestartInv, Intervals, UpWhole, DownWhole, Whole, Follows, Ends, Dated,
                  vars, linkVars, boardVars, hostVars
    <3>3. UNCHANGED <<boardGarbled, hostGarbled, staleRun>>
      BY <2>1 DEF vars
    <3> QED
      BY <3>1, <3>2, <3>3 DEF RestartInv
  <2>2. CASE Decide \/ Answered \/ TryAgain \/ GiveUp \/ HostWrite
    BY <2>2, DecideKeeps, AnsweredKeeps, TryAgainKeeps, GiveUpKeeps, HostWriteKeeps
  <2>3. CASE TransferDown \/ TransferUp \/ LoseLink \/ Reopen \/ Recover
    BY <2>3, TransferDownKeeps, TransferUpKeeps, LoseLinkKeeps, ReopenKeeps, RecoverKeeps
  <2>4. CASE PumpClaim \/ PumpPop \/ PumpPublish \/ Report
    BY <2>4, PumpClaimKeeps, PumpPopKeeps, PumpPublishKeeps, ReportKeeps
  <2> QED
    BY <2>1, <2>2, <2>3, <2>4 DEF Next
<1> QED
  BY <1>1, InitRestart, PTL DEF Spec

(* No ring, pool or counter of either side outgrows its bound.             *)
THEOREM RestartTypes ==
    ASSUME Notifies = TRUE
    PROVE  Spec => []TypeOK
<1>1. RestartInv => TypeOK
  BY DEF RestartInv
<1> QED
  BY <1>1, RestartInvariant, PTL

(* Neither side ever reads the end of one field as the beginning of        *)
(* another, whenever the link was lost, if core0 sees a claim before the   *)
(* first bytes of the new interval.                                        *)
THEOREM FieldsAligned ==
    ASSUME Notifies = TRUE, PromptClaim = TRUE
    PROVE  Spec => []ParsersAligned
<1>1. RestartInv => ParsersAligned
  BY DEF RestartInv, ParsersAligned
<1> QED
  BY <1>1, RestartInvariant, PTL

(* No command written before a loss is executed once core0 has honoured    *)
(* the claim that followed it, however late it sees that claim.            *)
THEOREM BacklogDropped ==
    ASSUME Notifies = TRUE
    PROVE  Spec => []NoStaleCommand
<1>1. RestartInv => NoStaleCommand
  BY DEF RestartInv, NoStaleCommand
<1> QED
  BY <1>1, RestartInvariant, PTL

(* The flush that answers a claim drops bytes of earlier intervals only,   *)
(* if core0 sees the claim before the first bytes of the new one arrive.   *)
THEOREM FlushesOld ==
    ASSUME Notifies = TRUE, PromptClaim = TRUE
    PROVE  Spec => FlushesOnlyOldBytes
<1>1. Init => FlushInv
  BY DEF Init, FlushInv, Written
<1>2. RestartInv /\ FlushInv /\ [Next]_vars => FlushInv'
  BY FlushStep
<1>3. FlushInv /\ [Next]_vars =>
        [claimed' # claimed =>
           \A i \in 1 .. Len(downRing) :
              downRing[i].field.kind = "data" => downRing[i].field.epoch < opened]_vars
  <2> SUFFICES ASSUME FlushInv, Next, claimed' # claimed
               PROVE  \A i \in 1 .. Len(downRing) :
                         downRing[i].field.kind = "data" => downRing[i].field.epoch < opened
    OBVIOUS
  <2>1. PumpClaim
    BY DEF Next, Decide, Answered, TryAgain, GiveUp, HostWrite, TransferDown, TransferUp,
           LoseLink, Reopen, Recover, PumpPop, PumpPublish, Report
  <2>2. claimed # opened
    BY <2>1 DEF PumpClaim
  <2> QED
    BY <2>2 DEF FlushInv
<1> QED
  BY <1>1, <1>2, <1>3, RestartInvariant, PTL DEF Spec, FlushesOnlyOldBytes
=============================================================================
