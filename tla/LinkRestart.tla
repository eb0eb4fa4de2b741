---------------------------- MODULE LinkRestart ----------------------------
(***************************************************************************)
(* The session between a host program and a board over EtherCAT, across    *)
(* losses of the link: the host's Handler (handler.cpp) on the SOEM or the *)
(* IgH transport, the EtherCAT core's reset on SAFEOP -> OP (ecat_pd.cpp), *)
(* and core0's pump and HostSession (pd_link.cpp, host_session.hpp).       *)
(*                                                                         *)
(* While the link is up each direction is an exactly-once byte stream:     *)
(* that is PdStream's theorem, used here as a queue.  This module is about *)
(* what a reset leaves behind in the queues and the parsers on both sides. *)
(* A protocol field is two tokens, its head and its tail, so that a stream *)
(* can break in the middle of one.  A parser that meets the wrong token    *)
(* may take it for anything: a field it knows, the start of a longer one,  *)
(* or an unknown one that puts it into discard mode.                       *)
(***************************************************************************)
EXTENDS Naturals, Sequences, SequencesExt

CONSTANTS Notifies,     \* IgH clears its ring and tells the Handler that the
                        \* link restarted (TRUE); SOEM does neither (FALSE)
          PromptClaim,  \* core0 sees a claim before the first new bytes
          MaxEarly,     \* bound: timeouts that fire with an answer under way
          Window,       \* tokens the host's ARQ window may hold
          Attempts,     \* kSessionAckRetryCount
          RingSize,     \* bound: tokens in a ring
          PoolSize,     \* fields the uplink batch pool holds
          MaxData,      \* bound: data fields each side ever sends
          MaxLosses     \* bound: losses of the link

ASSUME RestartAssumption ==
    /\ Notifies \in BOOLEAN /\ PromptClaim \in BOOLEAN
    /\ Window \in Nat /\ Attempts \in Nat \ {0}
    /\ RingSize \in Nat /\ RingSize >= 2 /\ PoolSize \in Nat \ {0}
    /\ MaxData \in Nat /\ MaxLosses \in Nat /\ MaxEarly \in Nat

VARIABLES
    hostRing,     \* transmit_ring_ and the host's ARQ window
    downRing,     \* the down ring between the board's cores
    upRing,       \* the up ring and the board's ARQ window
    link,         \* "op", "lost", or "reopened" until the host noticed
    opened,       \* ecat_claim: SAFEOP -> OP transitions so far
    hostEpoch,    \* the one the host has last recovered from
    claimed,      \* g_last_ecat_claim
    pump,         \* where core0's pump_data_plane pass stands
    boardParser, boardSession, boardUplink, pool,   \* PdLink, a HostSession
    hostParser, awaiting, hostSession,              \* the Handler
    keeper, attempt, answered,                      \* its keepalive thread
    dataDown, dataUp,           \* data fields sent so far
    early,                      \* early timeouts so far
    losses,
    hostGarbled, boardGarbled,  \* history: a parser met the wrong token
    staleRun                    \* history: a pre-restart command was executed

boardVars == <<boardParser, boardSession, boardUplink, pool>>
hostVars == <<hostParser, awaiting, hostSession>>
keeperVars == <<keeper, attempt, answered>>
linkVars == <<link, opened, hostEpoch, losses>>
dataVars == <<dataDown, dataUp, early>>
vars == <<hostRing, downRing, upRing, linkVars, claimed, pump, boardVars,
          hostVars, keeperVars, dataVars, hostGarbled, boardGarbled, staleRun>>

Kind == {"start", "startAck", "keepalive", "keepaliveAck", "data", "junk"}
Field == [kind : Kind, id : 0 .. MaxData, epoch : 0 .. MaxLosses]
Token == [field : Field, part : {"head", "tail"}]

Control(kind) == [kind |-> kind, id |-> 0, epoch |-> 0]
Tokens(field) == <<[field |-> field, part |-> "head"], [field |-> field, part |-> "tail"]>>

(* A parser between two fields, in the middle of one, or in discard mode.  *)
Boundary == [state |-> "boundary", field |-> Control("junk")]
Inside(field) == [state |-> "inside", field |-> field]
Discard == [state |-> "discard", field |-> Control("junk")]
Parser == [state : {"boundary", "inside", "discard"}, field : Field]

Expected(parser, token) ==
    \/ parser.state = "boundary" /\ token.part = "head"
    \/ parser.state = "inside" /\ token.part = "tail" /\ parser.field = token.field

(* Deserializer::feed.  Any bytes may follow a wrong turn.                 *)
Parsed(parser, token) ==
    IF parser.state = "discard" THEN {Discard}
    ELSE IF ~Expected(parser, token)
         THEN {Boundary, Inside(Control("junk")), Discard}
    ELSE IF token.part = "head" THEN {Inside(token.field)} ELSE {Boundary}

Garbles(parser, token) == parser.state # "discard" /\ ~Expected(parser, token)
Completes(parser, token) ==
    parser.state = "inside" /\ token.part = "tail" /\ parser.field = token.field

Init ==
    /\ hostRing = <<>> /\ downRing = <<>> /\ upRing = <<>>
    /\ link = "op" /\ opened = 0 /\ hostEpoch = 0 /\ claimed = 0 /\ losses = 0
    /\ pump = "claim"
    /\ boardParser = Boundary /\ boardSession = FALSE /\ boardUplink = FALSE
    /\ pool = <<>>
    /\ hostParser = Boundary /\ awaiting = TRUE /\ hostSession = FALSE
    /\ keeper = "decide" /\ attempt = 0 /\ answered = FALSE
    /\ dataDown = 0 /\ dataUp = 0 /\ early = 0
    /\ hostGarbled = FALSE /\ boardGarbled = FALSE /\ staleRun = FALSE
-----------------------------------------------------------------------------
(* The host's keepalive thread and its users.  transmit() takes a field as *)
(* a whole and waits while the ring has no room for it.                    *)
Send(field) ==
    /\ Len(hostRing) + 2 <= RingSize
    /\ hostRing' = hostRing \o Tokens(field)

(* keepalive_loop: refresh the session or open one.                        *)
Decide ==
    /\ keeper = "decide"
    /\ keeper' = IF hostSession THEN "refresh" ELSE "open"
    /\ attempt' = 1
    /\ answered' = FALSE
    /\ Send(Control(IF hostSession THEN "keepalive" ELSE "start"))
    /\ UNCHANGED <<downRing, upRing, linkVars, claimed, pump, boardVars, hostVars,
                   dataVars, hostGarbled, boardGarbled, staleRun>>

(* An answer is under way, or the request that will bring one.             *)
Pending == /\ link = "op"
           /\ \/ \E q \in {hostRing, downRing, upRing} : \E i \in 1 .. Len(q) :
                    q[i].field.kind \notin {"data", "junk"}
              \/ boardSession /\ \E i \in 1 .. Len(pool) : pool[i].kind # "data"
              \/ claimed # opened

(* wait_for gives up: as a rule when no answer will come, but a slow       *)
(* answer may also lose the race.                                          *)
TimesOut ==
    /\ keeper \in {"open", "refresh"} /\ ~answered
    /\ Pending => early < MaxEarly
    /\ early' = early + IF Pending THEN 1 ELSE 0

(* wait_for is satisfied; refresh_session also returns when the session    *)
(* went away under it.                                                     *)
Answered ==
    /\ keeper \in {"open", "refresh"}
    /\ answered \/ (keeper = "refresh" /\ ~hostSession)
    /\ keeper' = "decide"
    /\ UNCHANGED <<hostRing, downRing, upRing, linkVars, claimed, pump, boardVars,
                   hostVars, attempt, answered, dataVars, hostGarbled,
                   boardGarbled, staleRun>>

TryAgain ==
    /\ TimesOut
    /\ attempt < Attempts
    /\ keeper = "refresh" => hostSession
    /\ attempt' = attempt + 1
    /\ answered' = FALSE
    /\ Send(Control(IF keeper = "refresh" THEN "keepalive" ELSE "start"))
    /\ UNCHANGED <<downRing, upRing, linkVars, claimed, pump, boardVars, hostVars,
                   keeper, dataDown, dataUp, hostGarbled, boardGarbled, staleRun>>

(* handle_session_failure; EtherCAT transports keep the default            *)
(* try_recover_link, which does nothing.                                   *)
GiveUp ==
    /\ TimesOut
    /\ attempt = Attempts
    /\ hostSession' = FALSE
    /\ keeper' = "decide"
    /\ UNCHANGED <<hostRing, downRing, upRing, linkVars, claimed, pump, boardVars,
                   hostParser, awaiting, attempt, answered, dataDown, dataUp,
                   hostGarbled, boardGarbled, staleRun>>

(* An application writes a command; PacketBuilder asks for no session.     *)
HostWrite ==
    /\ dataDown < MaxData
    /\ dataDown' = dataDown + 1
    /\ Send([kind |-> "data", id |-> dataDown + 1, epoch |-> hostEpoch])
    /\ UNCHANGED <<downRing, upRing, linkVars, claimed, pump, boardVars, hostVars,
                   keeperVars, dataUp, early, hostGarbled, boardGarbled, staleRun>>
-----------------------------------------------------------------------------
(* The wire.  on_peer_chunk on the board pushes into the down ring.        *)
TransferDown ==
    /\ link = "op" /\ hostRing # <<>> /\ Len(downRing) < RingSize
    /\ PromptClaim => claimed = opened
    /\ downRing' = Append(downRing, Head(hostRing))
    /\ hostRing' = Tail(hostRing)
    /\ UNCHANGED <<upRing, linkVars, claimed, pump, boardVars, hostVars, keeperVars,
                   dataVars, hostGarbled, boardGarbled, staleRun>>

(* receive_stream: until the session is (re)opened, only this Handler's    *)
(* kStartAck counts; from then on every byte goes to the parser.           *)
Scan(token) ==
    LET aligned == hostParser.state = "inside"
                   /\ token = [field |-> Control("startAck"), part |-> "tail"]
        starts == token = [field |-> Control("startAck"), part |-> "head"]
    IN  /\ awaiting' = ~aligned
        /\ hostParser' = IF starts THEN Inside(token.field) ELSE Boundary
        /\ IF aligned
           THEN hostSession' = TRUE /\ answered' = (answered \/ keeper = "open")
           ELSE UNCHANGED <<hostSession, answered>>
        /\ UNCHANGED hostGarbled

Feed(token) ==
    /\ hostParser' \in Parsed(hostParser, token)
    /\ hostGarbled' = (hostGarbled \/ Garbles(hostParser, token))
    /\ LET kind == IF Completes(hostParser, token) THEN token.field.kind ELSE "junk" IN
       /\ hostSession' = (hostSession \/ kind = "startAck")
       /\ answered' = \/ answered
                      \/ kind = "startAck" /\ keeper = "open"
                      \/ kind = "keepaliveAck" /\ keeper = "refresh"
    /\ UNCHANGED awaiting

TransferUp ==
    /\ link = "op" /\ upRing # <<>>
    /\ upRing' = Tail(upRing)
    /\ IF awaiting THEN Scan(Head(upRing)) ELSE Feed(Head(upRing))
    /\ UNCHANGED <<hostRing, downRing, linkVars, claimed, pump, boardVars, keeper,
                   attempt, dataVars, boardGarbled, staleRun>>

(* The link is lost and the board leaves OP.                               *)
LoseLink ==
    /\ link # "lost" /\ losses < MaxLosses
    /\ losses' = losses + 1
    /\ link' = "lost"
    /\ UNCHANGED <<hostRing, downRing, upRing, opened, hostEpoch, claimed, pump,
                   boardVars, hostVars, keeperVars, dataVars, hostGarbled,
                   boardGarbled, staleRun>>

(* ecat_pd_reset: forget the ARQ window, drain the ring this core consumes *)
(* and claim the data plane.                                               *)
Reopen ==
    /\ link = "lost"
    /\ link' = "reopened"
    /\ opened' = opened + 1
    /\ upRing' = <<>>
    /\ UNCHANGED <<hostRing, downRing, hostEpoch, losses, claimed, pump, boardVars,
                   hostVars, keeperVars, dataVars, hostGarbled, boardGarbled, staleRun>>

(* The Handler's on_link_restart callback: leave the field that was being  *)
(* read, and wait for a fresh kStartAck.                                   *)
OnLinkRestartBlind == hostSession' = FALSE /\ UNCHANGED <<hostParser, awaiting>>  \* slip: the parser runs on
OnLinkRestart == hostParser' = Boundary /\ awaiting' = TRUE /\ hostSession' = FALSE

(* The host sees the board back in OP and resets its endpoint: what its    *)
(* window held is gone.  IgH also clears the ring and calls back; SOEM     *)
(* does neither.                                                           *)
Recover ==
    /\ link = "reopened"
    /\ link' = "op"
    /\ hostEpoch' = opened
    /\ IF Notifies
       THEN hostRing' = <<>> /\ OnLinkRestart
       ELSE /\ \E n \in 0 .. Window :
                  /\ n <= Len(hostRing)
                  /\ hostRing' = SubSeq(hostRing, n + 1, Len(hostRing))
            /\ UNCHANGED hostVars
    /\ UNCHANGED <<downRing, upRing, opened, losses, claimed, pump, boardVars,
                   keeperVars, dataVars, hostGarbled, boardGarbled, staleRun>>
-----------------------------------------------------------------------------
(* core0: one pass of pump_data_plane looks at the claim, pops the down    *)
(* ring, and publishes a batch.                                            *)
HandleLinkRestartMidField ==          \* slip: the truncated field stays open
    boardSession' = FALSE /\ boardUplink' = FALSE /\ UNCHANGED boardParser
HandleLinkRestart ==
    boardParser' = Boundary /\ boardSession' = FALSE /\ boardUplink' = FALSE

FlushDownNot == UNCHANGED downRing    \* slip: the old interval's bytes stay
FlushDown == downRing' = <<>>

PumpClaim ==
    /\ pump = "claim"
    /\ pump' = "pop"
    /\ IF claimed = opened
       THEN UNCHANGED <<claimed, downRing, boardParser, boardSession, boardUplink>>
       ELSE /\ claimed' = opened
            /\ HandleLinkRestart /\ FlushDown
    /\ UNCHANGED <<hostRing, upRing, linkVars, pool, hostVars, keeperVars, dataVars,
                   hostGarbled, boardGarbled, staleRun>>

(* session_control_deserialized_callback.  The pool refuses a field it has *)
(* no room for; a new session empties it first.                            *)
QueueAlways(fields, field) == Append(fields, field)  \* slip: an unbounded pool
Queue(fields, field) == IF Len(fields) < PoolSize THEN Append(fields, field) ELSE fields

Dispatch(kind) ==
    /\ boardSession' = (boardSession \/ kind = "start")
    /\ boardUplink' = (boardUplink \/ kind = "start")
    /\ pool' = CASE kind = "start" ->
                      Queue(IF boardSession THEN pool ELSE <<>>, Control("startAck"))
                 [] kind = "keepalive" /\ boardSession ->
                      Queue(pool, Control("keepaliveAck"))
                 [] OTHER -> pool

PumpPop ==
    /\ pump = "pop"
    /\ pump' = "publish"
    /\ IF downRing = <<>>
       THEN UNCHANGED <<downRing, boardVars, boardGarbled, staleRun>>
       ELSE LET token == Head(downRing)
                done == Completes(boardParser, token)
            IN  /\ downRing' = Tail(downRing)
                /\ boardParser' \in Parsed(boardParser, token)
                /\ boardGarbled' = (boardGarbled \/ Garbles(boardParser, token))
                /\ staleRun' = \/ staleRun
                               \/ /\ done /\ token.field.kind = "data" /\ boardSession
                                  /\ token.field.epoch < claimed
                /\ IF done THEN Dispatch(token.field.kind)
                           ELSE UNCHANGED <<boardSession, boardUplink, pool>>
    /\ UNCHANGED <<hostRing, upRing, linkVars, claimed, hostVars, keeperVars,
                   dataVars, hostGarbled>>

(* next_batch and try_transmit: the lease is looked at first; then all of a *)
(* batch or nothing, and nothing without a session.  The lease outlives     *)
(* four keepalive periods, so it only runs out on a host that has lost the  *)
(* session or the link.                                                     *)
LeaseMayRunOut == boardSession /\ (link # "op" \/ ~hostSession) /\ ~Pending

PumpPublish ==
    /\ pump = "publish"
    /\ pump' = "claim"
    /\ \/ /\ LeaseMayRunOut
          /\ boardSession' = FALSE /\ boardUplink' = FALSE
          /\ UNCHANGED <<upRing, pool>>
       \/ /\ boardSession /\ pool # <<>> /\ Len(upRing) + 2 <= RingSize
          /\ upRing' = upRing \o Tokens(Head(pool))
          /\ pool' = Tail(pool)
          /\ UNCHANGED <<boardSession, boardUplink>>
       \/ /\ ~boardSession \/ pool = <<>> \/ Len(upRing) + 2 > RingSize
          /\ UNCHANGED <<upRing, pool, boardSession, boardUplink>>
    /\ UNCHANGED <<hostRing, downRing, linkVars, claimed, boardParser, hostVars,
                   keeperVars, dataVars, hostGarbled, boardGarbled, staleRun>>

(* A driver interrupt reports data, once the uplink is enabled.            *)
Report ==
    /\ boardUplink /\ dataUp < MaxData
    /\ dataUp' = dataUp + 1
    /\ pool' = Queue(pool, [kind |-> "data", id |-> dataUp + 1, epoch |-> 0])
    /\ UNCHANGED <<hostRing, downRing, upRing, linkVars, claimed, pump, boardParser,
                   boardSession, boardUplink, hostVars, keeperVars, dataDown, early,
                   hostGarbled, boardGarbled, staleRun>>

Next == \/ Decide \/ Answered \/ TryAgain \/ GiveUp \/ HostWrite
        \/ TransferDown \/ TransferUp
        \/ LoseLink \/ Reopen \/ Recover
        \/ PumpClaim \/ PumpPop \/ PumpPublish \/ Report

Spec == Init /\ [][Next]_vars

(* Both loops and the keepalive thread run for ever, a lost link is        *)
(* recovered, and an up link moves bytes.                                  *)
Fairness ==
    /\ WF_vars(Decide) /\ WF_vars(Answered) /\ WF_vars(TryAgain) /\ WF_vars(GiveUp)
    /\ WF_vars(TransferDown) /\ WF_vars(TransferUp)
    /\ WF_vars(Reopen) /\ WF_vars(Recover)
    /\ WF_vars(PumpClaim) /\ WF_vars(PumpPop) /\ WF_vars(PumpPublish)

FairSpec == Spec /\ Fairness
-----------------------------------------------------------------------------
TypeOK ==
    /\ hostRing \in Seq(Token) /\ downRing \in Seq(Token) /\ upRing \in Seq(Token)
    /\ Len(hostRing) <= RingSize /\ Len(downRing) <= RingSize /\ Len(upRing) <= RingSize
    /\ link \in {"op", "lost", "reopened"} /\ losses \in 0 .. MaxLosses
    /\ opened \in 0 .. MaxLosses /\ hostEpoch \in 0 .. opened /\ claimed \in 0 .. opened
    /\ pump \in {"claim", "pop", "publish"}
    /\ boardParser \in Parser /\ boardSession \in BOOLEAN /\ boardUplink \in BOOLEAN
    /\ pool \in Seq(Field) /\ Len(pool) <= PoolSize
    /\ hostParser \in Parser /\ awaiting \in BOOLEAN /\ hostSession \in BOOLEAN
    /\ keeper \in {"decide", "open", "refresh"} /\ attempt \in 0 .. Attempts
    /\ answered \in BOOLEAN
    /\ dataDown \in 0 .. MaxData /\ dataUp \in 0 .. MaxData
    /\ early \in 0 .. MaxEarly
    /\ hostGarbled \in BOOLEAN /\ boardGarbled \in BOOLEAN /\ staleRun \in BOOLEAN

(* Both parsers stay on field boundaries across restarts: neither reads    *)
(* the end of one field as the beginning of another (handler.cpp:61 and    *)
(* 309), and flushing the ring and the parser together leaves no half      *)
(* field of the previous interval before the new one.                      *)
ParsersAligned == ~hostGarbled /\ ~boardGarbled

(* Once core0 has honoured a claim, no command that the host wrote before  *)
(* it recovered from that loss is executed: the board never works off the  *)
(* backlog of an outage (pd_link.cpp:88-93, igh.cpp:945-957).              *)
NoStaleCommand == ~staleRun

(* "Every byte still in the down ring at that moment belongs to the        *)
(* previous OP interval" (pd_link.cpp:88-90): the flush that answers a     *)
(* claim drops no byte of the interval that the claim opened.              *)
FlushesOnlyOldBytes ==
    [][claimed' # claimed =>
         \A i \in 1 .. Len(downRing) :
            downRing[i].field.kind = "data" => downRing[i].field.epoch < opened]_vars

(* "The protocol session layer above is responsible for resynchronizing"   *)
(* (soem.cpp:399-401): whatever a link loss cut in two, both sides come    *)
(* back to one session.                                                    *)
SessionRestored == <>[](link = "op") => []<>(hostSession /\ boardSession)
-----------------------------------------------------------------------------
(* Why the parsers stay aligned: how tokens read one after the other lead  *)
(* a parser from one state to the next without a surprise.                 *)
After(token) == IF token.part = "head" THEN Inside(token.field) ELSE Boundary

Follows(parser, tokens) ==
    /\ tokens # <<>> => Expected(parser, tokens[1])
    /\ \A i \in 1 .. (Len(tokens) - 1) : Expected(After(tokens[i]), tokens[i + 1])

Ends(parser, tokens) == IF tokens = <<>> THEN parser ELSE After(tokens[Len(tokens)])

Whole(parser, tokens) == Follows(parser, tokens) /\ Ends(parser, tokens) = Boundary

(* Upwards: the ring always holds the rest of a field and whole fields     *)
(* after it, and on an open link a host that listens is where they begin.  *)
UpWhole ==
    /\ \E parser \in Parser : Whole(parser, upRing)
    /\ link = "op" /\ ~awaiting => Whole(hostParser, upRing)

(* Downwards: what core0 has is read without a surprise up to the flush;   *)
(* what the host has continues it, or begins anew after the flush; and     *)
(* once flushed nothing is there before the host has recovered.            *)
DownWhole ==
    /\ Follows(boardParser, downRing)
    /\ link = "op" /\ claimed = opened => Whole(Ends(boardParser, downRing), hostRing)
    /\ link = "op" /\ claimed # opened => Whole(Boundary, hostRing)
    /\ link = "reopened" /\ claimed = opened => downRing = <<>> /\ boardParser = Boundary

(* A command is marked with the interval it was written in: on an open     *)
(* link the host's ring holds the latest one only, and what core0 has is   *)
(* no older than the claim it honoured last.                               *)
Dated(tokens, since) ==
    \A i \in 1 .. Len(tokens) : tokens[i].field.kind = "data" => tokens[i].field.epoch >= since

Intervals ==
    /\ opened <= losses /\ (link = "lost" => opened < losses)
    /\ link = "op" => hostEpoch = opened /\ Dated(hostRing, opened)
    /\ Dated(downRing, claimed)

(* Why a flush under PromptClaim drops old bytes only: no command is from  *)
(* an interval to come, and while a claim is open none is from this one.   *)
Written(tokens, until) ==
    \A i \in 1 .. Len(tokens) : tokens[i].field.kind = "data" => tokens[i].field.epoch <= until

FlushInv ==
    /\ Written(hostRing, hostEpoch) /\ Written(downRing, opened)
    /\ PromptClaim /\ claimed # opened =>
          \A i \in 1 .. Len(downRing) :
             downRing[i].field.kind = "data" => downRing[i].field.epoch < opened

RestartInv ==
    /\ TypeOK /\ Intervals /\ UpWhole
    /\ PromptClaim => DownWhole /\ ~boardGarbled
    /\ ~hostGarbled /\ ~staleRun
=============================================================================
