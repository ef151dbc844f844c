---------------------------- MODULE XD3EncodeProofs ----------------------------
(***************************************************************************)
(* Proofs about XD3Encode.  The windows are the input, in order: this      *)
(* needs only the input's part of the state (EncInv).  The pages are freed *)
(* once each: the lists of pages are sequences here (PageLists), and each  *)
(* operation on links is shown to be one on these sequences; the invariant *)
(* (EncodeInv) says which lists there are in which state (PageInv) and     *)
(* that what is written is bytes (CodeInv).                                *)
(***************************************************************************)
EXTENDS XD3Encode, XD3DataProofs, FiniteSetTheorems

(* The inductive invariant.                                                *)

\* n bytes of the file from offset i.
Piece(i, n) == SubSeq(cfg.file, i + 1, i + n)

\* The states in which the bytes at next_in are the window.
WindowStates == {"ENC_SEARCH", "ENC_INSTR", "ENC_FLUSH", "ENC_POSTOUT"}
States == {"ENC_INIT", "ENC_INPUT", "ENC_POSTWIN"} \cup WindowStates
Returns == {"idle", "run", "XD3_INPUT", "XD3_WINSTART", "XD3_OUTPUT", "XD3_WINFINISH"}
             \cup Errors

\* The bytes at next_in that are in no other account: not once they are in
\* the stream's buffer, nor once they are a window that is over.
Pending  == IF enc_state = "ENC_POSTWIN" \/ ret = "XD3_INPUT" THEN 0 ELSE avail_in
LeftOver == IF buf_leftover # Null THEN buf_leftavail ELSE 0

InputTypes ==
  /\ cfg \in Configs /\ fed \in 0 .. Len(cfg.file) /\ total_in \in Nat
  /\ avail_in \in Nat /\ buf_avail \in Nat /\ buf_leftavail \in Nat
  /\ enc_state \in States /\ ret \in Returns

\* The client's buffer holds the last piece that was handed over.
ClientBuffer ==
  /\ Len(inbuf) \in 0 .. fed /\ Len(inbuf) <= cfg.winsize
  /\ inbuf = Piece(fed - Len(inbuf), Len(inbuf))

Accounted == fed = total_in + Pending + buf_avail + LeftOver

\* Where next_in points to, and when there is something.
NextIn ==
  /\ next_in \in {Null, [in |-> "client", off |-> 0], [in |-> "buf_in", off |-> 0]}
  /\ next_in = Null => avail_in = 0
  /\ enc_state \in {"ENC_INIT", "ENC_INPUT"} /\ ret = "run" =>
       avail_in = (IF next_in.in = "client" THEN Len(inbuf) ELSE 0)

\* The stream's buffer collects the input after the last window.
Collected ==
  buf_avail # 0 =>
    /\ buf_avail < cfg.winsize
    /\ enc_state = "ENC_INPUT" /\ buf_leftover = Null
    /\ SubSeq(buf_in, 1, buf_avail) = Piece(total_in, buf_avail)

\* What did not fit into it is the end of the client's buffer, and the client
\* is not asked for more before that is taken.
LeftoverHeld ==
  buf_leftover # Null =>
    /\ buf_leftover.in = "client" /\ buf_leftover.off \in Nat
    /\ buf_leftover.off + buf_leftavail = Len(inbuf)
    /\ 0 < buf_leftavail /\ buf_leftavail < cfg.winsize /\ buf_avail = 0
    /\ next_in.in = "buf_in"
    /\ enc_state # "ENC_INIT" /\ ret # "XD3_INPUT"

Control ==
  /\ ret \in {"idle", "XD3_INPUT"} => enc_state \in {"ENC_INIT", "ENC_INPUT"}
  /\ ret = "idle" => enc_state = "ENC_INIT" /\ next_in = Null
  /\ ret \in {"XD3_WINSTART", "XD3_OUTPUT", "XD3_WINFINISH"} /\ closed = "open" =>
       enc_state \notin {"ENC_INIT", "ENC_INPUT"}
  /\ closed # "open" => ret \notin {"idle", "run"}

WindowTrue == enc_state \in WindowStates => Window = Piece(total_in, avail_in)

EncInv == /\ InputTypes /\ ClientBuffer /\ Accounted /\ NextIn
          /\ Collected /\ LeftoverHeld /\ Control /\ WindowTrue

-----------------------------------------------------------------------------
\* The steps that leave the input alone.
LEMMA QuietStep ==
  ASSUME EncInv, UNCHANGED <<cfg, inbuf, fed, input, total_in>>,
         enc_state' \in States, ret' \in Returns, Pending' = Pending, Control',
         enc_state' \in WindowStates => enc_state \in WindowStates,
         enc_state' \in {"ENC_INIT", "ENC_INPUT"} /\ ret' = "run" =>
           enc_state \in {"ENC_INIT", "ENC_INPUT"} /\ (ret = "run" \/ next_in = Null),
         buf_avail # 0 => enc_state' = enc_state,
         buf_leftover # Null => enc_state' # "ENC_INIT" /\ ret' # "XD3_INPUT"
  PROVE  EncInv'
<1>1. /\ UNCHANGED <<cfg, inbuf, fed, total_in, next_in, avail_in, buf_in, buf_avail>>
      /\ UNCHANGED <<buf_leftover, buf_leftavail>>
  BY DEF input
<1>2. InputTypes'
  BY <1>1 DEF EncInv, InputTypes
<1>3. ClientBuffer'
  BY <1>1 DEF EncInv, ClientBuffer, Piece
<1>4. Accounted'
  BY <1>1 DEF EncInv, Accounted, LeftOver
<1>5. NextIn'
  <2>1. next_in = Null => avail_in = 0 /\ next_in.in # "client"
    BY DEF EncInv, NextIn, Null
  <2>. QED BY <1>1, <2>1 DEF EncInv, NextIn
<1>6. Collected'
  BY <1>1 DEF EncInv, Collected, Piece
<1>7. LeftoverHeld'
  BY <1>1 DEF EncInv, LeftoverHeld
<1>8. WindowTrue'
  BY <1>1 DEF EncInv, WindowTrue, Window, Memory, Piece
<1>. QED BY <1>2, <1>3, <1>4, <1>5, <1>6, <1>7, <1>8 DEF EncInv

\* What the invariant says of the stream while a call is in progress.
LEMMA InCallFacts ==
  ASSUME EncInv, NEW state, InCall(state)
  PROVE  /\ ret = "run" /\ enc_state = state /\ closed = "open" /\ state \in States
BY DEF EncInv, InCall, Control, InputTypes

LEMMA EncInitInv == EncInv /\ EncInit => EncInv'
<1>. SUFFICES ASSUME EncInv, EncInit PROVE EncInv'
  OBVIOUS
<1>1. ret = "run" /\ enc_state = "ENC_INIT" /\ closed = "open"
  BY InCallFacts DEF EncInit
<1>2. /\ UNCHANGED <<cfg, inbuf, fed, input, total_in, closed, avail_in>>
      /\ \/ enc_state' = "ENC_INPUT" /\ ret' = ret
         \/ enc_state' = enc_state /\ ret' = "ENOMEM"
  BY DEF EncInit, client, input, Return
<1>3. buf_leftover = Null /\ buf_avail = 0
  BY <1>1 DEF EncInv, LeftoverHeld, Collected
<1>4. enc_state' \in States /\ ret' \in Returns /\ Pending' = Pending /\ Control'
  BY <1>1, <1>2 DEF States, Returns, Errors, Pending, Control
<1>. QED BY <1>1, <1>2, <1>3, <1>4, QuietStep DEF WindowStates

LEMMA NoInputYetInv == EncInv /\ NoInputYet => EncInv'
<1>. SUFFICES ASSUME EncInv, NoInputYet PROVE EncInv'
  OBVIOUS
<1>1. ret = "run" /\ enc_state = "ENC_INPUT" /\ closed = "open" /\ next_in = Null
  BY InCallFacts DEF NoInputYet
<1>2. /\ UNCHANGED <<cfg, inbuf, fed, input, total_in, closed, avail_in, enc_state>>
      /\ ret' = "XD3_INPUT"
  BY DEF NoInputYet, client, input, Return
<1>3. avail_in = 0 /\ buf_leftover = Null
  <2>1. next_in.in # "buf_in"
    BY <1>1 DEF Null
  <2>. QED BY <1>1, <2>1 DEF EncInv, NextIn, LeftoverHeld
<1>4. enc_state' \in States /\ ret' \in Returns /\ Pending' = Pending /\ Control'
  BY <1>1, <1>2, <1>3 DEF States, Returns, Errors, Pending, Control
<1>. QED BY <1>1, <1>2, <1>3, <1>4, QuietStep DEF WindowStates

\* Steps within the states of a window.
LEMMA WithinWindow ==
  ASSUME EncInv, ret = "run", enc_state \in WindowStates, enc_state' \in WindowStates,
         UNCHANGED <<cfg, inbuf, fed, input, total_in, closed>>,
         ret' \in Errors \cup {"run", "XD3_OUTPUT"}
  PROVE  EncInv'
<1>1. enc_state' \in States /\ ret' \in Returns
  BY DEF States, Returns
<1>2. Pending' = Pending
  BY DEF input, Pending, WindowStates, Errors
<1>3. Control'
  <2>1. closed = "open"
    BY DEF EncInv, Control
  <2>. QED BY <2>1 DEF Control, WindowStates, Errors
<1>4. buf_avail = 0
  BY DEF EncInv, Collected, WindowStates
<1>. QED BY <1>1, <1>2, <1>3, <1>4, QuietStep DEF WindowStates, Errors

LEMMA SearchInv == EncInv /\ Search => EncInv'
BY WithinWindow DEF Search, InCall, WindowStates, client, Errors

LEMMA FinishEncodingInv ==
  ASSUME EncInv, InCall("ENC_INSTR"), NEW inst, FinishEncoding(inst)
  PROVE  EncInv'
<1>1. /\ UNCHANGED <<cfg, client, input, enc_state, total_in>>
      /\ ret' \in {ret, "ENOMEM"}
  BY DEF FinishEncoding, Written, Return
<1>. QED BY <1>1, WithinWindow DEF InCall, WindowStates, client, Errors

LEMMA EncodeAddInv == EncInv /\ EncodeAdd => EncInv'
BY FinishEncodingInv DEF EncodeAdd

LEMMA EncodeMatchInv == EncInv /\ EncodeMatch => EncInv'
BY FinishEncodingInv DEF EncodeMatch

LEMMA AddFinalizeInv == EncInv /\ AddFinalize => EncInv'
<1>. SUFFICES ASSUME EncInv, AddFinalize PROVE EncInv'
  OBVIOUS
<1>1. /\ UNCHANGED <<cfg, client, input, total_in>> /\ InCall("ENC_INSTR")
      /\ ret' \in {ret, "ENOMEM"} /\ enc_state' \in {enc_state, "ENC_FLUSH"}
  BY DEF AddFinalize, Written, Return
<1>. QED BY <1>1, WithinWindow DEF InCall, WindowStates, client, Errors

LEMMA FlushInv == EncInv /\ Flush => EncInv'
<1>. SUFFICES ASSUME EncInv, Flush PROVE EncInv'
  OBVIOUS
<1>1. /\ UNCHANGED <<cfg, client, input, total_in>> /\ InCall("ENC_FLUSH")
      /\ ret' \in {ret, "ENOMEM", "XD3_OUTPUT"} /\ enc_state' \in {enc_state, "ENC_POSTOUT"}
  BY DEF Flush, OutputPage, Return
<1>. QED BY <1>1, WithinWindow DEF InCall, WindowStates, client, Errors

LEMMA MissedConsumeInv == EncInv /\ MissedConsume => EncInv'
BY WithinWindow DEF MissedConsume, InCall, WindowStates, client, Errors, Return

\* The window is over: its bytes are counted in total_in from now on.
LEMMA NextPageInv == EncInv /\ NextPage => EncInv'
<1>. SUFFICES ASSUME EncInv, NextPage PROVE EncInv'
  OBVIOUS
<1>1. /\ UNCHANGED <<cfg, client, input>> /\ InCall("ENC_POSTOUT")
      /\ \/ /\ UNCHANGED total_in /\ ret' \in {ret, "XD3_OUTPUT"}
            /\ enc_state' = "ENC_POSTOUT"
         \/ /\ total_in' = total_in + avail_in /\ ret' = "XD3_WINFINISH"
            /\ enc_state' = "ENC_POSTWIN"
  BY DEF NextPage, OutputPage, Return
<1>2. CASE UNCHANGED total_in /\ ret' \in {ret, "XD3_OUTPUT"} /\ enc_state' = "ENC_POSTOUT"
  BY <1>1, <1>2, WithinWindow DEF InCall, WindowStates, client
<1>3. CASE /\ total_in' = total_in + avail_in /\ ret' = "XD3_WINFINISH"
           /\ enc_state' = "ENC_POSTWIN"
  <2>0. /\ UNCHANGED <<cfg, inbuf, fed, next_in, avail_in, buf_in, buf_avail, closed>>
        /\ UNCHANGED <<buf_leftover, buf_leftavail>>
        /\ ret = "run" /\ enc_state = "ENC_POSTOUT"
    BY <1>1 DEF client, input, InCall
  <2>1. /\ cfg \in Configs /\ fed \in 0 .. Len(cfg.file) /\ total_in \in Nat
        /\ avail_in \in Nat /\ buf_avail \in Nat /\ buf_leftavail \in Nat
    BY DEF EncInv, InputTypes
  <2>2. InputTypes'
    BY <1>3, <2>0, <2>1 DEF InputTypes, States, Returns
  <2>3. ClientBuffer'
    BY <2>0 DEF EncInv, ClientBuffer, Piece
  <2>4. Accounted'
    <3>1. fed = total_in + avail_in + buf_avail + LeftOver
      BY <2>0 DEF EncInv, Accounted, Pending
    <3>2. Pending' = 0 /\ LeftOver' = LeftOver
      BY <1>3, <2>0 DEF Pending, LeftOver
    <3>3. LeftOver \in Nat
      BY <2>1 DEF LeftOver
    <3>. QED BY <1>3, <2>0, <2>1, <3>1, <3>2, <3>3 DEF Accounted
  <2>5. NextIn'
    BY <1>3, <2>0 DEF EncInv, NextIn
  <2>6. buf_avail = 0
    BY <2>0 DEF EncInv, Collected
  <2>7. Collected' /\ LeftoverHeld'
    BY <1>3, <2>0, <2>6 DEF EncInv, Collected, LeftoverHeld
  <2>8. Control' /\ WindowTrue'
    BY <1>3, <2>0 DEF EncInv, Control, WindowTrue, WindowStates
  <2>. QED BY <2>2, <2>3, <2>4, <2>5, <2>7, <2>8 DEF EncInv
<1>. QED BY <1>1, <1>2, <1>3

-----------------------------------------------------------------------------
(* The steps that take input.                                              *)

LEMMA CfgFacts ==
  ASSUME EncInv
  PROVE  /\ cfg.file \in Seq(Byte) /\ cfg.winsize \in Nat /\ cfg.winsize > 0
         /\ cfg.pieces \subseteq 1 .. cfg.winsize /\ Len(cfg.file) \in Nat
         /\ fed \in Nat /\ fed <= Len(cfg.file) /\ total_in \in Nat /\ avail_in \in Nat
         /\ buf_avail \in Nat /\ buf_leftavail \in Nat
<1>1. /\ cfg \in Configs /\ fed \in 0 .. Len(cfg.file) /\ total_in \in Nat
      /\ avail_in \in Nat /\ buf_avail \in Nat /\ buf_leftavail \in Nat
  BY DEF EncInv, InputTypes
<1>2. /\ cfg.file \in Seq(Byte) /\ cfg.winsize \in Nat \ {0}
      /\ cfg.pieces \subseteq 1 .. cfg.winsize
  BY <1>1, EncodeAssumption
<1>. QED BY <1>1, <1>2

\* Pieces of the file.
LEMMA PieceType ==
  ASSUME EncInv, NEW i \in Nat, NEW m \in Nat, i + m <= fed
  PROVE  Piece(i, m) \in Seq(Byte) /\ Len(Piece(i, m)) = m
<1>1. cfg.file \in Seq(Byte) /\ fed \in Nat /\ fed <= Len(cfg.file) /\ Len(cfg.file) \in Nat
  BY CfgFacts
<1>2. i + m <= Len(cfg.file)
  BY <1>1
<1>. QED BY <1>1, <1>2, SubSeqType DEF Piece

LEMMA PieceOfPiece ==
  ASSUME EncInv, NEW i \in Nat, NEW m \in Nat, i + m <= fed,
         NEW j \in Nat, NEW k \in Nat, j + k <= m
  PROVE  SubSeq(Piece(i, m), j + 1, j + k) = Piece(i + j, k)
<1>1. cfg.file \in Seq(Byte) /\ fed \in Nat /\ fed <= Len(cfg.file) /\ Len(cfg.file) \in Nat
  BY CfgFacts
<1>2. i + m <= Len(cfg.file)
  BY <1>1
<1>. QED BY <1>1, <1>2, SubSeqOfPiece DEF Piece

LEMMA PiecesJoin ==
  ASSUME EncInv, NEW i \in Nat, NEW m \in Nat, NEW n \in Nat, i + m + n <= fed
  PROVE  Piece(i, m) \o Piece(i + m, n) = Piece(i, m + n)
<1>1. cfg.file \in Seq(Byte) /\ fed \in Nat /\ fed <= Len(cfg.file) /\ Len(cfg.file) \in Nat
  BY CfgFacts
<1>2. i + m + n <= Len(cfg.file) /\ i + (m + n) = i + m + n
  BY <1>1
<1>. QED BY <1>1, <1>2, SubSeqJoin DEF Piece

LEMMA EmptyAt ==
  ASSUME NEW s, NEW i \in Nat
  PROVE  SubSeq(s, i + 1, i + 0) = <<>>
<1>1. i + 0 < i + 1 /\ i + 1 \in Int /\ i + 0 \in Int
  OBVIOUS
<1>. QED BY <1>1, SubSeqEmpty

LEMMA EmptyPiece ==
  ASSUME NEW i \in Nat
  PROVE  Piece(i, 0) = <<>>
<1>1. i + 0 < i + 1
  OBVIOUS
<1>. QED BY <1>1, SubSeqEmpty DEF Piece

\* The input at next_in follows the input that the stream has collected.
LEMMA InputFollows ==
  ASSUME EncInv, InCall("ENC_INPUT"), next_in # Null
  PROVE  /\ fed = total_in + buf_avail + LeftOver + avail_in /\ LeftOver \in Nat
         /\ avail_in <= cfg.winsize
         /\ avail_in # 0 => next_in = [in |-> "client", off |-> 0] /\ avail_in = Len(inbuf)
                            /\ buf_leftover = Null
         /\ \A n \in 0 .. avail_in : Memory(next_in, n) = Piece(fed - avail_in, n)
<1>1. ret = "run" /\ enc_state = "ENC_INPUT"
  BY DEF InCall
<1>2. /\ cfg.winsize \in Nat /\ fed \in Nat /\ total_in \in Nat /\ avail_in \in Nat
      /\ buf_avail \in Nat /\ buf_leftavail \in Nat
  BY CfgFacts
<1>3. LeftOver \in Nat
  BY <1>2 DEF LeftOver
<1>4. fed = total_in + buf_avail + LeftOver + avail_in
  <2>1. fed = total_in + avail_in + buf_avail + LeftOver
    BY <1>1 DEF EncInv, Accounted, Pending
  <2>. QED BY <1>2, <1>3, <2>1
<1>5. /\ next_in \in {[in |-> "client", off |-> 0], [in |-> "buf_in", off |-> 0]}
      /\ avail_in = IF next_in.in = "client" THEN Len(inbuf) ELSE 0
  BY <1>1 DEF EncInv, NextIn
<1>6. /\ Len(inbuf) \in 0 .. fed /\ Len(inbuf) <= cfg.winsize
      /\ inbuf = Piece(fed - Len(inbuf), Len(inbuf))
  BY DEF EncInv, ClientBuffer
<1>7. avail_in <= cfg.winsize
  BY <1>2, <1>5, <1>6
<1>8. ASSUME avail_in # 0
      PROVE  next_in = [in |-> "client", off |-> 0] /\ avail_in = Len(inbuf)
             /\ buf_leftover = Null
  <2>1. next_in = [in |-> "client", off |-> 0] /\ avail_in = Len(inbuf)
    BY <1>5, <1>8
  <2>2. next_in.in # "buf_in"
    BY <2>1
  <2>. QED BY <2>1, <2>2 DEF EncInv, LeftoverHeld
<1>9. ASSUME NEW n \in 0 .. avail_in
      PROVE  Memory(next_in, n) = Piece(fed - avail_in, n)
  <2>. DEFINE i == fed - avail_in
  <2>0. i \in Nat /\ n \in Nat
    BY <1>2, <1>3, <1>4
  <2>1. CASE n = 0
    <3>1. next_in.off \in Nat
      BY <1>5
    <3>3. Memory(next_in, 0) = <<>>
      BY <3>1, EmptyAt DEF Memory
    <3>4. Piece(i, 0) = <<>>
      BY <2>0, EmptyPiece
    <3>. QED BY <2>1, <3>3, <3>4
  <2>2. CASE n # 0
    <3>1. next_in.in = "client" /\ next_in.off = 0 /\ avail_in = Len(inbuf)
      BY <1>2, <1>8, <2>2
    <3>2. inbuf = Piece(i, avail_in) /\ i + avail_in <= fed
      BY <1>2, <1>6, <3>1
    <3>. HIDE DEF i
    <3>3. 0 + n <= avail_in /\ i + 0 = i
      BY <1>2, <2>0
    <3>4. SubSeq(Piece(i, avail_in), 0 + 1, 0 + n) = Piece(i + 0, n)
      BY <1>2, <2>0, <3>2, <3>3, PieceOfPiece
    <3>. QED BY <3>1, <3>2, <3>3, <3>4 DEF Memory, i
  <2>. QED BY <2>1, <2>2
<1>. QED BY <1>3, <1>4, <1>7, <1>8, <1>9

\* The window begins where the last one ended.
LEMMA UseDirectlyInv == EncInv /\ UseDirectly => EncInv'
<1>. SUFFICES ASSUME EncInv, UseDirectly PROVE EncInv'
  OBVIOUS
<1>1. ret = "run" /\ enc_state = "ENC_INPUT" /\ closed = "open"
  BY InCallFacts DEF UseDirectly
<1>2. /\ UNCHANGED <<cfg, inbuf, fed, total_in, closed, next_in, avail_in, buf_in>>
      /\ UNCHANGED <<buf_avail, buf_leftover, buf_leftavail>>
      /\ enc_state' = "ENC_SEARCH" /\ ret' = "XD3_WINSTART"
  BY DEF UseDirectly, StartWindow, client, input, Return
<1>3. buf_leftover = Null /\ buf_avail = 0 /\ next_in # Null /\ InCall("ENC_INPUT")
  BY DEF UseDirectly, Buffering
<1>4. fed = total_in + avail_in
  <2>1. fed = total_in + avail_in + buf_avail + LeftOver /\ LeftOver = 0
    BY <1>1, <1>3 DEF EncInv, Accounted, Pending, LeftOver
  <2>. QED BY <1>3, <2>1, CfgFacts
<1>5. Window = Piece(total_in, avail_in)
  <2>1. fed - avail_in = total_in /\ avail_in \in 0 .. avail_in
    BY <1>4, CfgFacts
  <2>. QED BY <1>3, <2>1, InputFollows DEF Window
<1>6. WindowTrue'
  BY <1>2, <1>5 DEF WindowTrue, Window, Memory, Piece
<1>7. InputTypes'
  BY <1>2 DEF EncInv, InputTypes, States, WindowStates, Returns
<1>8. ClientBuffer'
  BY <1>2 DEF EncInv, ClientBuffer, Piece
<1>9. Accounted'
  BY <1>1, <1>2 DEF EncInv, Accounted, Pending, LeftOver
<1>10. NextIn'
  BY <1>2 DEF EncInv, NextIn
<1>11. Collected' /\ LeftoverHeld' /\ Control'
  BY <1>1, <1>2, <1>3 DEF EncInv, Collected, LeftoverHeld, Control
<1>. QED BY <1>6, <1>7, <1>8, <1>9, <1>10, <1>11 DEF EncInv

\* What xd3_encode_buffer_leftover puts together.
LEMMA TakeInputFacts ==
  ASSUME EncInv, TakeInput
  PROVE  \E b \in Nat, t \in Nat :
           /\ Len(Before) = b /\ Taking = t /\ t <= avail_in
           /\ Len(Buffered) = b + t /\ Buffered = Piece(total_in, b + t)
           /\ b + t <= cfg.winsize /\ fed = total_in + b + avail_in
           /\ t < avail_in => /\ b + t = cfg.winsize /\ avail_in - t < cfg.winsize
                              /\ next_in = [in |-> "client", off |-> 0]
                              /\ avail_in = Len(inbuf)
<1>1. InCall("ENC_INPUT") /\ next_in # Null
  BY DEF TakeInput
<1>2. ret = "run" /\ enc_state = "ENC_INPUT"
  BY <1>1 DEF InCall
<1>3. /\ cfg.winsize \in Nat /\ cfg.winsize > 0 /\ fed \in Nat /\ total_in \in Nat
      /\ avail_in \in Nat /\ buf_avail \in Nat /\ buf_leftavail \in Nat
  BY CfgFacts
<1>4. /\ fed = total_in + buf_avail + LeftOver + avail_in /\ LeftOver \in Nat
      /\ avail_in <= cfg.winsize
      /\ avail_in # 0 => next_in = [in |-> "client", off |-> 0] /\ avail_in = Len(inbuf)
                         /\ buf_leftover = Null
      /\ \A n \in 0 .. avail_in : Memory(next_in, n) = Piece(fed - avail_in, n)
  BY <1>1, InputFollows
<1>. DEFINE b == buf_avail + LeftOver
            t == Taking
<1>5. /\ b \in Nat /\ fed = total_in + b + avail_in
      /\ total_in + b <= fed /\ fed - avail_in = total_in + b
  BY <1>3, <1>4
<1>6. Before = Piece(total_in, b) /\ b < cfg.winsize
  <2>1. CASE buf_leftover # Null
    <3>1. /\ buf_leftover.in = "client" /\ buf_leftover.off \in Nat
          /\ buf_leftover.off + buf_leftavail = Len(inbuf)
          /\ buf_leftavail < cfg.winsize /\ buf_avail = 0
      BY <2>1 DEF EncInv, LeftoverHeld
    <3>2. b = buf_leftavail /\ avail_in = 0
      BY <2>1, <3>1, <1>3, <1>4 DEF LeftOver
    <3>3. /\ Len(inbuf) \in 0 .. fed
          /\ inbuf = Piece(fed - Len(inbuf), Len(inbuf))
      BY DEF EncInv, ClientBuffer
    <3>a. PICK j \in Nat : j = buf_leftover.off
      BY <3>1
    <3>b. PICK l \in Nat : l = Len(inbuf) /\ l <= fed
      BY <3>3, <1>3
    <3>c. PICK i \in Nat : i = fed - l
      BY <3>b, <1>3
    <3>d. j + buf_leftavail = l /\ fed = total_in + buf_leftavail
      BY <3>1, <3>2, <3>a, <3>b, <1>3, <1>5
    <3>4. i + l <= fed /\ j + buf_leftavail <= l /\ i + j = total_in
      BY <1>3, <3>b, <3>c, <3>d
    <3>5. Before = SubSeq(inbuf, j + 1, j + buf_leftavail)
      BY <2>1, <3>1, <3>a DEF Before, Memory
    <3>6. inbuf = Piece(i, l)
      BY <3>3, <3>b, <3>c
    <3>7. SubSeq(Piece(i, l), j + 1, j + buf_leftavail) = Piece(i + j, buf_leftavail)
      BY <1>3, <3>4, <3>6, PieceOfPiece
    <3>. QED BY <3>1, <3>2, <3>4, <3>5, <3>6, <3>7
  <2>2. CASE buf_leftover = Null
    <3>1. b = buf_avail
      BY <2>2, <1>3 DEF LeftOver
    <3>2. Before = SubSeq(buf_in, 1, buf_avail)
      BY <2>2 DEF Before
    <3>3. CASE buf_avail = 0
      <4>1. SubSeq(buf_in, 1, 0) = <<>>
        BY SubSeqEmpty
      <4>. QED BY <3>1, <3>2, <3>3, <4>1, <1>3, EmptyPiece
    <3>4. CASE buf_avail # 0
      BY <3>1, <3>2, <3>4 DEF EncInv, Collected
    <3>. QED BY <3>3, <3>4
  <2>. QED BY <2>1, <2>2
<1>7. Len(Before) = b
  BY <1>3, <1>5, <1>6, PieceType
<1>8. t = Least(cfg.winsize - b, avail_in)
  BY <1>7 DEF Taking
<1>. HIDE DEF b, t
<1>9. /\ t \in Nat /\ t <= avail_in /\ b + t <= cfg.winsize
      /\ t < avail_in => b + t = cfg.winsize
  BY <1>3, <1>5, <1>6, <1>8 DEF Least
<1>10. Buffered = Piece(total_in, b + t) /\ Len(Buffered) = b + t
  <2>1. Memory(next_in, t) = Piece(total_in + b, t)
    BY <1>4, <1>5, <1>9, <1>3
  <2>2. total_in + b + t <= fed /\ total_in + (b + t) <= fed
    BY <1>3, <1>5, <1>9
  <2>6. total_in \in Nat /\ b \in Nat /\ t \in Nat
    BY <1>3, <1>5, <1>9
  <2>3. Piece(total_in, b) \o Piece(total_in + b, t) = Piece(total_in, b + t)
    BY <2>2, <2>6, PiecesJoin
  <2>4. Buffered = Piece(total_in, b + t)
    BY <1>6, <2>1, <2>3 DEF Buffered, t
  <2>5. b + t \in Nat
    BY <1>5, <1>9
  <2>. QED BY <2>2, <2>4, <2>5, <1>3, PieceType
<1>11. ASSUME t < avail_in
       PROVE  /\ avail_in - t < cfg.winsize
              /\ next_in = [in |-> "client", off |-> 0] /\ avail_in = Len(inbuf)
  <2>1. avail_in # 0
    BY <1>9, <1>11, <1>3
  <2>2. t > 0
    BY <1>3, <1>5, <1>6, <1>9, <1>11
  <2>. QED BY <2>1, <2>2, <1>3, <1>4, <1>9
<1>12. Taking = t
  BY DEF t
<1>. QED BY <1>5, <1>7, <1>9, <1>10, <1>11, <1>12

LEMMA BufferInputInv == EncInv /\ BufferInput => EncInv'
<1>. SUFFICES ASSUME EncInv, BufferInput PROVE EncInv'
  OBVIOUS
<1>1. TakeInput /\ BufferHasSpace /\ ret = "run" /\ enc_state = "ENC_INPUT"
      /\ closed = "open"
  BY InCallFacts DEF BufferInput, TakeInput
<1>2. PICK b \in Nat, t \in Nat :
           /\ Len(Before) = b /\ Taking = t /\ t <= avail_in
           /\ Len(Buffered) = b + t /\ Buffered = Piece(total_in, b + t)
           /\ b + t <= cfg.winsize /\ fed = total_in + b + avail_in
  BY <1>1, TakeInputFacts
<1>3. t = avail_in /\ b + t < cfg.winsize
  BY <1>1, <1>2 DEF BufferHasSpace
<1>4. /\ UNCHANGED <<cfg, inbuf, fed, total_in, closed, next_in, avail_in, enc_state>>
      /\ UNCHANGED buf_leftavail
      /\ buf_in' = Buffered /\ buf_avail' = b + t /\ buf_leftover' = Null
      /\ ret' = "XD3_INPUT"
  BY <1>2, <1>3 DEF BufferInput, TakeInput, client, Return
<1>5. /\ total_in \in Nat /\ avail_in \in Nat /\ buf_leftavail \in Nat /\ fed \in Nat
  BY CfgFacts
<1>6. InputTypes'
  <2>1. /\ cfg \in Configs /\ fed \in 0 .. Len(cfg.file)
    BY DEF EncInv, InputTypes
  <2>. QED BY <1>1, <1>4, <1>5, <2>1 DEF InputTypes, States, Returns
<1>7. ClientBuffer'
  BY <1>4 DEF EncInv, ClientBuffer, Piece
<1>8. Accounted'
  <2>1. Pending' = 0 /\ LeftOver' = 0
    BY <1>4 DEF Pending, LeftOver
  <2>2. fed = total_in + 0 + (b + t) + 0
    BY <1>2, <1>3, <1>5
  <2>. QED BY <1>4, <2>1, <2>2 DEF Accounted
<1>9. NextIn' /\ LeftoverHeld'
  BY <1>4 DEF EncInv, NextIn, LeftoverHeld
<1>10. Collected'
  <2>1. SubSeq(Buffered, 1, b + t) = Buffered
    <3>1. fed = total_in + (b + t)
      BY <1>2, <1>3, <1>5
    <3>2. Piece(total_in, b + t) \in Seq(Byte) /\ Len(Piece(total_in, b + t)) = b + t
      BY <1>2, <1>5, <3>1, PieceType
    <3>. QED BY <1>2, <3>2, SubSeqFull
  <2>2. SubSeq(buf_in', 1, buf_avail') = Piece(total_in, b + t)
    BY <1>2, <1>4, <2>1
  <2>3. Piece(total_in, b + t)' = Piece(total_in, b + t)
    BY <1>4 DEF Piece
  <2>. QED BY <1>1, <1>3, <1>4, <2>2 DEF Collected, Piece
<1>11. Control' /\ WindowTrue'
  BY <1>1, <1>4 DEF EncInv, Control, WindowTrue, WindowStates
<1>. QED BY <1>6, <1>7, <1>8, <1>9, <1>10, <1>11 DEF EncInv

LEMMA UseBufferInv == EncInv /\ UseBuffer => EncInv'
<1>. SUFFICES ASSUME EncInv, UseBuffer PROVE EncInv'
  OBVIOUS
<1>1. TakeInput /\ ret = "run" /\ enc_state = "ENC_INPUT" /\ closed = "open"
  BY InCallFacts DEF UseBuffer, TakeInput
<1>2. PICK b \in Nat, t \in Nat :
           /\ Len(Before) = b /\ Taking = t /\ t <= avail_in
           /\ Len(Buffered) = b + t /\ Buffered = Piece(total_in, b + t)
           /\ b + t <= cfg.winsize /\ fed = total_in + b + avail_in
           /\ t < avail_in => /\ b + t = cfg.winsize /\ avail_in - t < cfg.winsize
                              /\ next_in = [in |-> "client", off |-> 0]
                              /\ avail_in = Len(inbuf)
  BY <1>1, TakeInputFacts
<1>3. /\ UNCHANGED <<cfg, inbuf, fed, total_in, closed>>
      /\ next_in' = [in |-> "buf_in", off |-> 0] /\ avail_in' = b + t /\ buf_avail' = 0
      /\ buf_in' = Buffered /\ enc_state' = "ENC_SEARCH" /\ ret' = "XD3_WINSTART"
      /\ IF t < avail_in
         THEN /\ buf_leftover' = [next_in EXCEPT !.off = next_in.off + t]
              /\ buf_leftavail' = avail_in - t
         ELSE buf_leftover' = Null /\ UNCHANGED buf_leftavail
  BY <1>2 DEF UseBuffer, TakeInput, StartWindow, client, Return
<1>4. /\ total_in \in Nat /\ avail_in \in Nat /\ buf_leftavail \in Nat /\ fed \in Nat
  BY CfgFacts
<1>5. IF t < avail_in
      THEN /\ buf_leftover'.in = "client" /\ buf_leftover'.off = t /\ buf_leftover' # Null
           /\ buf_leftavail' = avail_in - t /\ avail_in = Len(inbuf)
           /\ avail_in - t < cfg.winsize
      ELSE buf_leftover' = Null /\ t = avail_in
  <2>1. CASE t < avail_in
    <3>1. next_in = [in |-> "client", off |-> 0]
      BY <1>2, <2>1
    <3>2. buf_leftover' = [next_in EXCEPT !.off = next_in.off + t]
      BY <1>3, <2>1
    <3>3. buf_leftover'.in = "client" /\ buf_leftover'.off = t
      BY <3>1, <3>2
    <3>4. buf_leftover' # Null
      BY <3>3 DEF Null
    <3>. QED BY <1>2, <1>3, <2>1, <3>3, <3>4
  <2>2. CASE ~ (t < avail_in)
    BY <1>2, <1>3, <1>4, <2>2
  <2>. QED BY <2>1, <2>2
<1>6. buf_leftavail' \in Nat
  BY <1>2, <1>3, <1>4
<1>7. InputTypes'
  <2>1. cfg \in Configs /\ fed \in 0 .. Len(cfg.file)
    BY DEF EncInv, InputTypes
  <2>2. b + t \in Nat
    OBVIOUS
  <2>. QED BY <1>3, <1>4, <1>6, <2>1, <2>2 DEF InputTypes, States, WindowStates, Returns
<1>8. ClientBuffer'
  BY <1>3 DEF EncInv, ClientBuffer, Piece
<1>9. Accounted'
  <2>1. Pending' = b + t
    BY <1>3 DEF Pending
  <2>2. LeftOver' = avail_in - t
    <3>1. CASE t < avail_in
      BY <1>5, <3>1 DEF LeftOver
    <3>2. CASE ~ (t < avail_in)
      BY <1>4, <1>5, <3>2 DEF LeftOver
    <3>. QED BY <3>1, <3>2
  <2>3. fed = total_in + (b + t) + 0 + (avail_in - t)
    BY <1>2, <1>4
  <2>. QED BY <1>3, <2>1, <2>2, <2>3 DEF Accounted
<1>10. NextIn'
  <2>1. [in |-> "buf_in", off |-> 0] # Null
    BY DEF Null
  <2>. QED BY <1>3, <2>1 DEF NextIn
<1>11. LeftoverHeld'
  <2>1. CASE t < avail_in
    <3>1. t + (avail_in - t) = avail_in /\ 0 < avail_in - t
      BY <1>4, <2>1
    <3>. QED BY <1>3, <1>5, <2>1, <3>1 DEF LeftoverHeld
  <2>2. CASE ~ (t < avail_in)
    BY <1>5, <2>2 DEF LeftoverHeld
  <2>. QED BY <2>1, <2>2
<1>12. WindowTrue'
  <2>1. b + t <= fed - total_in /\ total_in + (b + t) <= fed
    BY <1>2, <1>4
  <2>2. Piece(total_in, b + t) \in Seq(Byte) /\ Len(Piece(total_in, b + t)) = b + t
    BY <1>4, <2>1, PieceType
  <2>3. SubSeq(Buffered, 1, b + t) = Buffered
    BY <1>2, <2>2, SubSeqFull
  <2>4. Window' = SubSeq(Buffered, 0 + 1, 0 + (b + t))
    BY <1>3 DEF Window, Memory
  <2>5. 0 + 1 = 1 /\ 0 + (b + t) = b + t
    OBVIOUS
  <2>6. Window' = Piece(total_in, b + t)
    BY <1>2, <2>3, <2>4, <2>5
  <2>. QED BY <1>3, <2>6 DEF WindowTrue, Piece
<1>13. Control' /\ Collected'
  BY <1>1, <1>3 DEF Control, Collected
<1>. QED BY <1>7, <1>8, <1>9, <1>10, <1>11, <1>12, <1>13 DEF EncInv

-----------------------------------------------------------------------------
(* The end of a window, and the client.                                    *)

\* xd3_encode_reset, at the end of a call or when the stream is closed.
LEMMA ResetStep ==
  ASSUME EncInv, enc_state = "ENC_POSTWIN", ret \in {"run", "XD3_WINFINISH"},
         UNCHANGED <<cfg, inbuf, fed, total_in, next_in, buf_in, buf_avail>>,
         UNCHANGED <<buf_leftover, buf_leftavail>>,
         avail_in' = 0, enc_state' = "ENC_INPUT",
         \/ ret' = "run" /\ buf_leftover # Null /\ closed' = "open"
         \/ ret' = "XD3_INPUT" /\ buf_leftover = Null
         \/ ret' = "XD3_WINFINISH" /\ closed' # "open"
  PROVE  EncInv'
<1>0. buf_avail = 0
  BY DEF EncInv, Collected
<1>1. InputTypes'
  BY DEF EncInv, InputTypes, States, Returns
<1>2. ClientBuffer'
  BY DEF EncInv, ClientBuffer, Piece
<1>3. Accounted'
  BY DEF EncInv, Accounted, Pending, LeftOver
<1>4. NextIn'
  <2>1. buf_leftover # Null => next_in.in # "client"
    BY DEF EncInv, LeftoverHeld
  <2>. QED BY <2>1 DEF EncInv, NextIn
<1>5. Collected' /\ LeftoverHeld'
  BY <1>0 DEF EncInv, Collected, LeftoverHeld
<1>6. Control' /\ WindowTrue'
  BY DEF EncInv, Control, WindowTrue, WindowStates
<1>. QED BY <1>1, <1>2, <1>3, <1>4, <1>5, <1>6 DEF EncInv

LEMMA PostWinInv == EncInv /\ PostWin => EncInv'
<1>. SUFFICES ASSUME EncInv, PostWin PROVE EncInv'
  OBVIOUS
<1>1. ret = "run" /\ enc_state = "ENC_POSTWIN" /\ closed = "open"
  BY InCallFacts DEF PostWin
<1>2. /\ UNCHANGED <<cfg, inbuf, fed, total_in, next_in, buf_in, buf_avail, closed>>
      /\ UNCHANGED <<buf_leftover, buf_leftavail>>
      /\ avail_in' = 0 /\ enc_state' = "ENC_INPUT"
      /\ IF buf_leftover # Null THEN UNCHANGED ret ELSE ret' = "XD3_INPUT"
  BY DEF PostWin, EncodeReset, client, Return
<1>. QED BY <1>1, <1>2, ResetStep

LEMMA CloseInv == EncInv /\ Close => EncInv'
<1>. SUFFICES ASSUME EncInv, Close PROVE EncInv'
  OBVIOUS
<1>1. /\ UNCHANGED <<cfg, inbuf, fed, total_in, next_in, buf_in, buf_avail, ret>>
      /\ UNCHANGED <<buf_leftover, buf_leftavail>>
      /\ closed = "open" /\ closed' # "open" /\ Closing
  BY DEF Close
<1>2. ret \notin {"run", "idle"} /\ ret \in Returns
  BY <1>1 DEF Closing, Errors, EncInv, InputTypes
<1>3. CASE enc_state = "ENC_POSTWIN" /\ buf_leftover = Null
  <2>1. avail_in' = 0 /\ enc_state' = "ENC_INPUT"
    BY <1>3 DEF Close, EncodeReset
  <2>2. InputTypes'
    BY <1>1, <2>1 DEF EncInv, InputTypes, States
  <2>3. ClientBuffer'
    BY <1>1 DEF EncInv, ClientBuffer, Piece
  <2>4. Accounted'
    <3>1. Pending = 0 /\ Pending' = 0 /\ LeftOver' = LeftOver
      BY <1>1, <1>3, <2>1 DEF Pending, LeftOver
    <3>. QED BY <1>1, <3>1 DEF EncInv, Accounted
  <2>5. NextIn' /\ LeftoverHeld' /\ Control' /\ WindowTrue'
    BY <1>1, <1>2, <1>3, <2>1
    DEF EncInv, NextIn, LeftoverHeld, Control, WindowTrue, WindowStates
  <2>6. Collected'
    BY <1>1, <1>3, <2>1 DEF EncInv, Collected
  <2>. QED BY <2>2, <2>3, <2>4, <2>5, <2>6 DEF EncInv
<1>4. CASE ~ (enc_state = "ENC_POSTWIN" /\ buf_leftover = Null)
  <2>1. UNCHANGED <<avail_in, enc_state>>
    BY <1>4 DEF Close
  <2>2. enc_state' \in States /\ ret' \in Returns /\ Pending' = Pending
    BY <1>1, <1>2, <2>1 DEF EncInv, InputTypes, Pending
  <2>3. Control'
    BY <1>1, <1>2, <2>1 DEF EncInv, Control
  <2>4. UNCHANGED <<cfg, inbuf, fed, input, total_in>>
    BY <1>1, <2>1 DEF input
  <2>5. buf_leftover # Null => enc_state' # "ENC_INIT" /\ ret' # "XD3_INPUT"
    BY <1>1, <2>1 DEF EncInv, LeftoverHeld
  <2>. QED BY <1>1, <1>2, <2>1, <2>2, <2>3, <2>4, <2>5, QuietStep
<1>. QED BY <1>3, <1>4

\* The client reads the next piece over the one before.
LEMMA AvailInputInv ==
  ASSUME EncInv, Asking, NEW n \in Nat, n <= Rest, n <= cfg.winsize, AvailInput(n),
         ret' = "run"
  PROVE  EncInv'
<1>1. /\ ret \in {"idle", "XD3_INPUT"} /\ closed = "open"
      /\ inbuf' = SubSeq(cfg.file, fed + 1, fed + n) /\ fed' = fed + n
      /\ next_in' = [in |-> "client", off |-> 0] /\ avail_in' = n
      /\ UNCHANGED <<cfg, closed, total_in, buf_in, buf_avail, enc_state>>
      /\ UNCHANGED <<buf_leftover, buf_leftavail>>
  BY DEF Asking, AvailInput
<1>2. /\ cfg.file \in Seq(Byte) /\ Len(cfg.file) \in Nat /\ fed \in Nat
      /\ fed <= Len(cfg.file) /\ total_in \in Nat /\ buf_avail \in Nat
      /\ buf_leftavail \in Nat
  BY CfgFacts
<1>3. fed + n <= Len(cfg.file)
  BY <1>2 DEF Rest
<1>4. enc_state \in {"ENC_INIT", "ENC_INPUT"} /\ buf_leftover = Null
  BY <1>1 DEF EncInv, Control, LeftoverHeld
<1>5. fed = total_in + buf_avail
  <2>1. Pending = 0 /\ LeftOver = 0
    <3>1. ret = "idle" => avail_in = 0
      BY DEF EncInv, Control, NextIn
    <3>. QED BY <1>1, <1>4, <3>1 DEF Pending, LeftOver
  <2>2. fed = total_in + 0 + buf_avail + 0
    BY <2>1 DEF EncInv, Accounted
  <2>. QED BY <1>2, <2>2
<1>6. Len(inbuf') = n /\ inbuf' = SubSeq(cfg.file, fed + 1, fed + n)
  BY <1>1, <1>2, <1>3, SubSeqType
<1>7. InputTypes'
  <2>1. cfg \in Configs
    BY DEF EncInv, InputTypes
  <2>2. fed' \in 0 .. Len(cfg'.file)
    BY <1>1, <1>2, <1>3
  <2>. QED BY <1>1, <1>2, <1>4, <2>1, <2>2 DEF InputTypes, States, Returns
<1>8. ClientBuffer'
  <2>1. fed' - Len(inbuf') = fed /\ Len(inbuf') \in 0 .. fed'
    BY <1>1, <1>2, <1>6
  <2>2. inbuf' = SubSeq(cfg'.file, (fed' - Len(inbuf')) + 1, (fed' - Len(inbuf')) + Len(inbuf'))
    BY <1>1, <1>6, <2>1
  <2>. QED BY <1>1, <1>6, <2>1, <2>2 DEF ClientBuffer, Piece
<1>9. Accounted'
  <2>1. Pending' = n /\ LeftOver' = 0
    BY <1>1, <1>4 DEF Pending, LeftOver
  <2>. QED BY <1>1, <1>2, <1>5, <2>1 DEF Accounted
<1>10. NextIn'
  <2>1. [in |-> "client", off |-> 0] # Null
    <3>1. [in |-> "client", off |-> 0].in # Null.in
      BY DEF Null
    <3>. QED BY <3>1
  <2>. QED BY <1>1, <1>6, <2>1 DEF NextIn
<1>11. Collected'
  BY <1>1 DEF EncInv, Collected, Piece
<1>12. LeftoverHeld' /\ Control' /\ WindowTrue'
  BY <1>1, <1>4 DEF LeftoverHeld, Control, WindowTrue, WindowStates
<1>. QED BY <1>7, <1>8, <1>9, <1>10, <1>11, <1>12 DEF EncInv

LEMMA FeedInv == EncInv /\ Feed => EncInv'
<1>. SUFFICES ASSUME EncInv, Feed PROVE EncInv'
  OBVIOUS
<1>1. PICK size \in cfg.pieces : AvailInput(Least(size, Rest))
  BY DEF Feed
<1>2. Asking /\ ret' = "run"
  BY DEF Feed, Return
<1>3. size \in Nat /\ size <= cfg.winsize /\ cfg.winsize \in Nat /\ Rest \in Nat
  BY CfgFacts DEF Rest
<1>4. Least(size, Rest) \in Nat /\ Least(size, Rest) <= Rest
      /\ Least(size, Rest) <= cfg.winsize
  BY <1>3 DEF Least
<1>. QED BY <1>1, <1>2, <1>4, AvailInputInv

LEMMA FeedMemoryInv == EncInv /\ FeedMemory => EncInv'
<1>. SUFFICES ASSUME EncInv, FeedMemory PROVE EncInv'
  OBVIOUS
<1>1. AvailInput(Least(cfg.winsize, Rest)) /\ Asking /\ ret' = "run"
  BY DEF FeedMemory, Return
<1>2. cfg.winsize \in Nat /\ Rest \in Nat
  BY CfgFacts DEF Rest
<1>3. Least(cfg.winsize, Rest) \in Nat /\ Least(cfg.winsize, Rest) <= Rest
      /\ Least(cfg.winsize, Rest) <= cfg.winsize
  BY <1>2 DEF Least
<1>. QED BY <1>1, <1>3, AvailInputInv

\* The other steps of the client: only ret and closed change.
LEMMA ClientStep ==
  ASSUME EncInv, UNCHANGED <<cfg, inbuf, fed, input, total_in, enc_state>>,
         \/ /\ ret' = "run" /\ UNCHANGED closed
            /\ \/ ret = "idle"
               \/ closed = "open" /\ ret \in {"XD3_WINSTART", "XD3_OUTPUT", "XD3_WINFINISH"}
         \/ UNCHANGED ret /\ ret = "XD3_OUTPUT" /\ closed' # "open"
  PROVE  EncInv'
<1>1. enc_state' \in States /\ ret' \in Returns
  BY DEF EncInv, InputTypes, Returns
<1>2. Pending' = Pending
  BY DEF Pending, input
<1>3. Control'
  BY DEF EncInv, Control
<1>4. buf_leftover # Null => enc_state' # "ENC_INIT" /\ ret' # "XD3_INPUT"
  BY DEF EncInv, LeftoverHeld
<1>5. enc_state' \in {"ENC_INIT", "ENC_INPUT"} /\ ret' = "run" =>
           enc_state \in {"ENC_INIT", "ENC_INPUT"} /\ (ret = "run" \/ next_in = Null)
  BY DEF EncInv, Control
<1>. QED BY <1>1, <1>2, <1>3, <1>4, <1>5, QuietStep

LEMMA CallFirstInv == EncInv /\ CallFirst => EncInv'
BY ClientStep DEF CallFirst, client, Return

LEMMA ConsumeOutputInv == EncInv /\ ConsumeOutput => EncInv'
<1>. SUFFICES ASSUME EncInv, ConsumeOutput PROVE EncInv'
  OBVIOUS
<1>1. /\ UNCHANGED <<cfg, inbuf, fed, input, total_in, enc_state>>
      /\ ret = "XD3_OUTPUT" /\ closed = "open"
      /\ \/ UNCHANGED ret /\ closed' = "ENOSPC"
         \/ ret' = "run" /\ UNCHANGED closed
  BY DEF ConsumeOutput, Return
<1>. QED BY <1>1, ClientStep

LEMMA ContinueInv == EncInv /\ Continue => EncInv'
BY ClientStep DEF Continue, client, Return

LEMMA StutterInv == EncInv /\ UNCHANGED vars => EncInv'
<1>. SUFFICES ASSUME EncInv, UNCHANGED vars PROVE EncInv'
  OBVIOUS
<1>1. UNCHANGED <<cfg, inbuf, fed, input, total_in, enc_state, ret, closed>>
  BY DEF vars, client
<1>2. enc_state' \in States /\ ret' \in Returns
  BY <1>1 DEF EncInv, InputTypes
<1>3. Pending' = Pending
  BY <1>1 DEF Pending, input
<1>4. Control'
  BY <1>1 DEF EncInv, Control, input
<1>5. buf_leftover # Null => enc_state' # "ENC_INIT" /\ ret' # "XD3_INPUT"
  BY <1>1 DEF EncInv, LeftoverHeld
<1>. QED BY <1>1, <1>2, <1>3, <1>4, <1>5, QuietStep

-----------------------------------------------------------------------------
LEMMA InitEncInv == Init => EncInv
<1>. SUFFICES ASSUME Init PROVE EncInv
  OBVIOUS
<1>1. /\ cfg \in Configs /\ inbuf = <<>> /\ fed = 0 /\ closed = "open"
      /\ next_in = Null /\ avail_in = 0 /\ buf_avail = 0 /\ buf_leftover = Null
      /\ buf_leftavail = 0 /\ enc_state = "ENC_INIT" /\ ret = "idle" /\ total_in = 0
  BY DEF Init
<1>2. cfg.file \in Seq(Byte) /\ cfg.winsize \in Nat \ {0} /\ Len(cfg.file) \in Nat
  BY <1>1, EncodeAssumption
<1>3. InputTypes
  BY <1>1, <1>2 DEF InputTypes, States, Returns
<1>4. ClientBuffer
  <2>1. Len(inbuf) = 0 /\ 0 \in 0 .. 0 /\ 0 <= cfg.winsize /\ 0 - 0 = 0
    BY <1>1, <1>2
  <2>2. Piece(0, 0) = <<>>
    BY EmptyPiece
  <2>. QED BY <1>1, <2>1, <2>2 DEF ClientBuffer
<1>5. Accounted
  BY <1>1 DEF Accounted, Pending, LeftOver
<1>6. NextIn /\ Collected /\ LeftoverHeld /\ Control /\ WindowTrue
  BY <1>1 DEF NextIn, Collected, LeftoverHeld, Control, WindowTrue, WindowStates
<1>. QED BY <1>3, <1>4, <1>5, <1>6 DEF EncInv

LEMMA NextEncInv == EncInv /\ [Next]_vars => EncInv'
BY EncInitInv, NoInputYetInv, UseDirectlyInv, BufferInputInv, UseBufferInv, SearchInv,
   EncodeAddInv, EncodeMatchInv, AddFinalizeInv, FlushInv, MissedConsumeInv, NextPageInv,
   PostWinInv, FeedInv, FeedMemoryInv, CallFirstInv, ConsumeOutputInv, ContinueInv,
   CloseInv, StutterInv
DEF Next, Stream, Client, Done

\* Whatever mixture of the client's buffer, the stream's own and leftovers the
\* windows are put together from, for pieces and windows of any size: they are
\* the input, in order, each byte once.
THEOREM WindowsAreTheInput == Spec => []InputInOrder
<1>1. EncInv => InputInOrder
  <2>. SUFFICES ASSUME EncInv PROVE InputInOrder
    OBVIOUS
  <2>1. enc_state \in WindowStates =>
          Window = SubSeq(cfg.file, total_in + 1, total_in + avail_in)
    BY DEF EncInv, WindowTrue, Piece
  <2>2. fed = total_in
             + (IF enc_state = "ENC_POSTWIN" \/ ret = "XD3_INPUT" THEN 0 ELSE avail_in)
             + buf_avail + (IF buf_leftover # Null THEN buf_leftavail ELSE 0)
    BY DEF EncInv, Accounted, Pending, LeftOver
  <2>3. buf_leftover # Null => buf_avail = 0 /\ buf_leftavail < cfg.winsize
    BY DEF EncInv, LeftoverHeld
  <2>. QED BY <2>1, <2>2, <2>3 DEF InputInOrder, WindowStates
<1>. QED BY <1>1, InitEncInv, NextEncInv, PTL DEF Spec

-----------------------------------------------------------------------------
(* Lists of pages.  The pages of a list are linked by next_page, a function *)
(* f here: l is the list from id on, each page of it once.                  *)

Distinct(l) == \A i, j \in 1 .. Len(l) : l[i] = l[j] => i = j

List(f, id, l) ==
  /\ l \in Seq(DOMAIN f) /\ Distinct(l)
  /\ id = IF l = <<>> THEN NULL ELSE l[1]
  /\ \A k \in 1 .. Len(l) : f[l[k]] = IF k = Len(l) THEN NULL ELSE l[k + 1]

LEMMA ToSetIs ==
  ASSUME NEW T, NEW l \in Seq(T)
  PROVE  /\ ToSet(l) = {l[k] : k \in 1 .. Len(l)} /\ ToSet(l) \subseteq T
         /\ Len(l) \in Nat
         /\ \A k \in 1 .. Len(l) : l[k] \in ToSet(l) /\ l[k] \in T
<1>1. DOMAIN l = 1 .. Len(l) /\ Len(l) \in Nat
  BY LenProperties
<1>2. \A k \in 1 .. Len(l) : l[k] \in T
  BY ElementOfSeq
<1>. QED BY <1>1, <1>2 DEF ToSet

\* A list is what it was as long as the links of its pages are.
LEMMA ListFrame ==
  ASSUME NEW f, NEW g, NEW id, NEW l, List(f, id, l), DOMAIN f \subseteq DOMAIN g,
         \A p \in ToSet(l) : g[p] = f[p]
  PROVE  List(g, id, l)
<1>1. l \in Seq(DOMAIN f)
  BY DEF List
<1>2. l \in Seq(DOMAIN g)
  BY <1>1, SeqMonotonic
<1>3. \A k \in 1 .. Len(l) : g[l[k]] = f[l[k]]
  BY <1>1, ToSetIs
<1>. QED BY <1>2, <1>3 DEF List

LEMMA ListEmpty ==
  ASSUME NEW f
  PROVE  List(f, NULL, <<>>) /\ ToSet(<<>>) = {}
<1>1. <<>> \in Seq(DOMAIN f) /\ Len(<<>>) = 0
  BY EmptySeq
<1>2. ToSet(<<>>) = {}
  <2>1. ToSet(<<>>) = {<<>>[k] : k \in 1 .. 0}
    BY <1>1, ToSetIs
  <2>2. 1 .. 0 = {}
    OBVIOUS
  <2>. QED BY <2>1, <2>2
<1>. QED BY <1>1, <1>2 DEF List, Distinct

\* The pages of u are linked to one another, the last one to id.
Segment(f, u, id) ==
  /\ u \in Seq(DOMAIN f) /\ u # <<>> /\ Distinct(u)
  /\ \A k \in 1 .. Len(u) : f[u[k]] = IF k = Len(u) THEN id ELSE u[k + 1]

LEMMA OnePage ==
  ASSUME NEW f, NEW p \in DOMAIN f
  PROVE  /\ Segment(f, <<p>>, f[p]) /\ ToSet(<<p>>) = {p}
         /\ f[p] = NULL => List(f, p, <<p>>)
<1>1. <<p>> \in Seq(DOMAIN f) /\ Len(<<p>>) = 1 /\ <<p>>[1] = p /\ <<p>> # <<>>
  OBVIOUS
<1>2. ToSet(<<p>>) = {p}
  <2>1. ToSet(<<p>>) = {<<p>>[k] : k \in 1 .. 1}
    BY <1>1, ToSetIs
  <2>2. 1 .. 1 = {1}
    OBVIOUS
  <2>. QED BY <1>1, <2>1, <2>2
<1>. QED BY <1>1, <1>2 DEF Segment, List, Distinct

\* A segment before a list.
LEMMA ListJoin ==
  ASSUME NEW f, NEW u, NEW v, NEW id, Segment(f, u, id), List(f, id, v),
         ToSet(u) \cap ToSet(v) = {}
  PROVE  /\ List(f, u[1], u \o v) /\ ToSet(u \o v) = ToSet(u) \cup ToSet(v)
         /\ u \o v # <<>> /\ (u \o v)[1] = u[1] /\ Len(u \o v) = Len(u) + Len(v)
         /\ v # <<>> => (u \o v)[Len(u \o v)] = v[Len(v)]
         /\ v = <<>> => u \o v = u
<1>. DEFINE w == u \o v
<1>1. u \in Seq(DOMAIN f) /\ v \in Seq(DOMAIN f) /\ u # <<>>
  BY DEF Segment, List
<1>2. PICK m \in Nat : m = Len(u) /\ m > 0
  BY <1>1, EmptySeq
<1>3. PICK n \in Nat : n = Len(v) /\ (v # <<>> => n > 0) /\ (v = <<>> => n = 0)
  BY <1>1, EmptySeq
<1>4. /\ w \in Seq(DOMAIN f) /\ Len(w) = m + n
      /\ \A i \in 1 .. m + n : w[i] = IF i <= m THEN u[i] ELSE v[i - m]
  BY <1>1, <1>2, <1>3, ConcatProperties
<1>5. /\ \A i \in 1 .. m : u[i] \in ToSet(u)
      /\ \A i \in 1 .. n : v[i] \in ToSet(v)
  BY <1>1, <1>2, <1>3, ToSetIs
<1>. HIDE DEF w
<1>6. ToSet(w) = ToSet(u) \cup ToSet(v)
  <2>1. /\ ToSet(w) = {w[k] : k \in 1 .. m + n} /\ ToSet(u) = {u[k] : k \in 1 .. m}
        /\ ToSet(v) = {v[k] : k \in 1 .. n}
    BY <1>1, <1>2, <1>3, <1>4, ToSetIs
  <2>2. \A k \in 1 .. m : w[k] = u[k] /\ k \in 1 .. m + n
    BY <1>4
  <2>3. \A k \in 1 .. n : w[m + k] = v[k] /\ m + k \in 1 .. m + n
    <3>. TAKE k \in 1 .. n
    <3>1. m + k \in 1 .. m + n /\ ~ (m + k <= m) /\ (m + k) - m = k
      OBVIOUS
    <3>. QED BY <1>4, <3>1
  <2>4. \A k \in 1 .. m + n : w[k] \in ToSet(u) \cup ToSet(v)
    <3>. TAKE k \in 1 .. m + n
    <3>1. ~ (k <= m) => k - m \in 1 .. n
      OBVIOUS
    <3>. QED BY <1>4, <1>5, <3>1
  <2>5. ToSet(w) \subseteq ToSet(u) \cup ToSet(v)
    BY <2>1, <2>4
  <2>6. ToSet(u) \subseteq ToSet(w) /\ ToSet(v) \subseteq ToSet(w)
    BY <2>1, <2>2, <2>3
  <2>. QED BY <2>5, <2>6
<1>7. Distinct(w)
  <2>. SUFFICES ASSUME NEW i \in 1 .. m + n, NEW j \in 1 .. m + n, w[i] = w[j]
                PROVE  i = j
    BY <1>4 DEF Distinct
  <2>1. CASE i <= m /\ j <= m
    <3>1. u[i] = u[j] /\ i \in 1 .. m /\ j \in 1 .. m
      BY <1>4, <2>1
    <3>. QED BY <1>2, <3>1 DEF Segment, Distinct
  <2>2. CASE ~ (i <= m) /\ ~ (j <= m)
    <3>1. v[i - m] = v[j - m] /\ i - m \in 1 .. n /\ j - m \in 1 .. n
      BY <1>4, <2>2
    <3>2. i - m = j - m
      BY <1>3, <3>1 DEF List, Distinct
    <3>. QED BY <3>2
  <2>3. CASE i <= m /\ ~ (j <= m)
    <3>1. w[i] = u[i] /\ w[j] = v[j - m] /\ i \in 1 .. m /\ j - m \in 1 .. n
      BY <1>4, <2>3
    <3>. QED BY <1>5, <3>1
  <2>4. CASE ~ (i <= m) /\ j <= m
    <3>1. w[j] = u[j] /\ w[i] = v[i - m] /\ j \in 1 .. m /\ i - m \in 1 .. n
      BY <1>4, <2>4
    <3>. QED BY <1>5, <3>1
  <2>. QED BY <2>1, <2>2, <2>3, <2>4
<1>8. w # <<>> /\ w[1] = u[1]
  <2>1. 1 \in 1 .. m + n /\ 1 <= m /\ m + n # 0
    BY <1>2
  <2>. QED BY <1>4, <2>1, EmptySeq
<1>9. ASSUME NEW k \in 1 .. m + n
      PROVE  f[w[k]] = IF k = m + n THEN NULL ELSE w[k + 1]
  <2>1. CASE k < m
    <3>1. /\ k \in 1 .. m /\ k # m /\ k + 1 \in 1 .. m + n /\ k + 1 <= m /\ k <= m
          /\ k # m + n
      BY <2>1
    <3>2. w[k] = u[k] /\ w[k + 1] = u[k + 1]
      BY <1>4, <3>1
    <3>3. f[u[k]] = u[k + 1]
      BY <1>2, <3>1 DEF Segment
    <3>. QED BY <3>1, <3>2, <3>3
  <2>2. CASE k = m
    <3>1. w[k] = u[m] /\ f[u[m]] = id
      <4>1. m \in 1 .. m /\ m \in 1 .. m + n
        BY <1>2
      <4>. QED BY <1>2, <1>4, <2>2, <4>1 DEF Segment
    <3>2. CASE n = 0
      <4>1. id = NULL /\ k = m + n
        BY <1>1, <1>3, <2>2, <3>2, EmptySeq DEF List
      <4>. QED BY <3>1, <4>1
    <3>3. CASE n # 0
      <4>1. v # <<>> /\ id = v[1]
        BY <1>3, <3>3, EmptySeq DEF List
      <4>2. k + 1 \in 1 .. m + n /\ ~ (k + 1 <= m) /\ (k + 1) - m = 1 /\ k # m + n
        BY <2>2, <3>3
      <4>3. w[k + 1] = v[1]
        BY <1>4, <4>2
      <4>. QED BY <3>1, <4>1, <4>2, <4>3
    <3>. QED BY <3>2, <3>3
  <2>3. CASE k > m
    <3>1. /\ ~ (k <= m) /\ k - m \in 1 .. n /\ (k = m + n <=> k - m = n)
          /\ k # m + n => /\ k + 1 \in 1 .. m + n /\ ~ (k + 1 <= m)
                          /\ (k + 1) - m = (k - m) + 1
      BY <2>3
    <3>2. f[v[k - m]] = IF k - m = n THEN NULL ELSE v[(k - m) + 1]
      BY <1>3, <3>1 DEF List
    <3>3. w[k] = v[k - m]
      BY <1>4, <3>1
    <3>4. k # m + n => w[k + 1] = v[(k - m) + 1]
      BY <1>4, <3>1
    <3>. QED BY <3>1, <3>2, <3>3, <3>4
  <2>. QED BY <2>1, <2>2, <2>3
<1>10. v # <<>> => w[Len(w)] = v[Len(v)]
  <2>. SUFFICES ASSUME v # <<>> PROVE w[m + n] = v[n]
    BY <1>3, <1>4
  <2>1. m + n \in 1 .. m + n /\ ~ (m + n <= m) /\ (m + n) - m = n
    BY <1>3
  <2>. QED BY <1>4, <2>1
<1>11. v = <<>> => w = u
  BY <1>1, ConcatEmptySeq DEF w
<1>12. List(f, u[1], w)
  BY <1>4, <1>7, <1>8, <1>9 DEF List
<1>. QED BY <1>2, <1>3, <1>4, <1>6, <1>8, <1>10, <1>11, <1>12 DEF w

\* What a list is after the last of its links has changed.
LEMMA ListSegment ==
  ASSUME NEW f, NEW g, NEW id, NEW l, List(f, id, l), l # <<>>, DOMAIN f \subseteq DOMAIN g,
         \A p \in ToSet(l) : p # l[Len(l)] => g[p] = f[p]
  PROVE  Segment(g, l, g[l[Len(l)]]) /\ l[1] = id /\ l[Len(l)] \in ToSet(l)
<1>1. l \in Seq(DOMAIN f)
  BY DEF List
<1>2. l \in Seq(DOMAIN g)
  BY <1>1, SeqMonotonic
<1>3. Len(l) \in 1 .. Len(l)
  BY <1>1, EmptySeq
<1>4. ASSUME NEW k \in 1 .. Len(l), k # Len(l)
      PROVE  g[l[k]] = l[k + 1]
  <2>1. l[k] # l[Len(l)] /\ l[k] \in ToSet(l)
    BY <1>1, <1>3, <1>4, ToSetIs DEF List, Distinct
  <2>2. f[l[k]] = l[k + 1]
    BY <1>4 DEF List
  <2>. QED BY <2>1, <2>2
<1>5. l[Len(l)] \in ToSet(l)
  BY <1>1, <1>3, ToSetIs
<1>. QED BY <1>2, <1>4, <1>5 DEF List, Segment

\* A list without its first page.
LEMMA ListTail ==
  ASSUME NEW f, NEW id, NEW l, List(f, id, l), l # <<>>
  PROVE  /\ id = l[1] /\ id \in ToSet(l) /\ List(f, f[id], Tail(l))
         /\ ToSet(Tail(l)) = ToSet(l) \ {id} /\ Len(Tail(l)) = Len(l) - 1
         /\ \A k \in 1 .. Len(l) - 1 : Tail(l)[k] = l[k + 1]
<1>. DEFINE t == Tail(l)
<1>1. l \in Seq(DOMAIN f) /\ id = l[1]
  BY DEF List
<1>2. PICK n \in Nat : n = Len(l) /\ n > 0
  BY <1>1, EmptySeq
<1>3. t \in Seq(DOMAIN f) /\ Len(t) = n - 1 /\ \A i \in 1 .. n - 1 : t[i] = l[i + 1]
  BY <1>1, <1>2, HeadTailProperties
<1>. HIDE DEF t
<1>4. /\ ToSet(l) = {l[k] : k \in 1 .. n} /\ ToSet(t) = {t[k] : k \in 1 .. n - 1}
  BY <1>1, <1>2, <1>3, ToSetIs
<1>5. \A i, j \in 1 .. n : l[i] = l[j] => i = j
  BY <1>2 DEF List, Distinct
<1>6. 1 \in 1 .. n /\ \A i \in 1 .. n - 1 : i + 1 \in 1 .. n /\ i + 1 # 1
  BY <1>2
<1>7. ToSet(t) = ToSet(l) \ {id}
  <2>1. \A k \in 1 .. n : l[k] # id => k - 1 \in 1 .. n - 1 /\ t[k - 1] = l[k]
    <3>. SUFFICES ASSUME NEW k \in 1 .. n, l[k] # id
                  PROVE  k - 1 \in 1 .. n - 1 /\ t[k - 1] = l[k]
      OBVIOUS
    <3>1. k # 1
      BY <1>1
    <3>2. k - 1 \in 1 .. n - 1 /\ (k - 1) + 1 = k
      BY <3>1
    <3>. QED BY <1>3, <3>2
  <2>2. \A k \in 1 .. n - 1 : t[k] # id /\ t[k] = l[k + 1] /\ k + 1 \in 1 .. n
    BY <1>1, <1>3, <1>5, <1>6
  <2>3. ToSet(l) \ {id} \subseteq ToSet(t)
    BY <1>4, <2>1
  <2>4. ToSet(t) \subseteq ToSet(l) \ {id}
    BY <1>4, <2>2
  <2>. QED BY <2>3, <2>4
<1>8. Distinct(t)
  <2>. SUFFICES ASSUME NEW i \in 1 .. n - 1, NEW j \in 1 .. n - 1, t[i] = t[j]
                PROVE  i = j
    BY <1>3 DEF Distinct
  <2>1. l[i + 1] = l[j + 1]
    BY <1>3
  <2>2. i + 1 = j + 1
    BY <1>5, <1>6, <2>1
  <2>. QED BY <2>2
<1>9. \A k \in 1 .. n : f[l[k]] = IF k = n THEN NULL ELSE l[k + 1]
  BY <1>2 DEF List
<1>10. f[id] = IF t = <<>> THEN NULL ELSE t[1]
  <2>1. f[id] = IF 1 = n THEN NULL ELSE l[1 + 1]
    BY <1>1, <1>6, <1>9
  <2>2. t = <<>> <=> n = 1
    <3>1. t = <<>> <=> Len(t) = 0
      BY <1>3, EmptySeq
    <3>. QED BY <1>2, <1>3, <3>1
  <2>3. n # 1 => t[1] = l[1 + 1]
    <3>1. n # 1 => 1 \in 1 .. n - 1
      BY <1>2
    <3>. QED BY <1>3, <3>1
  <2>. QED BY <2>1, <2>2, <2>3
<1>11. ASSUME NEW k \in 1 .. n - 1
       PROVE  f[t[k]] = IF k = n - 1 THEN NULL ELSE t[k + 1]
  <2>1. t[k] = l[k + 1] /\ k + 1 \in 1 .. n /\ (k + 1 = n <=> k = n - 1)
    BY <1>3, <1>6
  <2>2. f[l[k + 1]] = IF k + 1 = n THEN NULL ELSE l[(k + 1) + 1]
    BY <1>9, <2>1
  <2>3. k # n - 1 => t[k + 1] = l[(k + 1) + 1]
    <3>1. k # n - 1 => k + 1 \in 1 .. n - 1
      OBVIOUS
    <3>. QED BY <1>3, <3>1
  <2>. QED BY <2>1, <2>2, <2>3
<1>12. List(f, f[id], t)
  BY <1>3, <1>8, <1>10, <1>11 DEF List
<1>13. id \in ToSet(l)
  BY <1>1, <1>4, <1>6
<1>. QED BY <1>1, <1>2, <1>3, <1>7, <1>12, <1>13 DEF t

\* The pages of a list are no more than there are pages.
LEMMA ListLength ==
  ASSUME NEW n \in Nat, NEW l \in Seq(1 .. n), Distinct(l)
  PROVE  Len(l) <= n /\ (ToSet(l) = 1 .. n => Len(l) = n)
<1>1. Len(l) \in Nat /\ l \in [1 .. Len(l) -> 1 .. n] /\ DOMAIN l = 1 .. Len(l)
  BY LenProperties
<1>2. l \in Injection(1 .. Len(l), 1 .. n)
  BY <1>1 DEF Injection, IsInjective, Distinct
<1>3. /\ IsFiniteSet(1 .. n) /\ Cardinality(1 .. n) = n
      /\ Cardinality(1 .. Len(l)) = Len(l)
  <2>1. IsFiniteSet(1 .. n) /\ Cardinality(1 .. n) = IF 1 > n THEN 0 ELSE n - 1 + 1
    BY FS_Interval
  <2>2. PICK m \in Nat : m = Len(l)
    BY <1>1
  <2>3. Cardinality(1 .. m) = IF 1 > m THEN 0 ELSE m - 1 + 1
    BY FS_Interval
  <2>. QED BY <2>1, <2>2, <2>3
<1>4. /\ Cardinality(1 .. Len(l)) <= Cardinality(1 .. n)
      /\ Cardinality(1 .. Len(l)) = Cardinality(1 .. n) <=> l \in Surjection(1 .. Len(l), 1 .. n)
  BY <1>2, <1>3, FS_Injection
<1>5. ASSUME ToSet(l) = 1 .. n PROVE l \in Surjection(1 .. Len(l), 1 .. n)
  <2>1. ToSet(l) = {l[k] : k \in 1 .. Len(l)}
    BY ToSetIs
  <2>. QED BY <1>1, <1>5, <2>1 DEF Surjection
<1>. QED BY <1>1, <1>3, <1>4, <1>5

-----------------------------------------------------------------------------
(* What the output is made of, and the loops over its lists.               *)

Bases       == {b \in Seq(Byte) : Len(b) <= PageSize}
PageRecords == [base : Bases, next_page : Nat]
Outputs     == [page : Seq(PageRecords), heads : [Sections -> Nat],
                tails : [Sections -> Nat], enc_free : Nat, ok : BOOLEAN]
Ids(o)      == 1 .. Len(o.page)
NextOf(o)   == [p \in Ids(o) |-> o.page[p].next_page]

LEMMA OutputFacts ==
  ASSUME NEW o \in Outputs
  PROVE  /\ o.page \in Seq(PageRecords) /\ Len(o.page) \in Nat
         /\ o.heads \in [Sections -> Nat] /\ o.tails \in [Sections -> Nat]
         /\ o.enc_free \in Nat /\ o.ok \in BOOLEAN
         /\ DOMAIN NextOf(o) = Ids(o)
         /\ \A p \in Ids(o) : /\ o.page[p] \in PageRecords
                              /\ o.page[p].base \in Seq(Byte)
                              /\ Len(o.page[p].base) <= PageSize
                              /\ Len(o.page[p].base) \in Nat
                              /\ o.page[p].next_page \in Nat
                              /\ NextOf(o)[p] = o.page[p].next_page
<1>1. o.page \in Seq(PageRecords)
  BY DEF Outputs
<1>2. Len(o.page) \in Nat /\ \A p \in Ids(o) : o.page[p] \in PageRecords
  BY <1>1, LenProperties, ElementOfSeq DEF Ids
<1>3. \A r \in PageRecords : /\ r.base \in Seq(Byte) /\ Len(r.base) <= PageSize
                             /\ Len(r.base) \in Nat /\ r.next_page \in Nat
  BY LenProperties DEF PageRecords, Bases
<1>4. /\ o.heads \in [Sections -> Nat] /\ o.tails \in [Sections -> Nat]
      /\ o.enc_free \in Nat /\ o.ok \in BOOLEAN
  BY DEF Outputs
<1>5. DOMAIN NextOf(o) = Ids(o) /\ \A p \in Ids(o) : NextOf(o)[p] = o.page[p].next_page
  BY DEF NextOf
<1>. QED BY <1>1, <1>2, <1>3, <1>4, <1>5

\* The function of Chain: the k-th page after id.
Nth(o, id, n, v) ==
  v = [k \in 0 .. n |-> IF k = 0 THEN id ELSE LET p == v[k - 1] IN IF p = NULL THEN NULL ELSE o.page[p].next_page]

LEMMA NthExists ==
  ASSUME NEW o, NEW id, NEW m \in Nat
  PROVE  \E v : Nth(o, id, m, v)
<1>. DEFINE S == {n \in Nat : \E v : Nth(o, id, n, v)}
            start == [k \in 0 .. 0 |-> id]
<1>1. 0 \in S
  <2>1. Nth(o, id, 0, start)
    BY DEF Nth
  <2>. QED BY <2>1
<1>2. ASSUME NEW n \in Nat, n \in S PROVE n + 1 \in S
  <2>1. PICK v : Nth(o, id, n, v)
    BY <1>2
  <2>. DEFINE e(k, g) == IF k = 0 THEN id ELSE LET p == g[k - 1] IN IF p = NULL THEN NULL ELSE o.page[p].next_page
              h == [k \in 0 .. n + 1 |-> e(k, v)]
  <2>2. \A k \in 0 .. n : v[k] = e(k, v)
    BY <2>1 DEF Nth
  <2>3. \A k \in 0 .. n : h[k] = v[k]
    BY <2>2
  <2>4. \A k \in 0 .. n + 1 : e(k, v) = e(k, h)
    <3>1. \A k \in 0 .. n + 1 : k # 0 => k - 1 \in 0 .. n
      OBVIOUS
    <3>. HIDE DEF h
    <3>. QED BY <2>3, <3>1
  <2>5. h = [k \in 0 .. n + 1 |-> e(k, h)]
    <3>1. h = [k \in 0 .. n + 1 |-> e(k, v)]
      OBVIOUS
    <3>. HIDE DEF h, e
    <3>. QED BY <3>1, <2>4
  <2>6. Nth(o, id, n + 1, h)
    BY <2>5 DEF Nth
  <2>. QED BY <2>6
<1>. HIDE DEF S
<1>3. m \in S
  BY <1>1, <1>2, NatSets
<1>. QED BY <1>3 DEF S

LEMMA ChainIs ==
  ASSUME NEW o \in Outputs, NEW id, NEW l, List(NextOf(o), id, l)
  PROVE  Chain(o, id) = l
<1>. DEFINE n  == Len(o.page)
            v  == CHOOSE g : Nth(o, id, n, g)
            nn == {k \in 0 .. n : v[k] # NULL}
<1>1. n \in Nat /\ DOMAIN NextOf(o) = 1 .. n
      /\ \A p \in 1 .. n : NextOf(o)[p] = o.page[p].next_page
  BY OutputFacts DEF Ids
<1>2. Nth(o, id, n, v)
  <2>1. \E g : Nth(o, id, n, g)
    BY <1>1, NthExists
  <2>. QED BY <2>1
<1>3. Chain(o, id) = [k \in 1 .. Cardinality(nn) |-> v[k - 1]]
  BY DEF Chain, Nth
<1>. HIDE DEF v, n
<1>4. /\ v[0] = id
      /\ \A k \in 1 .. n : v[k] = IF v[k - 1] = NULL THEN NULL ELSE o.page[v[k - 1]].next_page
  <2>. DEFINE e(k) == IF k = 0 THEN id
                      ELSE IF v[k - 1] = NULL THEN NULL ELSE o.page[v[k - 1]].next_page
  <2>1. v = [k \in 0 .. n |-> e(k)]
    BY <1>2 DEF Nth
  <2>2. 0 \in 0 .. n /\ \A k \in 1 .. n : k \in 0 .. n /\ k # 0
    BY <1>1
  <2>. HIDE DEF e
  <2>3. v[0] = e(0) /\ \A k \in 1 .. n : v[k] = e(k)
    BY <2>1, <2>2
  <2>. QED BY <2>2, <2>3 DEF e
<1>5. l \in Seq(1 .. n)
  BY <1>1 DEF List
<1>6. PICK m \in Nat : m = Len(l) /\ m <= n /\ (l = <<>> <=> m = 0)
  <2>1. Len(l) <= n
    BY <1>1, <1>5, ListLength DEF List
  <2>. QED BY <1>5, <2>1, EmptySeq
<1>7. /\ \A k \in 1 .. m : l[k] \in 1 .. n /\ l[k] # NULL
      /\ \A k \in 1 .. m : o.page[l[k]].next_page = IF k = m THEN NULL ELSE l[k + 1]
  <2>1. \A k \in 1 .. m : l[k] \in 1 .. n
    BY <1>5, <1>6, ElementOfSeq
  <2>. QED BY <1>1, <1>6, <2>1 DEF List, NULL
<1>. DEFINE S == {k \in Nat : k <= n => v[k] = IF k < m THEN l[k + 1] ELSE NULL}
<1>8. 0 \in S
  <2>1. id = IF m = 0 THEN NULL ELSE l[0 + 1]
    BY <1>6 DEF List
  <2>. QED BY <1>4, <1>6, <2>1
<1>9. ASSUME NEW k \in Nat, k \in S PROVE k + 1 \in S
  <2>. SUFFICES ASSUME k + 1 <= n
                PROVE  v[k + 1] = IF k + 1 < m THEN l[(k + 1) + 1] ELSE NULL
    OBVIOUS
  <2>1. k <= n /\ k + 1 \in 1 .. n /\ (k + 1) - 1 = k
    BY <1>1
  <2>2. v[k + 1] = IF v[k] = NULL THEN NULL ELSE o.page[v[k]].next_page
    BY <1>4, <2>1
  <2>3. v[k] = IF k < m THEN l[k + 1] ELSE NULL
    BY <1>9, <2>1
  <2>4. CASE k < m
    <3>1. k + 1 \in 1 .. m /\ (k + 1 = m <=> ~ (k + 1 < m))
      BY <2>4
    <3>2. v[k + 1] = o.page[l[k + 1]].next_page
      BY <1>7, <2>2, <2>3, <2>4, <3>1
    <3>. QED BY <1>7, <3>1, <3>2
  <2>5. CASE ~ (k < m)
    <3>1. ~ (k + 1 < m)
      BY <2>5
    <3>. QED BY <2>2, <2>3, <2>5, <3>1
  <2>. QED BY <2>4, <2>5
<1>. HIDE DEF S
<1>10. Nat \subseteq S
  BY <1>8, <1>9, NatSets
<1>11. \A k \in 0 .. n : v[k] = IF k < m THEN l[k + 1] ELSE NULL
  BY <1>1, <1>10 DEF S
<1>12. nn = 0 .. m - 1
  <2>1. \A k \in 0 .. n : v[k] # NULL <=> k < m
    <3>. SUFFICES ASSUME NEW k \in 0 .. n PROVE v[k] # NULL <=> k < m
      OBVIOUS
    <3>1. k < m => k + 1 \in 1 .. m
      OBVIOUS
    <3>. QED BY <1>7, <1>11, <3>1
  <2>2. \A k \in 0 .. m - 1 : k \in 0 .. n /\ k < m
    BY <1>1, <1>6
  <2>. QED BY <2>1, <2>2
<1>13. Cardinality(nn) = m
  <2>1. Cardinality(0 .. m - 1) = IF 0 > m - 1 THEN 0 ELSE (m - 1) - 0 + 1
    BY FS_Interval
  <2>. HIDE DEF nn
  <2>. QED BY <1>12, <2>1
<1>14. \A k \in 1 .. m : v[k - 1] = l[k]
  <2>. SUFFICES ASSUME NEW k \in 1 .. m PROVE v[k - 1] = l[k]
    OBVIOUS
  <2>1. k - 1 \in 0 .. n /\ k - 1 < m /\ (k - 1) + 1 = k
    BY <1>1, <1>6
  <2>. QED BY <1>11, <2>1
<1>15. l = [k \in 1 .. m |-> l[k]]
  BY <1>5, <1>6, LenProperties
<1>16. Chain(o, id) = [k \in 1 .. m |-> v[k - 1]]
  <2>. HIDE DEF nn
  <2>. QED BY <1>3, <1>13
<1>. QED BY <1>14, <1>15, <1>16

-----------------------------------------------------------------------------
(* The lists of an output: the free list, which is list 0, and those of the *)
(* sections.                                                                *)

FirstOf(o, s) == IF s = 0 THEN o.enc_free ELSE o.heads[s]

\* ls are the lists of o: no two have a page in common, and the pages that are
\* in none are those of S.
PageLists(o, ls, S) ==
  /\ o \in Outputs /\ ls \in [0 .. 4 -> Seq(Nat)]
  /\ \A s \in 0 .. 4 : List(NextOf(o), FirstOf(o, s), ls[s]) /\ ToSet(ls[s]) \cap S = {}
  /\ \A s, t \in 0 .. 4 : s # t => ToSet(ls[s]) \cap ToSet(ls[t]) = {}
  /\ \A p \in Ids(o) : p \in S \/ \E s \in 0 .. 4 : p \in ToSet(ls[s])

LEMMA ListType ==
  ASSUME NEW o \in Outputs, NEW id, NEW l, List(NextOf(o), id, l)
  PROVE  /\ l \in Seq(Ids(o)) /\ l \in Seq(Nat) /\ ToSet(l) \subseteq Ids(o)
         /\ Len(l) \in Nat /\ NULL \notin ToSet(l) /\ id \in Nat
         /\ id = NULL <=> l = <<>>
         /\ l # <<>> => id = l[1] /\ 1 \in 1 .. Len(l) /\ l[Len(l)] \in ToSet(l)
<1>1. l \in Seq(Ids(o))
  BY OutputFacts DEF List
<1>2. Ids(o) \subseteq Nat /\ NULL \notin Ids(o)
  BY DEF Ids, NULL
<1>3. l \in Seq(Nat)
  BY <1>1, <1>2, SeqMonotonic
<1>4. ToSet(l) \subseteq Ids(o) /\ Len(l) \in Nat
      /\ \A k \in 1 .. Len(l) : l[k] \in ToSet(l)
  BY <1>1, ToSetIs
<1>5. l # <<>> => 1 \in 1 .. Len(l) /\ Len(l) \in 1 .. Len(l)
  BY <1>3, EmptySeq
<1>6. id = IF l = <<>> THEN NULL ELSE l[1]
  BY DEF List
<1>7. id \in Nat /\ (id = NULL <=> l = <<>>)
  BY <1>2, <1>4, <1>5, <1>6 DEF NULL
<1>. QED BY <1>1, <1>2, <1>3, <1>4, <1>5, <1>6, <1>7

\* One list changes, by pages that were in none or are new.
LEMMA ReplaceList ==
  ASSUME NEW o, NEW ls, NEW S, PageLists(o, ls, S),
         NEW q \in Outputs, NEW s \in 0 .. 4, NEW l, NEW T,
         List(NextOf(q), FirstOf(q, s), l), Ids(o) \subseteq Ids(q),
         \A t \in 0 .. 4 : t # s => FirstOf(q, t) = FirstOf(o, t),
         \A t \in 0 .. 4 : t # s => \A p \in ToSet(ls[t]) : NextOf(q)[p] = NextOf(o)[p],
         ToSet(l) \cap T = {},
         ToSet(l) \cup T = ToSet(ls[s]) \cup S \cup (Ids(q) \ Ids(o))
  PROVE  PageLists(q, [ls EXCEPT ![s] = l], T)
<1>. DEFINE ms == [ls EXCEPT ![s] = l]
<1>1. /\ o \in Outputs /\ ls \in [0 .. 4 -> Seq(Nat)]
      /\ \A t \in 0 .. 4 : List(NextOf(o), FirstOf(o, t), ls[t]) /\ ToSet(ls[t]) \cap S = {}
      /\ \A r, t \in 0 .. 4 : r # t => ToSet(ls[r]) \cap ToSet(ls[t]) = {}
      /\ \A p \in Ids(o) : p \in S \/ \E t \in 0 .. 4 : p \in ToSet(ls[t])
  BY DEF PageLists
<1>2. DOMAIN NextOf(o) = Ids(o) /\ DOMAIN NextOf(q) = Ids(q)
  BY <1>1, OutputFacts
<1>3. l \in Seq(Nat) /\ \A t \in 0 .. 4 : ToSet(ls[t]) \subseteq Ids(o)
  BY <1>1, ListType
<1>4. ms \in [0 .. 4 -> Seq(Nat)] /\ ms[s] = l /\ \A t \in 0 .. 4 : t # s => ms[t] = ls[t]
  BY <1>1, <1>3
<1>. HIDE DEF ms
<1>5. ASSUME NEW t \in 0 .. 4, t # s
      PROVE  /\ List(NextOf(q), FirstOf(q, t), ls[t])
             /\ ToSet(ls[t]) \cap T = {} /\ ToSet(ls[t]) \cap ToSet(l) = {}
  <2>1. List(NextOf(q), FirstOf(o, t), ls[t])
    BY <1>1, <1>2, <1>5, ListFrame
  <2>2. ToSet(ls[t]) \cap (ToSet(ls[s]) \cup S \cup (Ids(q) \ Ids(o))) = {}
    BY <1>1, <1>3, <1>5
  <2>. QED BY <1>5, <2>1, <2>2
<1>6. \A t \in 0 .. 4 : List(NextOf(q), FirstOf(q, t), ms[t]) /\ ToSet(ms[t]) \cap T = {}
  BY <1>4, <1>5
<1>7. \A r, t \in 0 .. 4 : r # t => ToSet(ms[r]) \cap ToSet(ms[t]) = {}
  BY <1>1, <1>4, <1>5
<1>8. ASSUME NEW p \in Ids(q) PROVE p \in T \/ \E t \in 0 .. 4 : p \in ToSet(ms[t])
  <2>1. CASE p \in ToSet(l) \cup T
    BY <1>4, <2>1
  <2>2. CASE p \notin ToSet(l) \cup T
    <3>1. p \in Ids(o) /\ p \notin S /\ p \notin ToSet(ls[s])
      BY <2>2
    <3>2. PICK t \in 0 .. 4 : p \in ToSet(ls[t])
      BY <1>1, <3>1
    <3>3. t # s
      BY <3>1, <3>2
    <3>. QED BY <1>4, <3>2, <3>3
  <2>. QED BY <2>1, <2>2
<1>. QED BY <1>4, <1>6, <1>7, <1>8 DEF PageLists, ms

\* Sequences of pages of which one is exchanged.
LEMMA PageExcept ==
  ASSUME NEW pages \in Seq(PageRecords), NEW id \in 1 .. Len(pages), NEW r \in PageRecords
  PROVE  /\ [pages EXCEPT ![id] = r] \in Seq(PageRecords)
         /\ Len([pages EXCEPT ![id] = r]) = Len(pages)
         /\ \A p \in 1 .. Len(pages) : [pages EXCEPT ![id] = r][p] = IF p = id THEN r ELSE pages[p]
BY ExceptSeq

LEMMA RecordTypes ==
  /\ EmptyPage \in PageRecords /\ EmptyPage.base = <<>> /\ EmptyPage.next_page = NULL
  /\ \A r \in PageRecords : \A id \in Nat :
       /\ [r EXCEPT !.next_page = id] \in PageRecords
       /\ [r EXCEPT !.next_page = id].base = r.base
       /\ [r EXCEPT !.next_page = id].next_page = id
  /\ \A r \in PageRecords : \A b \in Bases :
       /\ [r EXCEPT !.base = b] \in PageRecords
       /\ [r EXCEPT !.base = b].base = b
       /\ [r EXCEPT !.base = b].next_page = r.next_page
<1>1. <<>> \in Bases
  <2>1. <<>> \in Seq(Byte) /\ Len(<<>>) = 0
    BY EmptySeq
  <2>. QED BY <2>1, EncodeAssumption DEF Bases
<1>2. EmptyPage = [base |-> <<>>, next_page |-> NULL]
  BY DEF EmptyPage
<1>3. EmptyPage \in PageRecords
  BY <1>1, <1>2 DEF PageRecords, NULL
<1>. QED BY <1>2, <1>3 DEF PageRecords

\* What Linked(o, s, id) is.
IsLinked(q, o, s, id) ==
  /\ q \in Outputs /\ Len(q.page) = Len(o.page)
  /\ q.enc_free = o.enc_free /\ q.ok = o.ok
  /\ q.tails = [o.tails EXCEPT ![s] = id]
  /\ q.heads = IF o.tails[s] = NULL THEN [o.heads EXCEPT ![s] = id] ELSE o.heads
  /\ q.page[id].base = <<>>
  /\ \A p \in Ids(o) : NextOf(q)[p] = IF p = id THEN NULL
                                      ELSE IF p = o.tails[s] THEN id ELSE NextOf(o)[p]

LEMMA LinkedFacts ==
  ASSUME NEW o \in Outputs, NEW s \in Sections, NEW id \in Ids(o),
         o.tails[s] = NULL \/ o.tails[s] \in Ids(o) \ {id}
  PROVE  IsLinked(Linked(o, s, id), o, s, id)
<1>. DEFINE old == o.tails[s]
            one == [o.page EXCEPT ![id] = EmptyPage]
            two == [one EXCEPT ![old] = [one[old] EXCEPT !.next_page = id]]
            q   == Linked(o, s, id)
<1>1. /\ o.page \in Seq(PageRecords) /\ Len(o.page) \in Nat
      /\ o.heads \in [Sections -> Nat] /\ o.tails \in [Sections -> Nat]
      /\ o.enc_free \in Nat /\ o.ok \in BOOLEAN /\ id \in Nat
      /\ \A p \in Ids(o) : NextOf(o)[p] = o.page[p].next_page
  <2>1. id \in Nat
    BY DEF Ids
  <2>. QED BY <2>1, OutputFacts
<1>2. o = [page |-> o.page, heads |-> o.heads, tails |-> o.tails,
           enc_free |-> o.enc_free, ok |-> o.ok]
  BY DEF Outputs
<1>3. /\ one \in Seq(PageRecords) /\ Len(one) = Len(o.page)
      /\ \A p \in Ids(o) : one[p] = IF p = id THEN EmptyPage ELSE o.page[p]
  BY <1>1, PageExcept, RecordTypes DEF Ids
<1>4. [o.tails EXCEPT ![s] = id] \in [Sections -> Nat]
      /\ [o.heads EXCEPT ![s] = id] \in [Sections -> Nat]
  BY <1>1
<1>. HIDE DEF one
<1>5. CASE old = NULL
  <2>1. q = [page |-> one, heads |-> [o.heads EXCEPT ![s] = id],
             tails |-> [o.tails EXCEPT ![s] = id], enc_free |-> o.enc_free, ok |-> o.ok]
    BY <1>2, <1>5 DEF Linked, one
  <2>2. q \in Outputs
    BY <1>1, <1>3, <1>4, <2>1 DEF Outputs
  <2>3. q.page = one /\ q.heads = [o.heads EXCEPT ![s] = id] /\ q.enc_free = o.enc_free
        /\ q.tails = [o.tails EXCEPT ![s] = id] /\ q.ok = o.ok
    BY <2>1
  <2>. HIDE DEF q
  <2>4. \A p \in Ids(o) : NextOf(q)[p] = one[p].next_page
    BY <1>3, <2>2, <2>3, OutputFacts DEF Ids
  <2>5. \A p \in Ids(o) : p # old
    BY <1>5 DEF Ids, NULL
  <2>6. \A p \in Ids(o) : NextOf(q)[p] = IF p = id THEN NULL ELSE NextOf(o)[p]
    BY <1>1, <1>3, <2>4, RecordTypes
  <2>7. q.page[id].base = <<>>
    BY <1>3, <2>3, RecordTypes
  <2>. QED BY <1>3, <1>5, <2>2, <2>3, <2>5, <2>6, <2>7 DEF q, IsLinked
<1>6. CASE old # NULL
  <2>0. old \in Ids(o) /\ old # id
    BY <1>6
  <2>1. q = [page |-> two, heads |-> o.heads,
             tails |-> [o.tails EXCEPT ![s] = id], enc_free |-> o.enc_free, ok |-> o.ok]
    BY <1>2, <1>6 DEF Linked, one
  <2>2. one[old] \in PageRecords /\ one[old].next_page = NextOf(o)[old]
    <3>1. one[old] = o.page[old]
      BY <1>3, <2>0
    <3>. QED BY <1>1, <2>0, <3>1, OutputFacts
  <2>3. /\ two \in Seq(PageRecords) /\ Len(two) = Len(o.page)
        /\ \A p \in Ids(o) : two[p] = IF p = old THEN [one[old] EXCEPT !.next_page = id]
                                      ELSE one[p]
    BY <1>1, <1>3, <2>0, <2>2, PageExcept, RecordTypes DEF Ids
  <2>. HIDE DEF two
  <2>4. q \in Outputs
    BY <1>1, <1>4, <2>1, <2>3 DEF Outputs
  <2>5. q.page = two /\ q.heads = o.heads /\ q.enc_free = o.enc_free
        /\ q.tails = [o.tails EXCEPT ![s] = id] /\ q.ok = o.ok
    BY <2>1
  <2>. HIDE DEF q
  <2>6. \A p \in Ids(o) : NextOf(q)[p] = two[p].next_page
    BY <2>3, <2>4, <2>5, OutputFacts DEF Ids
  <2>7. two[old].next_page = id
    <3>1. two[old] = [one[old] EXCEPT !.next_page = id]
      BY <2>0, <2>3
    <3>2. [one[old] EXCEPT !.next_page = id].next_page = id
      BY <1>1, <2>2, RecordTypes
    <3>. QED BY <3>1, <3>2
  <2>8. \A p \in Ids(o) : NextOf(q)[p] = IF p = id THEN NULL ELSE IF p = old THEN id
                                         ELSE NextOf(o)[p]
    BY <1>1, <1>3, <2>0, <2>3, <2>6, <2>7, RecordTypes
  <2>9. q.page[id].base = <<>>
    BY <1>3, <2>0, <2>3, <2>5, RecordTypes
  <2>. QED BY <1>6, <2>3, <2>4, <2>5, <2>8, <2>9 DEF q, IsLinked
<1>. QED BY <1>5, <1>6

-----------------------------------------------------------------------------
(* xd3_alloc_output: what the lists are after it.                          *)

\* The tails of the sections are where the lists end.
Tailed(o, ls) ==
  \A s \in Sections : o.tails[s] = IF ls[s] = <<>> THEN NULL ELSE ls[s][Len(ls[s])]

\* The pages q with the lists ms are o with the lists ls, and the page id at the
\* end of section s.
Lengthened(q, ms, o, ls, s, id) ==
  /\ PageLists(q, ms, {}) /\ Tailed(q, ms)
  /\ ms[s] # <<>> /\ \A t \in Sections : t # s => ms[t] = ls[t]
  /\ q.ok = o.ok /\ q.page[id].base = <<>> /\ q.tails[s] = id

\* A page that is in no list becomes the last one of section s.
LEMMA LinkedLists ==
  ASSUME NEW o, NEW ls, NEW s \in Sections, NEW id \in Ids(o),
         PageLists(o, ls, {id}), Tailed(o, ls)
  PROVE  Lengthened(Linked(o, s, id), [ls EXCEPT ![s] = ls[s] \o <<id>>], o, ls, s, id)
<1>. DEFINE l  == ls[s]
            u  == l \o <<id>>
            ms == [ls EXCEPT ![s] = u]
            q  == Linked(o, s, id)
            old == o.tails[s]
<1>1. /\ o \in Outputs /\ ls \in [0 .. 4 -> Seq(Nat)]
      /\ \A t \in 0 .. 4 : List(NextOf(o), FirstOf(o, t), ls[t]) /\ id \notin ToSet(ls[t])
      /\ \A r, t \in 0 .. 4 : r # t => ToSet(ls[r]) \cap ToSet(ls[t]) = {}
  BY DEF PageLists
<1>2. s \in 0 .. 4 /\ s # 0 /\ Sections \subseteq 0 .. 4 /\ 0 \notin Sections
  BY DEF Sections
<1>3. /\ List(NextOf(o), o.heads[s], l) /\ l \in Seq(Ids(o)) /\ ToSet(l) \subseteq Ids(o)
      /\ id \notin ToSet(l) /\ l \in Seq(Nat)
      /\ l # <<>> => o.heads[s] = l[1] /\ l[Len(l)] \in ToSet(l)
      /\ o.heads[s] = NULL <=> l = <<>>
  <2>1. List(NextOf(o), FirstOf(o, s), l) /\ id \notin ToSet(l)
    BY <1>1, <1>2
  <2>2. FirstOf(o, s) = o.heads[s] /\ o \in Outputs
    BY <1>1, <1>2 DEF FirstOf
  <2>. HIDE DEF l
  <2>3. List(NextOf(o), o.heads[s], l)
    BY <2>1, <2>2
  <2>. QED BY <2>1, <2>2, <2>3, ListType
<1>4. /\ l = <<>> => old = NULL
      /\ l # <<>> => old = l[Len(l)] /\ old \in ToSet(l) /\ old \in Ids(o) \ {id} /\ old # NULL
  BY <1>3 DEF Tailed, Ids, NULL
<1>5. /\ q \in Outputs /\ Len(q.page) = Len(o.page)
      /\ q.enc_free = o.enc_free /\ q.ok = o.ok
      /\ q.tails = [o.tails EXCEPT ![s] = id]
      /\ q.heads = IF old = NULL THEN [o.heads EXCEPT ![s] = id] ELSE o.heads
      /\ q.page[id].base = <<>>
      /\ \A p \in Ids(o) : NextOf(q)[p] = IF p = id THEN NULL ELSE IF p = old THEN id
                                          ELSE NextOf(o)[p]
  <2>1. o.tails[s] = NULL \/ o.tails[s] \in Ids(o) \ {id}
    BY <1>4
  <2>2. IsLinked(q, o, s, id)
    BY <1>1, <2>1, LinkedFacts
  <2>. QED BY <2>2 DEF IsLinked
<1>. HIDE DEF q, u, l, old
<1>6. /\ Ids(q) = Ids(o) /\ DOMAIN NextOf(q) = Ids(o) /\ DOMAIN NextOf(o) = Ids(o)
      /\ o.heads \in [Sections -> Nat] /\ o.tails \in [Sections -> Nat]
  BY <1>1, <1>5, OutputFacts DEF Ids
<1>7. List(NextOf(q), id, <<id>>) /\ ToSet(<<id>>) = {id} /\ <<id>> # <<>>
      /\ Len(<<id>>) = 1 /\ <<id>>[1] = id
  BY <1>5, <1>6, OnePage
<1>8. /\ List(NextOf(q), q.heads[s], u) /\ ToSet(u) = ToSet(l) \cup {id} /\ u # <<>>
      /\ u[Len(u)] = id
  <2>1. CASE l = <<>>
    <3>1. u = <<id>> /\ q.heads[s] = id
      BY <1>4, <1>5, <1>6, <2>1, ConcatEmptySeq DEF u
    <3>2. ToSet(l) = {}
      BY <2>1, ListEmpty
    <3>. QED BY <1>7, <3>1, <3>2
  <2>2. CASE l # <<>>
    <3>1. \A p \in ToSet(l) : p # l[Len(l)] => NextOf(q)[p] = NextOf(o)[p]
      BY <1>3, <1>4, <1>5, <2>2
    <3>2. Segment(NextOf(q), l, NextOf(q)[l[Len(l)]]) /\ l[1] = o.heads[s]
      BY <1>3, <1>6, <2>2, <3>1, ListSegment
    <3>3. NextOf(q)[l[Len(l)]] = id
      BY <1>4, <1>5, <2>2
    <3>4. ToSet(l) \cap ToSet(<<id>>) = {}
      BY <1>3, <1>7
    <3>5. /\ List(NextOf(q), l[1], u) /\ ToSet(u) = ToSet(l) \cup {id} /\ u # <<>>
          /\ u[Len(u)] = id
      BY <1>7, <3>2, <3>3, <3>4, ListJoin DEF u
    <3>6. q.heads[s] = l[1]
      BY <1>3, <1>4, <1>5, <2>2
    <3>. QED BY <3>5, <3>6
  <2>. QED BY <2>1, <2>2
<1>9. PageLists(q, ms, {})
  <2>1. List(NextOf(q), FirstOf(q, s), u)
    BY <1>2, <1>8 DEF FirstOf
  <2>2. \A t \in 0 .. 4 : t # s => FirstOf(q, t) = FirstOf(o, t)
    <3>1. \A t \in 0 .. 4 : t # 0 => t \in Sections
      BY DEF Sections
    <3>. QED BY <1>5, <1>6, <3>1 DEF FirstOf
  <2>3. \A t \in 0 .. 4 : t # s => \A p \in ToSet(ls[t]) : NextOf(q)[p] = NextOf(o)[p]
    <3>. SUFFICES ASSUME NEW t \in 0 .. 4, t # s, NEW p \in ToSet(ls[t])
                  PROVE  NextOf(q)[p] = NextOf(o)[p]
      OBVIOUS
    <3>1. p \in Ids(o) /\ p # id /\ p \notin ToSet(l)
      <4>1. List(NextOf(o), FirstOf(o, t), ls[t]) /\ id \notin ToSet(ls[t])
        BY <1>1
      <4>2. ToSet(ls[t]) \subseteq Ids(o)
        BY <1>1, <4>1, ListType
      <4>3. ToSet(ls[t]) \cap ToSet(ls[s]) = {}
        BY <1>1, <1>2
      <4>. QED BY <4>1, <4>2, <4>3 DEF l
    <3>2. p # old
      BY <1>4, <3>1 DEF Ids, NULL
    <3>. QED BY <1>5, <3>1, <3>2
  <2>4. ToSet(u) \cup {} = ToSet(ls[s]) \cup {id} \cup (Ids(q) \ Ids(o))
    BY <1>6, <1>8 DEF l
  <2>5. ToSet(u) \cap {} = {} /\ Ids(o) \subseteq Ids(q)
    BY <1>6
  <2>. QED BY <1>2, <1>5, <2>1, <2>2, <2>3, <2>4, <2>5, ReplaceList
<1>10. ms[s] = u /\ \A t \in 0 .. 4 : t # s => ms[t] = ls[t]
  BY <1>1, <1>2
<1>. HIDE DEF ms
<1>11. Tailed(q, ms)
  <2>. SUFFICES ASSUME NEW t \in Sections
                PROVE  q.tails[t] = IF ms[t] = <<>> THEN NULL ELSE ms[t][Len(ms[t])]
    BY DEF Tailed
  <2>1. CASE t = s
    BY <1>5, <1>6, <1>8, <1>10, <2>1
  <2>2. CASE t # s
    <3>1. ms[t] = ls[t] /\ q.tails[t] = o.tails[t]
      BY <1>2, <1>5, <1>6, <1>10, <2>2
    <3>. QED BY <3>1 DEF Tailed
  <2>. QED BY <2>1, <2>2
<1>12. q.tails[s] = id
  BY <1>5, <1>6
<1>13. ms[s] # <<>> /\ \A t \in Sections : t # s => ms[t] = ls[t]
  BY <1>2, <1>8, <1>10
<1>14. Lengthened(q, ms, o, ls, s, id)
  BY <1>5, <1>9, <1>11, <1>12, <1>13 DEF Lengthened
<1>. QED BY <1>14 DEF q, ms, u, l

\* Nothing of this is about the tails or the flag ok.
LEMMA SamePages ==
  ASSUME NEW o, NEW ls, NEW S, PageLists(o, ls, S), NEW q \in Outputs,
         q.page = o.page, q.heads = o.heads, q.enc_free = o.enc_free
  PROVE  PageLists(q, ls, S)
<1>1. Ids(q) = Ids(o) /\ NextOf(q) = NextOf(o)
  BY DEF Ids, NextOf
<1>2. \A s \in 0 .. 4 : FirstOf(q, s) = FirstOf(o, s)
  BY DEF FirstOf
<1>. QED BY <1>1, <1>2 DEF PageLists

LEMMA FreeExcept ==
  ASSUME NEW o \in Outputs, NEW id \in Nat, NEW q, q = [o EXCEPT !.enc_free = id]
  PROVE  /\ q \in Outputs /\ q.page = o.page /\ q.heads = o.heads /\ q.tails = o.tails
         /\ q.ok = o.ok /\ q.enc_free = id
BY DEF Outputs

LEMMA FailedExcept ==
  ASSUME NEW o \in Outputs, NEW q, q = [o EXCEPT !.ok = FALSE]
  PROVE  /\ q \in Outputs /\ q.page = o.page /\ q.heads = o.heads /\ q.tails = o.tails
         /\ q.ok = FALSE /\ q.enc_free = o.enc_free
BY DEF Outputs

LEMMA PagesExcept ==
  ASSUME NEW o \in Outputs, NEW pages \in Seq(PageRecords), NEW q,
         q = [o EXCEPT !.page = pages]
  PROVE  /\ q \in Outputs /\ q.page = pages /\ q.heads = o.heads /\ q.tails = o.tails
         /\ q.ok = o.ok /\ q.enc_free = o.enc_free
BY DEF Outputs

\* The first page of the free list is taken out of it.
LEMMA TakenPage ==
  ASSUME NEW o, NEW ls, PageLists(o, ls, {}), o.enc_free # NULL
  PROVE  LET q == [o EXCEPT !.enc_free = o.page[o.enc_free].next_page]
         IN  /\ PageLists(q, [ls EXCEPT ![0] = Tail(ls[0])], {o.enc_free})
             /\ q.tails = o.tails /\ o.enc_free \in Ids(q) /\ q.ok = o.ok
<1>. DEFINE id == o.enc_free
            q  == [o EXCEPT !.enc_free = o.page[id].next_page]
            l  == Tail(ls[0])
<1>1. o \in Outputs /\ ls \in [0 .. 4 -> Seq(Nat)] /\ 0 \in 0 .. 4
      /\ List(NextOf(o), id, ls[0])
  BY DEF PageLists, FirstOf
<1>2. ls[0] # <<>> /\ ToSet(ls[0]) \subseteq Ids(o)
  BY <1>1, ListType
<1>3. /\ id \in ToSet(ls[0]) /\ List(NextOf(o), NextOf(o)[id], l)
      /\ ToSet(l) = ToSet(ls[0]) \ {id}
  BY <1>1, <1>2, ListTail
<1>4. id \in Ids(o) /\ o.page[id].next_page \in Nat /\ NextOf(o)[id] = o.page[id].next_page
  BY <1>1, <1>2, <1>3, OutputFacts
<1>5. /\ q \in Outputs /\ q.page = o.page /\ q.heads = o.heads /\ q.tails = o.tails
      /\ q.ok = o.ok /\ q.enc_free = NextOf(o)[id]
  BY <1>1, <1>4, FreeExcept
<1>. HIDE DEF q, id, l
<1>6. Ids(q) = Ids(o) /\ NextOf(q) = NextOf(o)
  BY <1>5 DEF Ids, NextOf
<1>7. List(NextOf(q), FirstOf(q, 0), l)
  BY <1>3, <1>5, <1>6 DEF FirstOf
<1>8. \A t \in 0 .. 4 : t # 0 => FirstOf(q, t) = FirstOf(o, t)
  BY <1>5 DEF FirstOf
<1>9. ToSet(l) \cap {id} = {} /\ Ids(o) \subseteq Ids(q)
      /\ ToSet(l) \cup {id} = ToSet(ls[0]) \cup {} \cup (Ids(q) \ Ids(o))
  BY <1>3, <1>6
<1>10. PageLists(q, [ls EXCEPT ![0] = l], {id})
  BY <1>1, <1>5, <1>6, <1>7, <1>8, <1>9, ReplaceList
<1>. QED BY <1>4, <1>5, <1>6, <1>10 DEF q, id, l

\* A page from xd3_alloc.
LEMMA NewPage ==
  ASSUME NEW o, NEW ls, PageLists(o, ls, {})
  PROVE  LET q == [o EXCEPT !.page = Append(o.page, EmptyPage)]
         IN  /\ PageLists(q, ls, {Len(o.page) + 1})
             /\ q.tails = o.tails /\ Len(o.page) + 1 \in Ids(q) /\ q.ok = o.ok
<1>. DEFINE pages == Append(o.page, EmptyPage)
            q == [o EXCEPT !.page = pages]
<1>1. o \in Outputs /\ ls \in [0 .. 4 -> Seq(Nat)] /\ 0 \in 0 .. 4
      /\ \A s \in 0 .. 4 : List(NextOf(o), FirstOf(o, s), ls[s])
  BY DEF PageLists
<1>2. PICK n \in Nat : n = Len(o.page) /\ Ids(o) = 1 .. n
  BY <1>1, OutputFacts DEF Ids
<1>3. /\ pages \in Seq(PageRecords) /\ Len(pages) = n + 1
      /\ \A p \in 1 .. n : pages[p] = o.page[p]
  BY <1>1, <1>2, OutputFacts, RecordTypes, AppendProperties
<1>. HIDE DEF pages
<1>4. /\ q \in Outputs /\ q.page = pages /\ q.heads = o.heads /\ q.tails = o.tails
      /\ q.ok = o.ok /\ q.enc_free = o.enc_free
  BY <1>1, <1>3, PagesExcept
<1>. HIDE DEF q
<1>5. /\ Ids(q) = 1 .. n + 1 /\ n + 1 \in Ids(q) /\ Ids(o) \subseteq Ids(q)
      /\ Ids(q) \ Ids(o) = {n + 1}
  BY <1>2, <1>3, <1>4 DEF Ids
<1>6. \A p \in Ids(o) : NextOf(q)[p] = NextOf(o)[p]
  <2>1. \A p \in Ids(o) : NextOf(o)[p] = o.page[p].next_page
    BY <1>1, OutputFacts
  <2>2. \A p \in Ids(q) : NextOf(q)[p] = q.page[p].next_page
    BY <1>4, OutputFacts
  <2>. QED BY <1>2, <1>3, <1>4, <1>5, <2>1, <2>2
<1>7. \A t \in 0 .. 4 : FirstOf(q, t) = FirstOf(o, t)
  BY <1>4 DEF FirstOf
<1>8. \A t \in 0 .. 4 : ToSet(ls[t]) \subseteq Ids(o)
  BY <1>1, ListType
<1>9. List(NextOf(q), FirstOf(q, 0), ls[0])
  <2>1. DOMAIN NextOf(o) = Ids(o) /\ DOMAIN NextOf(q) = Ids(q)
    BY <1>1, <1>4, OutputFacts
  <2>. QED BY <1>1, <1>5, <1>6, <1>7, <1>8, <2>1, ListFrame
<1>10. ToSet(ls[0]) \cap {n + 1} = {}
       /\ ToSet(ls[0]) \cup {n + 1} = ToSet(ls[0]) \cup {} \cup (Ids(q) \ Ids(o))
  BY <1>1, <1>5, <1>8
<1>11. \A t \in 0 .. 4 : t # 0 => \A p \in ToSet(ls[t]) : NextOf(q)[p] = NextOf(o)[p]
  BY <1>6, <1>8
<1>12. PageLists(q, [ls EXCEPT ![0] = ls[0]], {n + 1})
  <2>. DEFINE S == {} T == {n + 1} l == ls[0]
  <2>1. ToSet(l) \cap T = {} /\ ToSet(l) \cup T = ToSet(ls[0]) \cup S \cup (Ids(q) \ Ids(o))
    BY <1>10
  <2>2. PageLists(o, ls, S) /\ List(NextOf(q), FirstOf(q, 0), l)
    BY <1>9
  <2>3. /\ q \in Outputs /\ 0 \in 0 .. 4 /\ Ids(o) \subseteq Ids(q)
        /\ \A t \in 0 .. 4 : t # 0 => FirstOf(q, t) = FirstOf(o, t)
    BY <1>4, <1>5, <1>7
  <2>. HIDE DEF S, T, l
  <2>4. PageLists(q, [ls EXCEPT ![0] = l], T)
    BY <1>11, <2>1, <2>2, <2>3, ReplaceList
  <2>. QED BY <2>4 DEF T, l
<1>13. [ls EXCEPT ![0] = ls[0]] = ls
  BY <1>1
<1>. QED BY <1>2, <1>4, <1>5, <1>12, <1>13 DEF q, pages

\* The lists ms of the pages q after a page was asked for section s.
Allocated(q, ms, o, ls, s) ==
  /\ PageLists(q, ms, {}) /\ Tailed(q, ms)
  /\ \A t \in Sections : t # s => ms[t] = ls[t]
  /\ ls[s] # <<>> => ms[s] # <<>>
  /\ q.ok => o.ok /\ ms[s] # <<>> /\ q.page[q.tails[s]].base = <<>>

LEMMA AllocatedLists ==
  ASSUME NEW o, NEW ls, NEW s \in Sections, PageLists(o, ls, {}), Tailed(o, ls)
  PROVE  \E ms : Allocated(AllocOutput(o, s), ms, o, ls, s)
<1>. DEFINE q == AllocOutput(o, s)
<1>1. o \in Outputs /\ ls \in [0 .. 4 -> Seq(Nat)]
  BY DEF PageLists
<1>2. CASE ~ o.ok
  <2>1. q = o
    BY <1>2 DEF AllocOutput
  <2>2. Allocated(o, ls, o, ls, s)
    BY <1>2 DEF Allocated
  <2>. QED BY <2>1, <2>2
<1>3. CASE o.ok /\ o.enc_free # NULL
  <2>. DEFINE id == o.enc_free
              r  == [o EXCEPT !.enc_free = o.page[id].next_page]
              rs == [ls EXCEPT ![0] = Tail(ls[0])]
  <2>1. q = Linked(r, s, id)
    BY <1>3 DEF AllocOutput
  <2>2. PageLists(r, rs, {id}) /\ r.tails = o.tails /\ id \in Ids(r) /\ r.ok = o.ok
    BY <1>3, TakenPage
  <2>3. \A t \in Sections : rs[t] = ls[t]
    BY <1>1 DEF Sections
  <2>. HIDE DEF r, rs, id
  <2>4. Tailed(r, rs)
    BY <2>2, <2>3 DEF Tailed
  <2>. DEFINE ms == [rs EXCEPT ![s] = rs[s] \o <<id>>]
  <2>5. Lengthened(Linked(r, s, id), ms, r, rs, s, id)
    BY <2>2, <2>4, LinkedLists
  <2>. HIDE DEF ms
  <2>6. Allocated(Linked(r, s, id), ms, o, ls, s)
    BY <1>3, <2>2, <2>3, <2>5 DEF Allocated, Lengthened
  <2>. QED BY <2>1, <2>6
<1>4. CASE o.ok /\ o.enc_free = NULL /\ Len(o.page) = cfg.pages
  <2>1. q = [o EXCEPT !.ok = FALSE]
    BY <1>4 DEF AllocOutput
  <2>2. /\ q \in Outputs /\ q.page = o.page /\ q.heads = o.heads /\ q.tails = o.tails
        /\ q.enc_free = o.enc_free /\ q.ok = FALSE
    BY <1>1, <2>1, FailedExcept
  <2>. HIDE DEF q
  <2>3. PageLists(q, ls, {}) /\ Tailed(q, ls)
    BY <2>2, SamePages DEF Tailed
  <2>4. Allocated(q, ls, o, ls, s)
    BY <2>2, <2>3 DEF Allocated
  <2>. QED BY <2>4 DEF q
<1>5. CASE o.ok /\ o.enc_free = NULL /\ Len(o.page) # cfg.pages
  <2>. DEFINE r  == [o EXCEPT !.page = Append(o.page, EmptyPage)]
              id == Len(o.page) + 1
  <2>1. q = Linked(r, s, id)
    BY <1>5 DEF AllocOutput
  <2>2. PageLists(r, ls, {id}) /\ r.tails = o.tails /\ id \in Ids(r) /\ r.ok = o.ok
    BY NewPage
  <2>. HIDE DEF r, id
  <2>4. Tailed(r, ls)
    BY <2>2 DEF Tailed
  <2>. DEFINE ms == [ls EXCEPT ![s] = ls[s] \o <<id>>]
  <2>5. Lengthened(Linked(r, s, id), ms, r, ls, s, id)
    BY <2>2, <2>4, LinkedLists
  <2>. HIDE DEF ms
  <2>6. Allocated(Linked(r, s, id), ms, o, ls, s)
    BY <1>5, <2>2, <2>5 DEF Allocated, Lengthened
  <2>. QED BY <2>1, <2>6
<1>. QED BY <1>1, <1>2, <1>3, <1>4, <1>5 DEF Outputs

-----------------------------------------------------------------------------
(* While a window is encoded each section has a page to write to.          *)

Writable(o, ls) ==
  PageLists(o, ls, {}) /\ Tailed(o, ls) /\ \A s \in Sections : ls[s] # <<>>
Writing(o) == \E ls : Writable(o, ls)

LEMMA TailFacts ==
  ASSUME NEW o, NEW ls, Writable(o, ls), NEW s \in Sections
  PROVE  /\ o \in Outputs /\ o.tails[s] \in Ids(o) /\ o.heads[s] \in Ids(o)
         /\ o.tails[s] = ls[s][Len(ls[s])] /\ o.tails[s] \in ToSet(ls[s])
         /\ o.heads[s] = ls[s][1]
<1>1. s \in 0 .. 4 /\ s # 0
  BY DEF Sections
<1>2. o \in Outputs /\ List(NextOf(o), o.heads[s], ls[s])
  BY <1>1 DEF Writable, PageLists, FirstOf
<1>3. ls[s] # <<>> /\ o.tails[s] = ls[s][Len(ls[s])]
  BY DEF Writable, Tailed
<1>4. /\ ToSet(ls[s]) \subseteq Ids(o) /\ o.heads[s] = ls[s][1]
      /\ ls[s][Len(ls[s])] \in ToSet(ls[s]) /\ ls[s] \in Seq(Ids(o)) /\ 1 \in 1 .. Len(ls[s])
  BY <1>2, <1>3, ListType
<1>5. ls[s][1] \in Ids(o)
  BY <1>4, ElementOfSeq
<1>. QED BY <1>2, <1>3, <1>4, <1>5

\* What a page holds is not what it is linked to.
LEMMA SameLinks ==
  ASSUME NEW o, NEW ls, NEW S, PageLists(o, ls, S), NEW q \in Outputs,
         Len(q.page) = Len(o.page),
         \A p \in Ids(o) : q.page[p].next_page = o.page[p].next_page,
         q.heads = o.heads, q.enc_free = o.enc_free
  PROVE  PageLists(q, ls, S)
<1>1. Ids(q) = Ids(o) /\ NextOf(q) = NextOf(o)
  BY DEF Ids, NextOf
<1>2. \A s \in 0 .. 4 : FirstOf(q, s) = FirstOf(o, s)
  BY DEF FirstOf
<1>. QED BY <1>1, <1>2 DEF PageLists

\* xd3_alloc_output, when each section has a page.
LEMMA AllocWritable ==
  ASSUME NEW o, Writing(o), NEW s \in Sections
  PROVE  /\ Writing(AllocOutput(o, s))
         /\ AllocOutput(o, s).ok =>
              AllocOutput(o, s).page[AllocOutput(o, s).tails[s]].base = <<>>
<1>1. PICK ls : Writable(o, ls)
  BY DEF Writing
<1>2. PICK ms : Allocated(AllocOutput(o, s), ms, o, ls, s)
  BY <1>1, AllocatedLists DEF Writable
<1>3. \A t \in Sections : ms[t] # <<>>
  BY <1>1, <1>2 DEF Allocated, Writable
<1>4. Writable(AllocOutput(o, s), ms)
  BY <1>2, <1>3 DEF Allocated, Writable
<1>. QED BY <1>2, <1>4 DEF Allocated, Writing

\* After the room is made there is room.
LEMMA RoomWritable ==
  ASSUME NEW o, Writing(o), NEW s \in Sections
  PROVE  /\ Writing(Room(o, s))
         /\ Room(o, s).ok => Len(Room(o, s).page[Room(o, s).tails[s]].base) < PageSize
<1>1. CASE ~ o.ok \/ Len(o.page[o.tails[s]].base) < PageSize
  <2>1. Room(o, s) = o
    BY <1>1 DEF Room
  <2>2. o.ok => Len(o.page[o.tails[s]].base) < PageSize
    BY <1>1
  <2>. QED BY <2>1, <2>2
<1>2. CASE ~ (~ o.ok \/ Len(o.page[o.tails[s]].base) < PageSize)
  <2>. DEFINE q == AllocOutput(o, s)
  <2>1. Room(o, s) = q
    BY <1>2 DEF Room
  <2>2. Writing(q) /\ (q.ok => q.page[q.tails[s]].base = <<>>)
    BY AllocWritable
  <2>. HIDE DEF q
  <2>3. Len(<<>>) = 0 /\ 0 < PageSize
    BY EmptySeq, EncodeAssumption
  <2>4. q.ok => Len(q.page[q.tails[s]].base) < PageSize
    BY <2>2, <2>3
  <2>. QED BY <2>1, <2>2, <2>4
<1>. QED BY <1>1, <1>2

LEMMA EmitByteWritable ==
  ASSUME NEW o, Writing(o), NEW s \in Sections, NEW byte \in Byte
  PROVE  Writing(EmitByte(o, s, byte))
<1>. DEFINE r == Room(o, s)
            id == r.tails[s]
            b == Append(r.page[id].base, byte)
            pages == [r.page EXCEPT ![id] = [r.page[id] EXCEPT !.base = b]]
            q == [r EXCEPT !.page = pages]
<1>1. Writing(r) /\ (r.ok => Len(r.page[id].base) < PageSize)
  BY RoomWritable
<1>. HIDE DEF r
<1>2. CASE ~ r.ok
  <2>1. EmitByte(o, s, byte) = r
    BY <1>2 DEF EmitByte, r
  <2>. QED BY <1>1, <2>1
<1>3. CASE r.ok
  <2>1. EmitByte(o, s, byte) = q
    BY <1>3 DEF EmitByte, r
  <2>2. PICK ls : Writable(r, ls)
    BY <1>1 DEF Writing
  <2>3. r \in Outputs /\ id \in Ids(r)
    BY <2>2, TailFacts
  <2>. HIDE DEF id
  <2>4. /\ r.page \in Seq(PageRecords) /\ r.page[id] \in PageRecords
        /\ r.page[id].base \in Seq(Byte)
    BY <2>3, OutputFacts
  <2>5. Len(r.page[id].base) < PageSize
    BY <1>1, <1>3
  <2>6. b \in Bases
    <3>1. b \in Seq(Byte) /\ Len(b) = Len(r.page[id].base) + 1
      BY <2>4, AppendProperties
    <3>2. PICK k \in Nat : k = Len(r.page[id].base)
      BY <2>4, LenProperties
    <3>3. Len(b) <= PageSize
      BY <2>5, <3>1, <3>2, EncodeAssumption
    <3>. QED BY <3>1, <3>3 DEF Bases
  <2>. HIDE DEF b
  <2>7. /\ [r.page[id] EXCEPT !.base = b] \in PageRecords
        /\ [r.page[id] EXCEPT !.base = b].next_page = r.page[id].next_page
    BY <2>4, <2>6, RecordTypes
  <2>8. /\ pages \in Seq(PageRecords) /\ Len(pages) = Len(r.page)
        /\ \A p \in Ids(r) : pages[p].next_page = r.page[p].next_page
    BY <2>3, <2>4, <2>7, PageExcept DEF Ids
  <2>. HIDE DEF pages
  <2>9. /\ q \in Outputs /\ q.page = pages /\ q.heads = r.heads /\ q.tails = r.tails
        /\ q.enc_free = r.enc_free
    BY <2>3, <2>8, PagesExcept
  <2>. HIDE DEF q
  <2>10. Writable(q, ls)
    <3>1. PageLists(r, ls, {}) /\ Tailed(r, ls)
      BY <2>2 DEF Writable
    <3>2. PageLists(q, ls, {})
      BY <2>8, <2>9, <3>1, SameLinks
    <3>3. Tailed(q, ls)
      BY <2>9, <3>1 DEF Tailed
    <3>. QED BY <2>2, <3>2, <3>3 DEF Writable
  <2>. QED BY <2>1, <2>10 DEF Writing
<1>. QED BY <1>2, <1>3

\* The loop of EmitBytes.
EmittedBytes(o, s, bytes, n, v) ==
  v = [k \in 0 .. n |-> IF k = 0 THEN o ELSE EmitByte(v[k - 1], s, bytes[k])]

LEMMA EmittedBytesExists ==
  ASSUME NEW o, NEW s, NEW bytes, NEW m \in Nat
  PROVE  \E v : EmittedBytes(o, s, bytes, m, v)
<1>. DEFINE S == {n \in Nat : \E v : EmittedBytes(o, s, bytes, n, v)}
            start == [k \in 0 .. 0 |-> o]
<1>1. 0 \in S
  <2>1. EmittedBytes(o, s, bytes, 0, start)
    BY DEF EmittedBytes
  <2>. QED BY <2>1
<1>2. ASSUME NEW n \in Nat, n \in S PROVE n + 1 \in S
  <2>1. PICK v : EmittedBytes(o, s, bytes, n, v)
    BY <1>2
  <2>. DEFINE e(k, g) == IF k = 0 THEN o ELSE EmitByte(g[k - 1], s, bytes[k])
              h == [k \in 0 .. n + 1 |-> e(k, v)]
  <2>2. \A k \in 0 .. n : v[k] = e(k, v)
    BY <2>1 DEF EmittedBytes
  <2>3. \A k \in 0 .. n : h[k] = v[k]
    BY <2>2
  <2>4. \A k \in 0 .. n + 1 : e(k, v) = e(k, h)
    <3>1. \A k \in 0 .. n + 1 : k # 0 => k - 1 \in 0 .. n
      OBVIOUS
    <3>. HIDE DEF h
    <3>. QED BY <2>3, <3>1
  <2>5. h = [k \in 0 .. n + 1 |-> e(k, h)]
    <3>1. h = [k \in 0 .. n + 1 |-> e(k, v)]
      OBVIOUS
    <3>. HIDE DEF h, e
    <3>. QED BY <3>1, <2>4
  <2>6. EmittedBytes(o, s, bytes, n + 1, h)
    BY <2>5 DEF EmittedBytes
  <2>. QED BY <2>6
<1>. HIDE DEF S
<1>3. m \in S
  BY <1>1, <1>2, NatSets
<1>. QED BY <1>3 DEF S

LEMMA EmitBytesWritable ==
  ASSUME NEW o, Writing(o), NEW s \in Sections, NEW bytes \in Seq(Byte)
  PROVE  Writing(EmitBytes(o, s, bytes))
<1>1. CASE bytes = <<>>
  <2>1. EmitBytes(o, s, bytes) = Room(o, s)
    BY <1>1 DEF EmitBytes
  <2>. QED BY <2>1, RoomWritable
<1>2. CASE bytes # <<>>
  <2>. DEFINE v == CHOOSE g : EmittedBytes(o, s, bytes, Len(bytes), g)
  <2>1. PICK n \in Nat : n = Len(bytes)
    BY LenProperties
  <2>2. EmittedBytes(o, s, bytes, n, v)
    <3>1. \E g : EmittedBytes(o, s, bytes, n, g)
      BY EmittedBytesExists
    <3>. QED BY <2>1, <3>1
  <2>3. EmitBytes(o, s, bytes) = v[n]
    BY <1>2, <2>1 DEF EmitBytes, EmittedBytes
  <2>. HIDE DEF v
  <2>4. v[0] = o /\ \A k \in 1 .. n : v[k] = EmitByte(v[k - 1], s, bytes[k])
    BY <2>2 DEF EmittedBytes
  <2>. DEFINE S == {k \in Nat : k <= n => Writing(v[k])}
  <2>5. 0 \in S
    BY <2>4
  <2>6. ASSUME NEW k \in Nat, k \in S PROVE k + 1 \in S
    <3>. SUFFICES ASSUME k + 1 <= n PROVE Writing(v[k + 1])
      OBVIOUS
    <3>1. k <= n /\ k + 1 \in 1 .. n /\ (k + 1) - 1 = k
      OBVIOUS
    <3>2. Writing(v[k]) /\ v[k + 1] = EmitByte(v[k], s, bytes[k + 1])
      BY <2>4, <2>6, <3>1
    <3>3. bytes[k + 1] \in Byte
      BY <2>1, <3>1, ElementOfSeq
    <3>. QED BY <3>2, <3>3, EmitByteWritable
  <2>. HIDE DEF S
  <2>7. n \in S
    BY <2>5, <2>6, NatSets
  <2>. QED BY <2>3, <2>7 DEF S
<1>. QED BY <1>1, <1>2

\* Calls of the two for sections, with bytes.
Calls == Seq(Sections \X Seq(Byte))

\* The loop of EmitAll.
EmittedAll(o, calls, n, v) ==
  v = [k \in 0 .. n |-> IF k = 0 THEN o ELSE EmitBytes(v[k - 1], calls[k][1], calls[k][2])]

LEMMA EmittedAllExists ==
  ASSUME NEW o, NEW calls, NEW m \in Nat
  PROVE  \E v : EmittedAll(o, calls, m, v)
<1>. DEFINE S == {n \in Nat : \E v : EmittedAll(o, calls, n, v)}
            start == [k \in 0 .. 0 |-> o]
<1>1. 0 \in S
  <2>1. EmittedAll(o, calls, 0, start)
    BY DEF EmittedAll
  <2>. QED BY <2>1
<1>2. ASSUME NEW n \in Nat, n \in S PROVE n + 1 \in S
  <2>1. PICK v : EmittedAll(o, calls, n, v)
    BY <1>2
  <2>. DEFINE e(k, g) == IF k = 0 THEN o ELSE EmitBytes(g[k - 1], calls[k][1], calls[k][2])
              h == [k \in 0 .. n + 1 |-> e(k, v)]
  <2>2. \A k \in 0 .. n : v[k] = e(k, v)
    BY <2>1 DEF EmittedAll
  <2>3. \A k \in 0 .. n : h[k] = v[k]
    BY <2>2
  <2>4. \A k \in 0 .. n + 1 : e(k, v) = e(k, h)
    <3>1. \A k \in 0 .. n + 1 : k # 0 => k - 1 \in 0 .. n
      OBVIOUS
    <3>. HIDE DEF h
    <3>. QED BY <2>3, <3>1
  <2>5. h = [k \in 0 .. n + 1 |-> e(k, h)]
    <3>1. h = [k \in 0 .. n + 1 |-> e(k, v)]
      OBVIOUS
    <3>. HIDE DEF h, e
    <3>. QED BY <3>1, <2>4
  <2>6. EmittedAll(o, calls, n + 1, h)
    BY <2>5 DEF EmittedAll
  <2>. QED BY <2>6
<1>. HIDE DEF S
<1>3. m \in S
  BY <1>1, <1>2, NatSets
<1>. QED BY <1>3 DEF S

LEMMA EmitAllWritable ==
  ASSUME NEW o, Writing(o), NEW calls \in Calls
  PROVE  Writing(EmitAll(o, calls))
<1>. DEFINE v == CHOOSE g : EmittedAll(o, calls, Len(calls), g)
<1>1. PICK n \in Nat : n = Len(calls)
  BY LenProperties DEF Calls
<1>2. EmittedAll(o, calls, n, v)
  <2>1. \E g : EmittedAll(o, calls, n, g)
    BY EmittedAllExists
  <2>. QED BY <1>1, <2>1
<1>3. EmitAll(o, calls) = v[n]
  BY <1>1 DEF EmitAll, EmittedAll
<1>. HIDE DEF v
<1>4. v[0] = o /\ \A k \in 1 .. n : v[k] = EmitBytes(v[k - 1], calls[k][1], calls[k][2])
  BY <1>2 DEF EmittedAll
<1>. DEFINE S == {k \in Nat : k <= n => Writing(v[k])}
<1>5. 0 \in S
  BY <1>4
<1>6. ASSUME NEW k \in Nat, k \in S PROVE k + 1 \in S
  <2>. SUFFICES ASSUME k + 1 <= n PROVE Writing(v[k + 1])
    OBVIOUS
  <2>1. k <= n /\ k + 1 \in 1 .. n /\ (k + 1) - 1 = k
    OBVIOUS
  <2>2. Writing(v[k]) /\ v[k + 1] = EmitBytes(v[k], calls[k + 1][1], calls[k + 1][2])
    BY <1>4, <1>6, <2>1
  <2>3. calls[k + 1] \in Sections \X Seq(Byte)
    BY <1>1, <2>1, ElementOfSeq DEF Calls
  <2>4. calls[k + 1][1] \in Sections /\ calls[k + 1][2] \in Seq(Byte)
    BY <2>3
  <2>. QED BY <2>2, <2>4, EmitBytesWritable
<1>. HIDE DEF S
<1>7. n \in S
  BY <1>5, <1>6, NatSets
<1>. QED BY <1>3, <1>7 DEF S

\* The loop of SizeofOutput.
Summed(o, list, n, v) ==
  v = [k \in 0 .. n |-> IF k = 0 THEN 0 ELSE v[k - 1] + Len(o.page[list[k]].base)]

LEMMA SummedExists ==
  ASSUME NEW o, NEW list, NEW m \in Nat
  PROVE  \E v : Summed(o, list, m, v)
<1>. DEFINE S == {n \in Nat : \E v : Summed(o, list, n, v)}
            start == [k \in 0 .. 0 |-> 0]
<1>1. 0 \in S
  <2>1. Summed(o, list, 0, start)
    BY DEF Summed
  <2>. QED BY <2>1
<1>2. ASSUME NEW n \in Nat, n \in S PROVE n + 1 \in S
  <2>1. PICK v : Summed(o, list, n, v)
    BY <1>2
  <2>. DEFINE e(k, g) == IF k = 0 THEN 0 ELSE g[k - 1] + Len(o.page[list[k]].base)
              h == [k \in 0 .. n + 1 |-> e(k, v)]
  <2>2. \A k \in 0 .. n : v[k] = e(k, v)
    BY <2>1 DEF Summed
  <2>3. \A k \in 0 .. n : h[k] = v[k]
    BY <2>2
  <2>4. \A k \in 0 .. n + 1 : e(k, v) = e(k, h)
    <3>1. \A k \in 0 .. n + 1 : k # 0 => k - 1 \in 0 .. n
      OBVIOUS
    <3>. HIDE DEF h
    <3>. QED BY <2>3, <3>1
  <2>5. h = [k \in 0 .. n + 1 |-> e(k, h)]
    <3>1. h = [k \in 0 .. n + 1 |-> e(k, v)]
      OBVIOUS
    <3>. HIDE DEF h, e
    <3>. QED BY <3>1, <2>4
  <2>6. Summed(o, list, n + 1, h)
    BY <2>5 DEF Summed
  <2>. QED BY <2>6
<1>. HIDE DEF S
<1>3. m \in S
  BY <1>1, <1>2, NatSets
<1>. QED BY <1>3 DEF S

\* The length of a section is a number.
LEMMA SizeofOutputType ==
  ASSUME NEW o, Writing(o), NEW s \in Sections
  PROVE  SizeofOutput(o, s) \in Nat
<1>1. PICK ls : Writable(o, ls)
  BY DEF Writing
<1>. DEFINE l == ls[s]
            v == CHOOSE g : Summed(o, l, Len(l), g)
<1>2. /\ o \in Outputs /\ List(NextOf(o), o.heads[s], l)
  <2>1. s \in 0 .. 4 /\ s # 0
    BY DEF Sections
  <2>. QED BY <1>1, <2>1 DEF Writable, PageLists, FirstOf
<1>3. l \in Seq(Ids(o)) /\ Chain(o, o.heads[s]) = l
  BY <1>2, ListType, ChainIs
<1>. HIDE DEF l
<1>4. PICK n \in Nat : n = Len(l)
  BY <1>3, LenProperties
<1>5. Summed(o, l, n, v)
  <2>1. \E g : Summed(o, l, n, g)
    BY SummedExists
  <2>. QED BY <1>4, <2>1
<1>6. SizeofOutput(o, s) = v[n]
  BY <1>3, <1>4 DEF SizeofOutput, Summed
<1>. HIDE DEF v
<1>7. v[0] = 0 /\ \A k \in 1 .. n : v[k] = v[k - 1] + Len(o.page[l[k]].base)
  BY <1>5 DEF Summed
<1>. DEFINE S == {k \in Nat : k <= n => v[k] \in Nat}
<1>8. 0 \in S
  BY <1>7
<1>9. ASSUME NEW k \in Nat, k \in S PROVE k + 1 \in S
  <2>. SUFFICES ASSUME k + 1 <= n PROVE v[k + 1] \in Nat
    OBVIOUS
  <2>1. k <= n /\ k + 1 \in 1 .. n /\ (k + 1) - 1 = k
    OBVIOUS
  <2>2. v[k] \in Nat /\ v[k + 1] = v[k] + Len(o.page[l[k + 1]].base)
    BY <1>7, <1>9, <2>1
  <2>3. l[k + 1] \in Ids(o)
    BY <1>3, <1>4, <2>1, ElementOfSeq
  <2>4. Len(o.page[l[k + 1]].base) \in Nat
    BY <1>2, <2>3, OutputFacts
  <2>. QED BY <2>2, <2>4
<1>. HIDE DEF S
<1>10. n \in S
  BY <1>8, <1>9, NatSets
<1>. QED BY <1>6, <1>10 DEF S

-----------------------------------------------------------------------------
(* ENC_FLUSH: the lists of the sections become one, which xd3_encode_reset *)
(* takes apart.                                                            *)

\* The lists of the sections have been joined.
OneList(o, ls) ==
  /\ PageLists(o, ls, {}) /\ ls[HDR] \in Seq(Nat) /\ Len(ls[HDR]) >= 4
  /\ \A s \in 2 .. 4 : ls[s] = <<>>
Outputting(o) == \E ls : OneList(o, ls)

\* What Followed(o, s) is.
IsFollowed(q, o, s) ==
  /\ q \in Outputs /\ Len(q.page) = Len(o.page)
  /\ q.heads = [o.heads EXCEPT ![s] = NULL] /\ q.tails = o.tails
  /\ q.enc_free = o.enc_free /\ q.ok = o.ok
  /\ \A p \in Ids(o) :
       NextOf(q)[p] = IF p = o.tails[s - 1] THEN o.heads[s] ELSE NextOf(o)[p]

LEMMA FollowedFacts ==
  ASSUME NEW o \in Outputs, NEW s \in 2 .. 4, o.tails[s - 1] \in Ids(o)
  PROVE  IsFollowed(Joined(o, s), o, s)
<1>. DEFINE old == o.tails[s - 1]
            r   == [o.page[old] EXCEPT !.next_page = o.heads[s]]
            pages == [o.page EXCEPT ![old] = r]
            q   == Joined(o, s)
<1>1. /\ o.page \in Seq(PageRecords) /\ Len(o.page) \in Nat
      /\ o.heads \in [Sections -> Nat] /\ o.tails \in [Sections -> Nat]
      /\ o.enc_free \in Nat /\ o.ok \in BOOLEAN
      /\ \A p \in Ids(o) : NextOf(o)[p] = o.page[p].next_page
      /\ o.page[old] \in PageRecords
  BY OutputFacts
<1>2. o = [page |-> o.page, heads |-> o.heads, tails |-> o.tails,
           enc_free |-> o.enc_free, ok |-> o.ok]
  BY DEF Outputs
<1>3. o.heads[s] \in Nat /\ [o.heads EXCEPT ![s] = NULL] \in [Sections -> Nat]
  <2>1. s \in Sections /\ NULL \in Nat
    BY DEF Sections, NULL
  <2>. QED BY <1>1, <2>1
<1>. HIDE DEF old
<1>4. r \in PageRecords /\ r.next_page = o.heads[s]
  BY <1>1, <1>3, RecordTypes
<1>. HIDE DEF r
<1>5. /\ pages \in Seq(PageRecords) /\ Len(pages) = Len(o.page)
      /\ \A p \in Ids(o) : pages[p] = IF p = old THEN r ELSE o.page[p]
  BY <1>1, <1>4, PageExcept DEF Ids, old
<1>6. Followed(o, s) = [o EXCEPT !.page = pages]
  BY DEF Followed, old, r
<1>. HIDE DEF pages
<1>7. q = [page |-> pages, heads |-> [o.heads EXCEPT ![s] = NULL], tails |-> o.tails,
           enc_free |-> o.enc_free, ok |-> o.ok]
  <2>1. Followed(o, s) = [page |-> pages, heads |-> o.heads, tails |-> o.tails,
                          enc_free |-> o.enc_free, ok |-> o.ok]
    BY <1>2, <1>6
  <2>. QED BY <2>1 DEF Joined
<1>8. q \in Outputs
  BY <1>1, <1>3, <1>5, <1>7 DEF Outputs
<1>9. /\ q.page = pages /\ q.heads = [o.heads EXCEPT ![s] = NULL] /\ q.tails = o.tails
      /\ q.enc_free = o.enc_free /\ q.ok = o.ok
  BY <1>7
<1>. HIDE DEF q
<1>10. \A p \in Ids(q) : NextOf(q)[p] = q.page[p].next_page
  BY <1>8, OutputFacts
<1>11. Ids(q) = Ids(o)
  BY <1>5, <1>9 DEF Ids
<1>12. \A p \in Ids(o) : NextOf(q)[p] = IF p = old THEN o.heads[s] ELSE NextOf(o)[p]
  BY <1>1, <1>4, <1>5, <1>9, <1>10, <1>11
<1>. QED BY <1>5, <1>8, <1>9, <1>12 DEF IsFollowed, q, old

\* The pages q with the lists ms are o with the lists ls, and the list of section
\* s at the end of the list of the first section.
IsJoined(q, ms, o, ls, s) ==
  /\ PageLists(q, ms, {}) /\ q.tails = o.tails /\ q.heads[1] = o.heads[1]
  /\ Len(q.page) = Len(o.page)
  /\ ms[1] # <<>> /\ ms[1][Len(ms[1])] = ls[s][Len(ls[s])]
  /\ Len(ms[1]) = Len(ls[1]) + Len(ls[s])
  /\ ms[s] = <<>> /\ \A t \in 2 .. 4 : t # s => ms[t] = ls[t]

LEMMA JoinedLists ==
  ASSUME NEW o, NEW ls, NEW s \in 2 .. 4, PageLists(o, ls, {}), ls[1] # <<>>,
         ls[s] # <<>>, o.tails[s - 1] = ls[1][Len(ls[1])]
  PROVE  \E ms : IsJoined(Joined(o, s), ms, o, ls, s)
<1>. DEFINE u == ls[1]
            v == ls[s]
            l == u \o v
            S == ToSet(v)
            rs == [ls EXCEPT ![s] = <<>>]
            ms == [rs EXCEPT ![1] = l]
            r  == [o EXCEPT !.heads = [o.heads EXCEPT ![s] = NULL]]
            q  == Joined(o, s)
            old == o.tails[s - 1]
<1>1. /\ o \in Outputs /\ ls \in [0 .. 4 -> Seq(Nat)]
      /\ \A t \in 0 .. 4 : List(NextOf(o), FirstOf(o, t), ls[t])
      /\ \A t1, t2 \in 0 .. 4 : t1 # t2 => ToSet(ls[t1]) \cap ToSet(ls[t2]) = {}
  BY DEF PageLists
<1>2. s \in 0 .. 4 /\ s # 0 /\ s # 1 /\ 1 \in 0 .. 4 /\ 0 \in 0 .. 4
      /\ s \in Sections /\ 1 \in Sections
  BY DEF Sections
<1>3. /\ List(NextOf(o), o.heads[1], u) /\ List(NextOf(o), o.heads[s], v)
      /\ ToSet(u) \cap ToSet(v) = {}
  <2>1. List(NextOf(o), FirstOf(o, 1), u) /\ List(NextOf(o), FirstOf(o, s), v)
    BY <1>1, <1>2
  <2>2. FirstOf(o, 1) = o.heads[1] /\ FirstOf(o, s) = o.heads[s]
    BY <1>2 DEF FirstOf
  <2>3. ToSet(u) \cap ToSet(v) = {}
    BY <1>1, <1>2
  <2>. QED BY <2>1, <2>2, <2>3
<1>4. /\ ToSet(u) \subseteq Ids(o) /\ old = u[Len(u)] /\ old \in ToSet(u) /\ ToSet(v) \subseteq Ids(o)
  <2>1. ToSet(v) \subseteq Ids(o)
    BY <1>1, <1>3, ListType
  <2>2. ToSet(u) \subseteq Ids(o) /\ u[Len(u)] \in ToSet(u)
    BY <1>1, <1>3, ListType
  <2>. QED BY <2>1, <2>2
<1>5. IsFollowed(q, o, s)
  BY <1>1, <1>4, FollowedFacts
<1>. HIDE DEF q, u, v, l
<1>6. o.heads \in [Sections -> Nat] /\ o.page \in Seq(PageRecords) /\ Len(o.page) \in Nat
      /\ DOMAIN NextOf(o) = Ids(o)
  BY <1>1, OutputFacts
<1>7. /\ r \in Outputs /\ r.page = o.page /\ r.enc_free = o.enc_free
      /\ r.heads = [o.heads EXCEPT ![s] = NULL]
  <2>1. [o.heads EXCEPT ![s] = NULL] \in [Sections -> Nat]
    BY <1>6 DEF NULL
  <2>. QED BY <1>1, <2>1 DEF Outputs
<1>. HIDE DEF r
<1>8. Ids(r) = Ids(o) /\ NextOf(r) = NextOf(o)
  BY <1>7 DEF Ids, NextOf
<1>9. \A t \in 0 .. 4 : t # s => FirstOf(r, t) = FirstOf(o, t)
  BY <1>2, <1>6, <1>7 DEF FirstOf, Sections
<1>10. List(NextOf(r), FirstOf(r, s), <<>>) /\ ToSet(<<>>) = {}
  <2>1. FirstOf(r, s) = NULL
    BY <1>2, <1>6, <1>7 DEF FirstOf
  <2>. QED BY <2>1, ListEmpty
<1>11. PageLists(r, rs, S)
  <2>. DEFINE T == {} e == <<>>
  <2>1. ToSet(e) \cap S = {} /\ ToSet(e) \cup S = ToSet(ls[s]) \cup T \cup (Ids(r) \ Ids(o))
        /\ Ids(o) \subseteq Ids(r)
    BY <1>8, <1>10 DEF v
  <2>2. PageLists(o, ls, T) /\ List(NextOf(r), FirstOf(r, s), e)
    BY <1>10
  <2>3. \A t \in 0 .. 4 : t # s => \A p \in ToSet(ls[t]) : NextOf(r)[p] = NextOf(o)[p]
    BY <1>8
  <2>. HIDE DEF S, T, e
  <2>4. PageLists(r, [ls EXCEPT ![s] = e], S)
    BY <1>2, <1>7, <1>9, <2>1, <2>2, <2>3, ReplaceList
  <2>. QED BY <2>4 DEF e
<1>12. /\ q \in Outputs /\ Len(q.page) = Len(o.page) /\ q.heads = r.heads
       /\ q.tails = o.tails /\ q.enc_free = r.enc_free
       /\ \A p \in Ids(o) : NextOf(q)[p] = IF p = old THEN o.heads[s] ELSE NextOf(o)[p]
  BY <1>5, <1>7 DEF IsFollowed
<1>13. Ids(q) = Ids(o) /\ DOMAIN NextOf(q) = Ids(o)
  BY <1>12, OutputFacts DEF Ids
<1>14. \A t \in 0 .. 4 : FirstOf(q, t) = FirstOf(r, t)
  BY <1>12 DEF FirstOf
<1>. HIDE DEF old
<1>15. Segment(NextOf(q), u, o.heads[s]) /\ u[1] = o.heads[1] /\ u # <<>>
  <2>1. \A p \in ToSet(u) : p # u[Len(u)] => NextOf(q)[p] = NextOf(o)[p]
    BY <1>4, <1>12
  <2>2. u # <<>>
    BY DEF u
  <2>3. Segment(NextOf(q), u, NextOf(q)[u[Len(u)]]) /\ u[1] = o.heads[1]
    <3>1. DOMAIN NextOf(o) \subseteq DOMAIN NextOf(q) /\ List(NextOf(o), o.heads[1], u)
      BY <1>3, <1>6, <1>13
    <3>. QED BY <2>1, <2>2, <3>1, ListSegment
  <2>4. NextOf(q)[u[Len(u)]] = o.heads[s]
    BY <1>4, <1>12
  <2>. QED BY <2>2, <2>3, <2>4
<1>16. List(NextOf(q), o.heads[s], v)
  <2>1. \A p \in ToSet(v) : NextOf(q)[p] = NextOf(o)[p]
    BY <1>3, <1>4, <1>12
  <2>. QED BY <1>3, <1>6, <1>13, <2>1, ListFrame
<1>17. v # <<>>
  BY DEF v
<1>18. /\ List(NextOf(q), u[1], l) /\ ToSet(l) = ToSet(u) \cup S /\ l # <<>>
       /\ l[Len(l)] = v[Len(v)] /\ Len(l) = Len(u) + Len(v)
  BY <1>3, <1>15, <1>16, <1>17, ListJoin DEF l
<1>19. /\ rs[1] = u /\ rs[s] = <<>> /\ \A t \in 0 .. 4 : t # s => rs[t] = ls[t]
  BY <1>1, <1>2 DEF u
<1>. HIDE DEF S, rs
<1>20. \A t \in 0 .. 4 : t # 1 => \A p \in ToSet(rs[t]) : NextOf(q)[p] = NextOf(r)[p]
  <2>. SUFFICES ASSUME NEW t \in 0 .. 4, t # 1, NEW p \in ToSet(rs[t])
                PROVE  NextOf(q)[p] = NextOf(r)[p]
    OBVIOUS
  <2>1. t # s /\ p \in ToSet(ls[t])
    BY <1>10, <1>19
  <2>2. p \in Ids(o)
    BY <1>1, <2>1, ListType
  <2>3. p # old
    BY <1>1, <1>2, <1>4, <2>1 DEF u
  <2>. QED BY <1>8, <1>12, <2>2, <2>3
<1>21. PageLists(q, ms, {})
  <2>. DEFINE T == {}
  <2>1. List(NextOf(q), FirstOf(q, 1), l)
    <3>1. FirstOf(q, 1) = o.heads[1]
      BY <1>2, <1>9, <1>14 DEF FirstOf
    <3>. QED BY <1>15, <1>18, <3>1
  <2>2. ToSet(l) \cap T = {} /\ ToSet(l) \cup T = ToSet(rs[1]) \cup S \cup (Ids(q) \ Ids(r))
        /\ Ids(r) \subseteq Ids(q)
    BY <1>8, <1>13, <1>18, <1>19
  <2>. HIDE DEF T
  <2>3. \A t \in 0 .. 4 : t # 1 => FirstOf(q, t) = FirstOf(r, t)
    BY <1>14
  <2>4. PageLists(q, ms, T)
    BY <1>2, <1>11, <1>12, <1>20, <2>1, <2>2, <2>3, ReplaceList
  <2>. QED BY <2>4 DEF T
<1>22. q.heads[1] = o.heads[1]
  BY <1>2, <1>6, <1>7, <1>12
<1>23. ms[1] = l /\ ms[s] = <<>> /\ \A t \in 2 .. 4 : t # s => ms[t] = ls[t]
  <2>1. rs \in [0 .. 4 -> Seq(Nat)]
    <3>1. <<>> \in Seq(Nat)
      OBVIOUS
    <3>. QED BY <1>1, <3>1 DEF rs
  <2>2. ms[1] = l /\ \A t \in 0 .. 4 : t # 1 => ms[t] = rs[t]
    BY <1>2, <2>1
  <2>3. \A t \in 2 .. 4 : t \in 0 .. 4 /\ t # 1
    OBVIOUS
  <2>. QED BY <1>2, <1>19, <2>2, <2>3
<1>. HIDE DEF ms
<1>24. IsJoined(q, ms, o, ls, s)
  BY <1>12, <1>18, <1>21, <1>22, <1>23 DEF IsJoined, u, v
<1>. QED BY <1>24 DEF q

LEMMA SplicedLists ==
  ASSUME NEW o, Writing(o)
  PROVE  Outputting(Spliced(o)) /\ o.heads[HDR] \in Ids(Spliced(o))
<1>. DEFINE a == Joined(o, DATA)
            b == Joined(a, INST)
            c == Joined(b, ADDR)
<1>1. PICK ls : Writable(o, ls)
  BY DEF Writing
<1>2. /\ PageLists(o, ls, {}) /\ ls[1] # <<>> /\ ls[2] # <<>> /\ ls[3] # <<>> /\ ls[4] # <<>>
      /\ o.tails[1] = ls[1][Len(ls[1])] /\ o.tails[2] = ls[2][Len(ls[2])]
      /\ o.tails[3] = ls[3][Len(ls[3])] /\ o.heads[1] \in Ids(o)
  <2>1. 1 \in Sections /\ 2 \in Sections /\ 3 \in Sections /\ 4 \in Sections
    BY DEF Sections
  <2>. QED BY <1>1, <2>1, TailFacts DEF Writable
<1>3. /\ 2 \in 2 .. 4 /\ 3 \in 2 .. 4 /\ 4 \in 2 .. 4
      /\ 2 - 1 = 1 /\ 3 - 1 = 2 /\ 4 - 1 = 3
  OBVIOUS
<1>4. PICK as : IsJoined(a, as, o, ls, 2)
  BY <1>2, <1>3, JoinedLists DEF DATA
<1>. HIDE DEF a
<1>5. /\ PageLists(a, as, {}) /\ as[1] # <<>> /\ as[3] = ls[3] /\ as[4] = ls[4]
      /\ a.tails = o.tails /\ as[1][Len(as[1])] = ls[2][Len(ls[2])] /\ as[2] = <<>>
  <2>1. 3 # 2 /\ 4 # 2
    OBVIOUS
  <2>2. as[3] = ls[3] /\ as[4] = ls[4]
    BY <1>3, <1>4, <2>1 DEF IsJoined
  <2>. QED BY <1>4, <2>2 DEF IsJoined
<1>6. PICK bs : IsJoined(b, bs, a, as, 3)
  BY <1>2, <1>3, <1>5, JoinedLists DEF INST
<1>. HIDE DEF b
<1>7. /\ PageLists(b, bs, {}) /\ bs[1] # <<>> /\ bs[4] = ls[4] /\ b.tails = o.tails
      /\ bs[1][Len(bs[1])] = ls[3][Len(ls[3])] /\ bs[2] = <<>> /\ bs[3] = <<>>
  BY <1>3, <1>5, <1>6 DEF IsJoined
<1>8. PICK cs : IsJoined(c, cs, b, bs, 4)
  BY <1>2, <1>3, <1>7, JoinedLists DEF ADDR
<1>. HIDE DEF c
<1>9. PageLists(c, cs, {}) /\ cs[2] = <<>> /\ cs[3] = <<>> /\ cs[4] = <<>>
  BY <1>3, <1>7, <1>8 DEF IsJoined
<1>10. /\ Len(cs[1]) = ((Len(ls[1]) + Len(ls[2])) + Len(ls[3])) + Len(ls[4])
       /\ Len(c.page) = Len(o.page)
  BY <1>4, <1>5, <1>6, <1>7, <1>8 DEF IsJoined
<1>11. \A s \in 1 .. 4 : Len(ls[s]) \in Nat /\ Len(ls[s]) >= 1
  <2>1. \A s \in 1 .. 4 : ls[s] \in Seq(Nat) /\ ls[s] # <<>>
    <3>1. ls \in [0 .. 4 -> Seq(Nat)]
      BY <1>2 DEF PageLists
    <3>2. \A s \in 1 .. 4 : s \in 0 .. 4
      OBVIOUS
    <3>3. \A s \in 1 .. 4 : ls[s] # <<>>
      BY <1>1 DEF Writable, Sections
    <3>. QED BY <3>1, <3>2, <3>3
  <2>2. \A l \in Seq(Nat) : Len(l) \in Nat /\ (l # <<>> => Len(l) >= 1)
    BY EmptySeq, LenProperties
  <2>. QED BY <2>1, <2>2
<1>12. Len(cs[1]) >= 4
  <2>1. 1 \in 1 .. 4 /\ 2 \in 1 .. 4 /\ 3 \in 1 .. 4 /\ 4 \in 1 .. 4
    OBVIOUS
  <2>2. PICK i \in Nat : i = Len(ls[1]) /\ i >= 1
    BY <1>11, <2>1
  <2>3. PICK j \in Nat : j = Len(ls[2]) /\ j >= 1
    BY <1>11, <2>1
  <2>4. PICK k \in Nat : k = Len(ls[3]) /\ k >= 1
    BY <1>11, <2>1
  <2>5. PICK m \in Nat : m = Len(ls[4]) /\ m >= 1
    BY <1>11, <2>1
  <2>6. Len(cs[1]) = ((i + j) + k) + m
    BY <1>10, <2>2, <2>3, <2>4, <2>5
  <2>7. i >= 1 /\ j >= 1 /\ k >= 1 /\ m >= 1
    BY <2>2, <2>3, <2>4, <2>5
  <2>8. ((i + j) + k) + m >= 4
    BY <2>7
  <2>. QED BY <2>6, <2>8
<1>13. cs[1] \in Seq(Nat)
  <2>1. cs \in [0 .. 4 -> Seq(Nat)] /\ 1 \in 0 .. 4
    BY <1>9 DEF PageLists
  <2>. QED BY <2>1
<1>14. OneList(c, cs)
  <2>1. \A s \in 2 .. 4 : s = 2 \/ s = 3 \/ s = 4
    OBVIOUS
  <2>. QED BY <1>9, <1>12, <1>13, <2>1 DEF OneList, HDR
<1>15. Spliced(o) = c
  BY DEF Spliced, a, b, c
<1>16. o.heads[HDR] \in Ids(c)
  BY <1>2, <1>10 DEF Ids, HDR
<1>. QED BY <1>14, <1>15, <1>16 DEF Outputting

-----------------------------------------------------------------------------
(* xd3_freelist_output.                                                    *)

\* The pages q with the lists ms are o with the lists ls, but for the free list.
MoreFree(q, ms, o, ls, S) ==
  PageLists(q, ms, S) /\ q.tails = o.tails /\ \A s \in Sections : ms[s] = ls[s]

LEMMA FreedLists ==
  ASSUME NEW o, NEW ls, NEW S, PageLists(o, ls, S), NEW p \in S, p \in Ids(o)
  PROVE  /\ \E ms : MoreFree(Freed(o, p), ms, o, ls, S \ {p})
         /\ Ids(Freed(o, p)) = Ids(o)
<1>. DEFINE r == [EmptyPage EXCEPT !.next_page = o.enc_free]
            pages == [o.page EXCEPT ![p] = r]
            q == Freed(o, p)
            l == <<p>> \o ls[0]
            ms == [ls EXCEPT ![0] = l]
<1>1. /\ o \in Outputs /\ ls \in [0 .. 4 -> Seq(Nat)] /\ 0 \in 0 .. 4
      /\ \A t \in 0 .. 4 : List(NextOf(o), FirstOf(o, t), ls[t]) /\ p \notin ToSet(ls[t])
  BY DEF PageLists
<1>2. /\ o.page \in Seq(PageRecords) /\ o.enc_free \in Nat /\ p \in Nat
      /\ \A i \in Ids(o) : NextOf(o)[i] = o.page[i].next_page
      /\ DOMAIN NextOf(o) = Ids(o)
  <2>1. p \in Nat
    BY DEF Ids
  <2>. QED BY <1>1, <2>1, OutputFacts
<1>3. r \in PageRecords /\ r.next_page = o.enc_free
  BY <1>2, RecordTypes
<1>. HIDE DEF r
<1>4. /\ pages \in Seq(PageRecords) /\ Len(pages) = Len(o.page)
      /\ \A i \in Ids(o) : pages[i] = IF i = p THEN r ELSE o.page[i]
  BY <1>2, <1>3, PageExcept DEF Ids
<1>5. q = [[o EXCEPT !.page = pages] EXCEPT !.enc_free = p]
  BY DEF Freed, r
<1>. HIDE DEF pages
<1>6. /\ q \in Outputs /\ q.page = pages /\ q.heads = o.heads /\ q.tails = o.tails
      /\ q.enc_free = p
  <2>. DEFINE z == [o EXCEPT !.page = pages]
  <2>1. z \in Outputs /\ z.page = pages /\ z.heads = o.heads /\ z.tails = o.tails
    BY <1>1, <1>4, PagesExcept
  <2>2. q = [z EXCEPT !.enc_free = p]
    BY <1>5
  <2>. HIDE DEF z, q
  <2>. QED BY <1>2, <2>1, <2>2, FreeExcept
<1>. HIDE DEF q
<1>7. Ids(q) = Ids(o) /\ DOMAIN NextOf(q) = Ids(o)
  BY <1>4, <1>6, OutputFacts DEF Ids
<1>8. \A i \in Ids(o) : NextOf(q)[i] = IF i = p THEN o.enc_free ELSE NextOf(o)[i]
  <2>1. \A i \in Ids(o) : NextOf(q)[i] = pages[i].next_page
    BY <1>6, <1>7, OutputFacts
  <2>. QED BY <1>2, <1>3, <1>4, <2>1
<1>9. List(NextOf(q), o.enc_free, ls[0])
  <2>1. List(NextOf(o), o.enc_free, ls[0]) /\ p \notin ToSet(ls[0])
    BY <1>1 DEF FirstOf
  <2>2. ToSet(ls[0]) \subseteq Ids(o)
    BY <1>1, <2>1, ListType
  <2>3. \A i \in ToSet(ls[0]) : NextOf(q)[i] = NextOf(o)[i]
    BY <1>8, <2>1, <2>2
  <2>. QED BY <1>2, <1>7, <2>1, <2>3, ListFrame
<1>10. /\ Segment(NextOf(q), <<p>>, o.enc_free) /\ ToSet(<<p>>) = {p} /\ <<p>>[1] = p
  <2>1. p \in DOMAIN NextOf(q) /\ NextOf(q)[p] = o.enc_free
    BY <1>7, <1>8
  <2>2. Segment(NextOf(q), <<p>>, NextOf(q)[p]) /\ ToSet(<<p>>) = {p}
    BY <2>1, OnePage
  <2>. QED BY <2>1, <2>2
<1>11. List(NextOf(q), p, l) /\ ToSet(l) = {p} \cup ToSet(ls[0])
  <2>. DEFINE u == <<p>>
  <2>1. Segment(NextOf(q), u, o.enc_free) /\ ToSet(u) \cap ToSet(ls[0]) = {}
    BY <1>1, <1>10
  <2>2. ToSet(u) = {p} /\ u[1] = p /\ l = u \o ls[0]
    BY <1>10
  <2>. HIDE DEF u, l
  <2>. QED BY <1>9, <2>1, <2>2, ListJoin
<1>. HIDE DEF l
<1>12. PageLists(q, ms, S \ {p})
  <2>. DEFINE T == S \ {p}
  <2>1. List(NextOf(q), FirstOf(q, 0), l)
    BY <1>6, <1>11 DEF FirstOf
  <2>2. ToSet(ls[0]) \cap S = {}
    BY DEF PageLists
  <2>3. ToSet(l) \cap T = {} /\ ToSet(l) \cup T = ToSet(ls[0]) \cup S \cup (Ids(q) \ Ids(o))
        /\ Ids(o) \subseteq Ids(q)
    BY <1>1, <1>7, <1>11, <2>2
  <2>4. \A t \in 0 .. 4 : t # 0 => FirstOf(q, t) = FirstOf(o, t)
    BY <1>6 DEF FirstOf
  <2>5. \A t \in 0 .. 4 : t # 0 => \A i \in ToSet(ls[t]) : NextOf(q)[i] = NextOf(o)[i]
    <3>1. \A t \in 0 .. 4 : ToSet(ls[t]) \subseteq Ids(o)
      BY <1>1, ListType
    <3>. QED BY <1>1, <1>8, <3>1
  <2>. HIDE DEF T
  <2>6. PageLists(q, ms, T)
    BY <1>1, <1>6, <2>1, <2>3, <2>4, <2>5, ReplaceList
  <2>. QED BY <2>6 DEF T
<1>13. \A s \in Sections : ms[s] = ls[s]
  BY <1>1 DEF Sections
<1>. HIDE DEF ms
<1>14. MoreFree(q, ms, o, ls, S \ {p})
  BY <1>6, <1>12, <1>13 DEF MoreFree
<1>. QED BY <1>7, <1>14 DEF q

\* The loop of FreelistOutput.
FreedAll(o, list, n, v) ==
  v = [k \in 0 .. n |-> IF k = 0 THEN o ELSE Freed(v[k - 1], list[k])]

LEMMA FreedAllExists ==
  ASSUME NEW o, NEW list, NEW m \in Nat
  PROVE  \E v : FreedAll(o, list, m, v)
<1>. DEFINE S == {n \in Nat : \E v : FreedAll(o, list, n, v)}
            start == [k \in 0 .. 0 |-> o]
<1>1. 0 \in S
  <2>1. FreedAll(o, list, 0, start)
    BY DEF FreedAll
  <2>. QED BY <2>1
<1>2. ASSUME NEW n \in Nat, n \in S PROVE n + 1 \in S
  <2>1. PICK v : FreedAll(o, list, n, v)
    BY <1>2
  <2>. DEFINE e(k, g) == IF k = 0 THEN o ELSE Freed(g[k - 1], list[k])
              h == [k \in 0 .. n + 1 |-> e(k, v)]
  <2>2. \A k \in 0 .. n : v[k] = e(k, v)
    BY <2>1 DEF FreedAll
  <2>3. \A k \in 0 .. n : h[k] = v[k]
    BY <2>2
  <2>4. \A k \in 0 .. n + 1 : e(k, v) = e(k, h)
    <3>1. \A k \in 0 .. n + 1 : k # 0 => k - 1 \in 0 .. n
      OBVIOUS
    <3>. HIDE DEF h
    <3>. QED BY <2>3, <3>1
  <2>5. h = [k \in 0 .. n + 1 |-> e(k, h)]
    <3>1. h = [k \in 0 .. n + 1 |-> e(k, v)]
      OBVIOUS
    <3>. HIDE DEF h, e
    <3>. QED BY <3>1, <2>4
  <2>6. FreedAll(o, list, n + 1, h)
    BY <2>5 DEF FreedAll
  <2>. QED BY <2>6
<1>. HIDE DEF S
<1>3. m \in S
  BY <1>1, <1>2, NatSets
<1>. QED BY <1>3 DEF S

\* The list l, which is no list of o, goes to the free list.
LEMMA FreelistLists ==
  ASSUME NEW o, NEW ls, NEW id, NEW l, PageLists(o, ls, ToSet(l)), List(NextOf(o), id, l)
  PROVE  \E ms : MoreFree(FreelistOutput(o, id), ms, o, ls, {})
<1>. DEFINE v == CHOOSE g : FreedAll(o, l, Len(l), g)
<1>1. o \in Outputs
  BY DEF PageLists
<1>2. l \in Seq(Ids(o)) /\ Chain(o, id) = l
  BY <1>1, ListType, ChainIs
<1>3. PICK n \in Nat : n = Len(l)
  BY <1>2, LenProperties
<1>4. FreedAll(o, l, n, v)
  <2>1. \E g : FreedAll(o, l, n, g)
    BY FreedAllExists
  <2>. QED BY <1>3, <2>1
<1>5. FreelistOutput(o, id) = v[n]
  BY <1>2, <1>3 DEF FreelistOutput, FreedAll
<1>. HIDE DEF v
<1>6. v[0] = o /\ \A k \in 1 .. n : v[k] = Freed(v[k - 1], l[k])
  BY <1>4 DEF FreedAll
<1>7. /\ \A k \in 1 .. n : l[k] \in Ids(o)
      /\ \A i, j \in 1 .. n : l[i] = l[j] => i = j
      /\ ToSet(l) = {l[k] : k \in 1 .. n}
  <2>1. \A k \in 1 .. n : l[k] \in Ids(o)
    BY <1>2, <1>3, ElementOfSeq
  <2>2. \A i, j \in 1 .. n : l[i] = l[j] => i = j
    BY <1>3 DEF List, Distinct
  <2>. QED BY <1>2, <1>3, <2>1, <2>2, ToSetIs
<1>. DEFINE Rest_(k) == {l[j] : j \in k + 1 .. n}
            Good(k) == Ids(v[k]) = Ids(o) /\ \E ms : MoreFree(v[k], ms, o, ls, Rest_(k))
            S == {k \in Nat : k <= n => Good(k)}
<1>8. 0 \in S
  <2>1. Rest_(0) = ToSet(l)
    BY <1>7
  <2>2. MoreFree(o, ls, o, ls, ToSet(l))
    BY DEF MoreFree
  <2>. HIDE DEF Rest_
  <2>3. Good(0)
    BY <1>6, <2>1, <2>2
  <2>. QED BY <2>3
<1>9. ASSUME NEW k \in Nat, k <= n => Good(k), k + 1 <= n PROVE Good(k + 1)
  <2>1. k <= n /\ k + 1 \in 1 .. n /\ (k + 1) - 1 = k
    BY <1>9
  <2>2. l[k + 1] \in Rest_(k) /\ Rest_(k + 1) = Rest_(k) \ {l[k + 1]}
    <3>1. k + 1 \in k + 1 .. n /\ \A j \in k + 1 .. n : j \in 1 .. n
      BY <2>1
    <3>2. \A j \in k + 1 .. n : j # k + 1 <=> j \in (k + 1) + 1 .. n
      OBVIOUS
    <3>3. \A j \in (k + 1) + 1 .. n : j \in k + 1 .. n
      OBVIOUS
    <3>. QED BY <1>7, <2>1, <3>1, <3>2, <3>3
  <2>3. Good(k)
    BY <1>9, <2>1
  <2>. HIDE DEF Rest_
  <2>4. PICK ms : MoreFree(v[k], ms, o, ls, Rest_(k))
    BY <2>3
  <2>5. l[k + 1] \in Ids(v[k]) /\ Ids(v[k]) = Ids(o) /\ v[k + 1] = Freed(v[k], l[k + 1])
    BY <1>6, <1>7, <2>1, <2>3
  <2>6. PageLists(v[k], ms, Rest_(k))
    BY <2>4 DEF MoreFree
  <2>7. PICK zs : MoreFree(v[k + 1], zs, v[k], ms, Rest_(k) \ {l[k + 1]})
    BY <2>2, <2>5, <2>6, FreedLists
  <2>8. Ids(v[k + 1]) = Ids(o)
    BY <2>2, <2>5, <2>6, FreedLists
  <2>9. MoreFree(v[k + 1], zs, o, ls, Rest_(k + 1))
    BY <2>2, <2>4, <2>7 DEF MoreFree
  <2>. QED BY <2>8, <2>9
<1>10. n \in S
  <2>. HIDE DEF Good
  <2>1. \A k \in Nat : k \in S => k + 1 \in S
    BY <1>9
  <2>. HIDE DEF S
  <2>. QED BY <1>8, <2>1, NatSets
<1>11. PICK ms : MoreFree(v[n], ms, o, ls, Rest_(n))
  <2>. HIDE DEF Rest_
  <2>. QED BY <1>10 DEF S
<1>12. Rest_(n) = {}
  OBVIOUS
<1>. HIDE DEF Rest_
<1>. QED BY <1>5, <1>11, <1>12

-----------------------------------------------------------------------------
(* xd3_encode_reset.                                                       *)

\* What a list is without its first four pages.
LEMMA ListDrop ==
  ASSUME NEW f, NEW id, NEW l, List(f, id, l), NEW n \in Nat, n = Len(l), n >= 4
  PROVE  \E v : /\ List(f, IF n > 4 THEN l[5] ELSE NULL, v)
                /\ ToSet(v) = ToSet(l) \ {l[1], l[2], l[3], l[4]}
<1>1. l # <<>> /\ l \in Seq(DOMAIN f)
  BY EmptySeq DEF List
<1>. DEFINE a == Tail(l)
            b == Tail(a)
            c == Tail(b)
            v == Tail(c)
<1>2. /\ List(f, f[id], a) /\ ToSet(a) = ToSet(l) \ {l[1]} /\ Len(a) = n - 1
      /\ \A k \in 1 .. n - 1 : a[k] = l[k + 1]
  BY <1>1, ListTail
<1>. HIDE DEF a
<1>3. a # <<>> /\ a[1] = l[2] /\ 1 \in 1 .. n - 1
  <2>1. 1 \in 1 .. n - 1 /\ 1 + 1 = 2 /\ n - 1 # 0
    OBVIOUS
  <2>. QED BY <1>2, <2>1, EmptySeq
<1>4. /\ List(f, f[f[id]], b) /\ ToSet(b) = ToSet(a) \ {a[1]} /\ Len(b) = n - 2
      /\ \A k \in 1 .. n - 2 : b[k] = l[k + 2]
  <2>1. /\ List(f, f[f[id]], b) /\ ToSet(b) = ToSet(a) \ {a[1]} /\ Len(b) = (n - 1) - 1
        /\ \A k \in 1 .. (n - 1) - 1 : b[k] = a[k + 1]
    <3>1. /\ f[id] = a[1] /\ List(f, f[f[id]], b) /\ ToSet(b) = ToSet(a) \ {f[id]}
          /\ Len(b) = Len(a) - 1 /\ \A k \in 1 .. Len(a) - 1 : b[k] = a[k + 1]
      BY <1>2, <1>3, ListTail
    <3>. HIDE DEF b
    <3>. QED BY <1>2, <3>1
  <2>. HIDE DEF b
  <2>2. ASSUME NEW k \in 1 .. n - 2 PROVE b[k] = l[k + 2]
    <3>1. k \in 1 .. (n - 1) - 1 /\ k + 1 \in 1 .. n - 1 /\ (k + 1) + 1 = k + 2
      OBVIOUS
    <3>. QED BY <1>2, <2>1, <3>1
  <2>. QED BY <2>1, <2>2
<1>. HIDE DEF b
<1>5. b # <<>> /\ b[1] = l[3]
  <2>1. 1 \in 1 .. n - 2 /\ 1 + 2 = 3 /\ n - 2 # 0
    OBVIOUS
  <2>. QED BY <1>4, <2>1, EmptySeq
<1>6. /\ List(f, f[f[f[id]]], c) /\ ToSet(c) = ToSet(b) \ {b[1]} /\ Len(c) = n - 3
      /\ \A k \in 1 .. n - 3 : c[k] = l[k + 3]
  <2>1. /\ List(f, f[f[f[id]]], c) /\ ToSet(c) = ToSet(b) \ {b[1]} /\ Len(c) = (n - 2) - 1
        /\ \A k \in 1 .. (n - 2) - 1 : c[k] = b[k + 1]
    <3>1. /\ f[f[id]] = b[1] /\ List(f, f[f[f[id]]], c) /\ ToSet(c) = ToSet(b) \ {f[f[id]]}
          /\ Len(c) = Len(b) - 1 /\ \A k \in 1 .. Len(b) - 1 : c[k] = b[k + 1]
      BY <1>4, <1>5, ListTail
    <3>. HIDE DEF c
    <3>. QED BY <1>4, <3>1
  <2>. HIDE DEF c
  <2>2. ASSUME NEW k \in 1 .. n - 3 PROVE c[k] = l[k + 3]
    <3>1. k \in 1 .. (n - 2) - 1 /\ k + 1 \in 1 .. n - 2 /\ (k + 1) + 2 = k + 3
      OBVIOUS
    <3>. QED BY <1>4, <2>1, <3>1
  <2>. QED BY <2>1, <2>2
<1>. HIDE DEF c
<1>7. c # <<>> /\ c[1] = l[4]
  <2>1. 1 \in 1 .. n - 3 /\ 1 + 3 = 4 /\ n - 3 # 0
    OBVIOUS
  <2>. QED BY <1>6, <2>1, EmptySeq
<1>8. /\ List(f, f[f[f[f[id]]]], v) /\ ToSet(v) = ToSet(c) \ {c[1]} /\ Len(v) = n - 4
      /\ \A k \in 1 .. n - 4 : v[k] = c[k + 1]
  <2>1. /\ f[f[f[id]]] = c[1] /\ List(f, f[f[f[f[id]]]], v) /\ ToSet(v) = ToSet(c) \ {f[f[f[id]]]}
        /\ Len(v) = Len(c) - 1 /\ \A k \in 1 .. Len(c) - 1 : v[k] = c[k + 1]
    BY <1>6, <1>7, ListTail
  <2>. HIDE DEF v
  <2>2. Len(c) - 1 = n - 4
    BY <1>6
  <2>. QED BY <2>1, <2>2
<1>. HIDE DEF v
<1>9. f[f[f[f[id]]]] = IF n > 4 THEN l[5] ELSE NULL
  <2>1. f[f[f[f[id]]]] = IF v = <<>> THEN NULL ELSE v[1]
    BY <1>8 DEF List
  <2>2. v = <<>> <=> n = 4
    <3>1. v \in Seq(DOMAIN f)
      BY <1>8 DEF List
    <3>2. v = <<>> <=> Len(v) = 0
      BY <3>1, EmptySeq
    <3>. QED BY <1>8, <3>2
  <2>3. n > 4 => v[1] = l[5]
    <3>. SUFFICES ASSUME n > 4 PROVE v[1] = l[5]
      OBVIOUS
    <3>1. 1 \in 1 .. n - 4 /\ 1 + 1 \in 1 .. n - 3 /\ (1 + 1) + 3 = 5
      OBVIOUS
    <3>. QED BY <1>6, <1>8, <3>1
  <2>. QED BY <2>1, <2>2, <2>3
<1>10. ToSet(v) = ToSet(l) \ {l[1], l[2], l[3], l[4]}
  BY <1>2, <1>3, <1>4, <1>5, <1>6, <1>7, <1>8
<1>. QED BY <1>8, <1>9, <1>10

\* The pages when the first four of the list l are taken for the sections.
Apart(o, l) ==
  LET heads == [s \in Sections |-> l[s]]
  IN  [o EXCEPT !.heads = heads, !.tails = heads,
                !.page = [p \in DOMAIN @ |->
                            IF \E s \in Sections : heads[s] = p THEN EmptyPage ELSE @[p]]]

IsApart(q, o, l) ==
  /\ q \in Outputs /\ Len(q.page) = Len(o.page)
  /\ q.heads = [s \in Sections |-> l[s]] /\ q.tails = [s \in Sections |-> l[s]]
  /\ q.enc_free = o.enc_free
  /\ \A p \in Ids(o) : NextOf(q)[p] = IF \E s \in Sections : l[s] = p THEN NULL
                                      ELSE NextOf(o)[p]

LEMMA ApartFacts ==
  ASSUME NEW o \in Outputs, NEW l \in Seq(Ids(o)), Len(l) >= 4
  PROVE  IsApart(Apart(o, l), o, l)
<1>. DEFINE heads == [s \in Sections |-> l[s]]
            e(p) == IF \E s \in Sections : heads[s] = p THEN EmptyPage ELSE o.page[p]
            pages == [p \in 1 .. Len(o.page) |-> e(p)]
            q == Apart(o, l)
<1>1. /\ o.page \in Seq(PageRecords) /\ Len(o.page) \in Nat
      /\ o.enc_free \in Nat /\ o.ok \in BOOLEAN
      /\ \A p \in Ids(o) : NextOf(o)[p] = o.page[p].next_page /\ o.page[p] \in PageRecords
  BY OutputFacts
<1>2. PICK n \in Nat : n = Len(o.page) /\ DOMAIN o.page = 1 .. n /\ Ids(o) = 1 .. n
  BY <1>1, LenProperties DEF Ids
<1>3. heads \in [Sections -> Nat]
  <2>1. \A s \in Sections : s \in 1 .. Len(l)
    <3>1. PICK k \in Nat : k = Len(l) /\ k >= 4
      BY LenProperties
    <3>. QED BY <3>1 DEF Sections
  <2>2. \A s \in Sections : l[s] \in Ids(o)
    BY <2>1, ElementOfSeq
  <2>. QED BY <2>2 DEF Ids
<1>4. pages \in Seq(PageRecords) /\ Len(pages) = n /\ \A p \in 1 .. n : pages[p] = e(p)
  <2>1. \A p \in 1 .. n : e(p) \in PageRecords
    BY <1>1, <1>2, RecordTypes
  <2>. HIDE DEF e
  <2>2. pages \in [1 .. n -> PageRecords]
    BY <1>2, <2>1
  <2>3. pages \in Seq(PageRecords)
    BY <2>2 
  <2>4. \A p \in 1 .. n : pages[p] = e(p)
    BY <1>2
  <2>5. DOMAIN pages = 1 .. n /\ DOMAIN pages = 1 .. Len(pages) /\ Len(pages) \in Nat
    BY <2>2, <2>3, LenProperties
  <2>6. Len(pages) = n
    <3>. DEFINE k == Len(pages)
    <3>1. 1 .. k = 1 .. n /\ k \in Nat
      BY <2>5
    <3>. HIDE DEF k
    <3>2. k = n
      BY <3>1
    <3>. QED BY <3>2 DEF k
  <2>. QED BY <2>3, <2>4, <2>6
<1>5. \A p \in 1 .. n : e(p).next_page = IF \E s \in Sections : l[s] = p THEN NULL
                                         ELSE NextOf(o)[p]
  BY <1>1, <1>2, RecordTypes
<1>6. q = [page |-> pages, heads |-> heads, tails |-> heads,
           enc_free |-> o.enc_free, ok |-> o.ok]
  <2>1. o = [page |-> o.page, heads |-> o.heads, tails |-> o.tails,
             enc_free |-> o.enc_free, ok |-> o.ok]
    BY DEF Outputs
  <2>2. pages = [p \in DOMAIN o.page |-> e(p)]
    BY <1>2
  <2>3. q = [o EXCEPT !.heads = heads, !.tails = heads,
                      !.page = [p \in DOMAIN o.page |-> e(p)]]
    BY DEF Apart
  <2>. HIDE DEF q, heads, e, pages
  <2>. QED BY <2>1, <2>2, <2>3
<1>. HIDE DEF heads, e, pages
<1>7. q \in Outputs
  <2>. HIDE DEF q
  <2>. QED BY <1>1, <1>3, <1>4, <1>6 DEF Outputs
<1>8. q.page = pages /\ q.heads = heads /\ q.tails = heads /\ q.enc_free = o.enc_free
  <2>. HIDE DEF q
  <2>. QED BY <1>6
<1>. HIDE DEF q
<1>9. Ids(q) = 1 .. n /\ Len(q.page) = Len(o.page)
  BY <1>2, <1>4, <1>8 DEF Ids
<1>10. \A p \in Ids(q) : NextOf(q)[p] = q.page[p].next_page
  BY <1>7, OutputFacts
<1>11. \A p \in Ids(o) : NextOf(q)[p] = e(p).next_page
  BY <1>2, <1>4, <1>8, <1>9, <1>10
<1>12. \A p \in Ids(o) : NextOf(q)[p] = IF \E s \in Sections : l[s] = p THEN NULL
                                        ELSE NextOf(o)[p]
  BY <1>2, <1>5, <1>11
<1>. QED BY <1>7, <1>8, <1>9, <1>12 DEF IsApart, q, heads

LEMMA ApartLists ==
  ASSUME NEW o, NEW ls, OneList(o, ls), NEW v,
         ToSet(v) = ToSet(ls[1]) \ {ls[1][1], ls[1][2], ls[1][3], ls[1][4]}
  PROVE  LET ms == [s \in 0 .. 4 |-> IF s = 0 THEN ls[0] ELSE <<ls[1][s]>>]
         IN  PageLists(Apart(o, ls[1]), ms, ToSet(v))
<1>. DEFINE l  == ls[1]
            q  == Apart(o, l)
            ms == [s \in 0 .. 4 |-> IF s = 0 THEN ls[0] ELSE <<l[s]>>]
            S  == ToSet(v)
<1>1. /\ o \in Outputs /\ ls \in [0 .. 4 -> Seq(Nat)]
      /\ \A s \in 0 .. 4 : List(NextOf(o), FirstOf(o, s), ls[s])
      /\ \A s, t \in 0 .. 4 : s # t => ToSet(ls[s]) \cap ToSet(ls[t]) = {}
      /\ \A p \in Ids(o) : \E s \in 0 .. 4 : p \in ToSet(ls[s])
      /\ Len(l) >= 4 /\ \A s \in 2 .. 4 : ls[s] = <<>>
  BY DEF OneList, PageLists, HDR
<1>2. 0 \in 0 .. 4 /\ 1 \in 0 .. 4 /\ Sections = 1 .. 4
  BY DEF Sections
<1>3. /\ List(NextOf(o), o.enc_free, ls[0]) /\ List(NextOf(o), FirstOf(o, 1), l)
      /\ ToSet(ls[0]) \cap ToSet(l) = {}
  BY <1>1, <1>2 DEF FirstOf
<1>4. /\ l \in Seq(Ids(o)) /\ l \in Seq(Nat) /\ ToSet(l) \subseteq Ids(o)
      /\ ToSet(ls[0]) \subseteq Ids(o) /\ ls[0] \in Seq(Nat) /\ Len(l) \in Nat
  BY <1>1, <1>3, ListType
<1>5. IsApart(q, o, l)
  BY <1>1, <1>4, ApartFacts
<1>. HIDE DEF q, l
<1>6. /\ q \in Outputs /\ Len(q.page) = Len(o.page) /\ q.enc_free = o.enc_free
      /\ \A s \in Sections : q.heads[s] = l[s]
      /\ \A p \in Ids(o) : NextOf(q)[p] = IF \E s \in Sections : l[s] = p THEN NULL
                                          ELSE NextOf(o)[p]
  BY <1>5 DEF IsApart
<1>7. Ids(q) = Ids(o) /\ DOMAIN NextOf(q) = Ids(o) /\ DOMAIN NextOf(o) = Ids(o)
  BY <1>1, <1>6, OutputFacts DEF Ids
<1>8. /\ \A s \in 1 .. 4 : l[s] \in ToSet(l) /\ l[s] \in Ids(o) /\ s \in 1 .. Len(l)
      /\ \A s, t \in 1 .. 4 : s # t => l[s] # l[t]
  <2>1. \A s \in 1 .. 4 : s \in 1 .. Len(l)
    BY <1>1, <1>4
  <2>2. \A s \in 1 .. 4 : l[s] \in ToSet(l)
    BY <1>4, <2>1, ToSetIs
  <2>3. \A s, t \in 1 .. 4 : s # t => l[s] # l[t]
    BY <1>3, <2>1 DEF List, Distinct
  <2>. QED BY <1>4, <2>1, <2>2, <2>3
<1>9. List(NextOf(q), FirstOf(q, 0), ls[0])
  <2>1. \A p \in ToSet(ls[0]) : NextOf(q)[p] = NextOf(o)[p]
    <3>1. \A p \in ToSet(ls[0]) : p \in Ids(o) /\ ~ \E s \in Sections : l[s] = p
      BY <1>2, <1>3, <1>4, <1>8
    <3>. QED BY <1>6, <3>1
  <2>2. List(NextOf(q), o.enc_free, ls[0])
    BY <1>3, <1>7, <2>1, ListFrame
  <2>. QED BY <1>6, <2>2 DEF FirstOf
<1>10. ASSUME NEW s \in 1 .. 4
       PROVE  /\ List(NextOf(q), FirstOf(q, s), <<l[s]>>) /\ ToSet(<<l[s]>>) = {l[s]}
              /\ <<l[s]>> \in Seq(Nat)
  <2>. DEFINE p == l[s]
  <2>1. p \in DOMAIN NextOf(q) /\ NextOf(q)[p] = NULL /\ q.heads[s] = p /\ p \in Nat
    BY <1>2, <1>6, <1>7, <1>8 DEF Ids
  <2>. HIDE DEF p
  <2>2. List(NextOf(q), p, <<p>>) /\ ToSet(<<p>>) = {p}
    BY <2>1, OnePage
  <2>3. FirstOf(q, s) = p
    BY <2>1 DEF FirstOf
  <2>. QED BY <2>1, <2>2, <2>3 DEF p
<1>11. ms[0] = ls[0] /\ \A s \in 1 .. 4 : ms[s] = <<l[s]>>
  <2>1. \A s \in 1 .. 4 : s \in 0 .. 4 /\ s # 0
    OBVIOUS
  <2>. QED BY <1>2, <2>1
<1>12. \A s \in 0 .. 4 : s = 0 \/ s \in 1 .. 4
  OBVIOUS
<1>13. ms \in [0 .. 4 -> Seq(Nat)]
  <2>1. \A s \in 0 .. 4 : (IF s = 0 THEN ls[0] ELSE <<l[s]>>) \in Seq(Nat)
    BY <1>4, <1>10, <1>12
  <2>. QED BY <2>1
<1>. HIDE DEF ms
<1>14. S = ToSet(l) \ {l[1], l[2], l[3], l[4]}
  BY DEF l
<1>. HIDE DEF S
<1>15. \A s \in 1 .. 4 : l[s] \notin S
  <2>1. \A s \in 1 .. 4 : s = 1 \/ s = 2 \/ s = 3 \/ s = 4
    OBVIOUS
  <2>. QED BY <1>14, <2>1
<1>16. ASSUME NEW s \in 0 .. 4
       PROVE  List(NextOf(q), FirstOf(q, s), ms[s]) /\ ToSet(ms[s]) \cap S = {}
  <2>1. CASE s = 0
    BY <1>3, <1>9, <1>11, <1>14, <2>1
  <2>2. CASE s \in 1 .. 4
    BY <1>10, <1>11, <1>15, <2>2
  <2>. QED BY <1>12, <2>1, <2>2
<1>17. ASSUME NEW s \in 0 .. 4, NEW t \in 0 .. 4, s # t
       PROVE  ToSet(ms[s]) \cap ToSet(ms[t]) = {}
  <2>1. CASE s = 0
    <3>1. t \in 1 .. 4 /\ ToSet(ms[t]) = {l[t]} /\ l[t] \in ToSet(l)
      BY <1>8, <1>10, <1>11, <1>12, <1>17, <2>1
    <3>. QED BY <1>3, <1>11, <2>1, <3>1
  <2>2. CASE t = 0
    <3>1. s \in 1 .. 4 /\ ToSet(ms[s]) = {l[s]} /\ l[s] \in ToSet(l)
      BY <1>8, <1>10, <1>11, <1>12, <1>17, <2>2
    <3>. QED BY <1>3, <1>11, <2>2, <3>1
  <2>3. CASE s \in 1 .. 4 /\ t \in 1 .. 4
    <3>1. ToSet(ms[s]) = {l[s]} /\ ToSet(ms[t]) = {l[t]}
      BY <1>10, <1>11, <2>3
    <3>2. l[s] # l[t]
      BY <1>8, <1>17, <2>3
    <3>. QED BY <3>1, <3>2
  <2>. QED BY <1>12, <2>1, <2>2, <2>3
<1>18. ASSUME NEW p \in Ids(q) PROVE p \in S \/ \E s \in 0 .. 4 : p \in ToSet(ms[s])
  <2>1. PICK s \in 0 .. 4 : p \in ToSet(ls[s])
    BY <1>1, <1>7
  <2>2. s = 0 \/ s = 1
    <3>1. s = 0 \/ s = 1 \/ s \in 2 .. 4
      OBVIOUS
    <3>2. ToSet(<<>>) = {}
      BY ListEmpty
    <3>. QED BY <1>1, <2>1, <3>1, <3>2
  <2>3. CASE s = 0
    BY <1>2, <1>11, <2>1, <2>3
  <2>4. CASE s = 1
    <3>1. p \in ToSet(l)
      BY <2>1, <2>4 DEF l
    <3>2. CASE p \notin S
      <4>1. PICK t \in 1 .. 4 : p = l[t]
        <5>1. p = l[1] \/ p = l[2] \/ p = l[3] \/ p = l[4]
          BY <1>14, <3>1, <3>2
        <5>2. 1 \in 1 .. 4 /\ 2 \in 1 .. 4 /\ 3 \in 1 .. 4 /\ 4 \in 1 .. 4
          OBVIOUS
        <5>. QED BY <5>1, <5>2
      <4>2. p \in ToSet(ms[t]) /\ t \in 0 .. 4
        BY <1>10, <1>11, <4>1
      <4>. QED BY <4>2
    <3>. QED BY <3>2
  <2>. QED BY <2>2, <2>3, <2>4
<1>19. PageLists(q, ms, S)
  BY <1>6, <1>13, <1>16, <1>17, <1>18 DEF PageLists
<1>. QED BY <1>19 DEF q, ms, l, S

LEMMA UnsplicedLists ==
  ASSUME NEW o, Outputting(o)
  PROVE  Writing(Unspliced(o))
<1>1. PICK ls : OneList(o, ls)
  BY DEF Outputting
<1>. DEFINE l  == ls[1]
            q  == Apart(o, l)
            ms == [s \in 0 .. 4 |-> IF s = 0 THEN ls[0] ELSE <<l[s]>>]
            id == IF Len(l) > 4 THEN l[5] ELSE NULL
<1>2. /\ PageLists(o, ls, {}) /\ o \in Outputs /\ Len(l) >= 4
      /\ List(NextOf(o), o.heads[1], l)
  <2>1. 1 \in 0 .. 4
    OBVIOUS
  <2>. QED BY <1>1, <2>1 DEF OneList, PageLists, HDR, FirstOf
<1>3. l \in Seq(Ids(o)) /\ Len(l) \in Nat /\ Chain(o, o.heads[1]) = l
      /\ ToSet(l) \subseteq Ids(o)
  BY <1>2, ListType, ChainIs
<1>4. Unspliced(o) = FreelistOutput(q, id)
  BY <1>3 DEF Unspliced, Apart, HDR
<1>5. PICK v : List(NextOf(o), id, v) /\ ToSet(v) = ToSet(l) \ {l[1], l[2], l[3], l[4]}
  BY <1>2, <1>3, ListDrop
<1>6. PageLists(q, ms, ToSet(v))
  BY <1>1, <1>5, ApartLists
<1>7. IsApart(q, o, l)
  BY <1>2, <1>3, ApartFacts
<1>8. ms \in [0 .. 4 -> Seq(Nat)] /\ \A s \in Sections : ms[s] = <<l[s]>>
  <2>1. \A s \in Sections : s \in 0 .. 4 /\ s # 0
    BY DEF Sections
  <2>. QED BY <1>6, <2>1 DEF PageLists
<1>. HIDE DEF q, ms, l, id
<1>9. List(NextOf(q), id, v)
  <2>1. /\ DOMAIN NextOf(o) = Ids(o) /\ DOMAIN NextOf(q) = Ids(o)
    <3>1. q \in Outputs /\ Ids(q) = Ids(o)
      BY <1>7 DEF IsApart, Ids
    <3>. QED BY <1>2, <3>1, OutputFacts
  <2>2. \A p \in ToSet(v) : p \in Ids(o) /\ ~ \E s \in Sections : l[s] = p
    <3>1. \A s \in Sections : s = 1 \/ s = 2 \/ s = 3 \/ s = 4
      BY DEF Sections
    <3>. QED BY <1>3, <1>5, <3>1
  <2>3. \A p \in ToSet(v) : NextOf(q)[p] = NextOf(o)[p]
    BY <1>7, <2>2 DEF IsApart
  <2>. QED BY <1>5, <2>1, <2>3, ListFrame
<1>10. PICK zs : MoreFree(FreelistOutput(q, id), zs, q, ms, {})
  BY <1>6, <1>9, FreelistLists
<1>. DEFINE u == FreelistOutput(q, id)
<1>. HIDE DEF u
<1>11. PageLists(u, zs, {}) /\ u.tails = q.tails /\ \A s \in Sections : zs[s] = <<l[s]>>
  BY <1>8, <1>10 DEF MoreFree, u
<1>12. \A s \in Sections : zs[s] # <<>> /\ zs[s][Len(zs[s])] = l[s]
  <2>1. \A x : <<x>> # <<>> /\ Len(<<x>>) = 1 /\ <<x>>[1] = x
    OBVIOUS
  <2>. QED BY <1>11, <2>1
<1>13. Tailed(u, zs)
  <2>1. \A s \in Sections : q.tails[s] = l[s]
    BY <1>7 DEF IsApart
  <2>. QED BY <1>11, <1>12, <2>1 DEF Tailed
<1>14. Writable(u, zs)
  BY <1>11, <1>12, <1>13 DEF Writable
<1>. QED BY <1>4, <1>14 DEF Writing, u

-----------------------------------------------------------------------------
(* xd3_encode_init, which may fail at any page.                            *)

Paged(o) == \E ls : PageLists(o, ls, {})

LEMMA NoPagesLists ==
  LET ls == [s \in 0 .. 4 |-> <<>>]
  IN  PageLists(NoPages, ls, {}) /\ Tailed(NoPages, ls) /\ NoPages.ok
<1>. DEFINE ls == [s \in 0 .. 4 |-> <<>>]
            none == [s \in Sections |-> NULL]
<1>1. <<>> \in Seq(PageRecords) /\ Len(<<>>) = 0 /\ <<>> \in Seq(Nat)
  BY EmptySeq
<1>2. none \in [Sections -> Nat] /\ NULL \in Nat
  BY DEF NULL
<1>3. NoPages = [page |-> <<>>, heads |-> none, tails |-> none, enc_free |-> NULL,
                 ok |-> TRUE]
  BY DEF NoPages
<1>. HIDE DEF none
<1>4. NoPages \in Outputs
  <2>1. TRUE \in BOOLEAN
    OBVIOUS
  <2>. QED BY <1>1, <1>2, <1>3, <2>1 DEF Outputs
<1>5. /\ NoPages.page = <<>> /\ NoPages.heads = none /\ NoPages.tails = none
      /\ NoPages.enc_free = NULL /\ NoPages.ok = TRUE
  BY <1>3
<1>6. Ids(NoPages) = {}
  BY <1>1, <1>5 DEF Ids
<1>7. \A s \in 0 .. 4 : FirstOf(NoPages, s) = NULL
  <2>1. \A s \in 0 .. 4 : s # 0 => s \in Sections
    BY DEF Sections
  <2>. QED BY <1>5, <2>1 DEF FirstOf, none
<1>8. ls \in [0 .. 4 -> Seq(Nat)] /\ \A s \in 0 .. 4 : ls[s] = <<>>
  BY <1>1
<1>9. \A s \in Sections : ls[s] = <<>> /\ NoPages.tails[s] = NULL
  <2>1. \A s \in Sections : s \in 0 .. 4
    BY DEF Sections
  <2>. QED BY <1>5, <1>8, <2>1 DEF none
<1>. HIDE DEF ls
<1>10. \A s \in 0 .. 4 : List(NextOf(NoPages), FirstOf(NoPages, s), ls[s]) /\ ToSet(ls[s]) = {}
  BY <1>7, <1>8, ListEmpty
<1>11. PageLists(NoPages, ls, {})
  BY <1>4, <1>6, <1>8, <1>10 DEF PageLists
<1>12. Tailed(NoPages, ls)
  BY <1>9 DEF Tailed
<1>. QED BY <1>5, <1>11, <1>12 DEF ls

LEMMA InitLists ==
  ASSUME NEW o, o = AllocOutput(AllocOutput(AllocOutput(AllocOutput(NoPages, HDR), DATA), INST), ADDR)
  PROVE  Paged(o) /\ (o.ok => Writing(o))
<1>. DEFINE ls == [s \in 0 .. 4 |-> <<>>]
            a == AllocOutput(NoPages, 1)
            b == AllocOutput(a, 2)
            c == AllocOutput(b, 3)
            d == AllocOutput(c, 4)
<1>0. 1 \in Sections /\ 2 \in Sections /\ 3 \in Sections /\ 4 \in Sections
  BY DEF Sections
<1>1. PageLists(NoPages, ls, {}) /\ Tailed(NoPages, ls)
  BY NoPagesLists
<1>. HIDE DEF ls
<1>2. PICK as : Allocated(a, as, NoPages, ls, 1)
  BY <1>0, <1>1, AllocatedLists
<1>. HIDE DEF a
<1>3. PICK bs : Allocated(b, bs, a, as, 2)
  BY <1>0, <1>2, AllocatedLists DEF Allocated
<1>. HIDE DEF b
<1>4. PICK cs : Allocated(c, cs, b, bs, 3)
  BY <1>0, <1>3, AllocatedLists DEF Allocated
<1>. HIDE DEF c
<1>5. PICK ds : Allocated(d, ds, c, cs, 4)
  BY <1>0, <1>4, AllocatedLists DEF Allocated
<1>. HIDE DEF d
<1>6. ASSUME d.ok PROVE Writable(d, ds)
  <2>0. 1 # 2 /\ 1 # 3 /\ 1 # 4 /\ 2 # 3 /\ 2 # 4 /\ 3 # 4
    OBVIOUS
  <2>1. ds[4] # <<>> /\ c.ok /\ ds[1] = cs[1] /\ ds[2] = cs[2] /\ ds[3] = cs[3]
    BY <1>0, <1>5, <1>6, <2>0 DEF Allocated
  <2>2. cs[3] # <<>> /\ b.ok /\ cs[1] = bs[1] /\ cs[2] = bs[2]
    BY <1>0, <1>4, <2>0, <2>1 DEF Allocated
  <2>3. bs[2] # <<>> /\ a.ok /\ bs[1] = as[1]
    BY <1>0, <1>3, <2>0, <2>2 DEF Allocated
  <2>4. as[1] # <<>>
    BY <1>2, <2>3 DEF Allocated
  <2>5. \A s \in Sections : s = 1 \/ s = 2 \/ s = 3 \/ s = 4
    BY DEF Sections
  <2>6. \A s \in Sections : ds[s] # <<>>
    BY <2>1, <2>2, <2>3, <2>4, <2>5
  <2>. QED BY <1>5, <2>6 DEF Writable, Allocated
<1>7. o = d
  BY DEF a, b, c, d, HDR, DATA, INST, ADDR
<1>8. PageLists(d, ds, {})
  BY <1>5 DEF Allocated
<1>. QED BY <1>6, <1>7, <1>8 DEF Paged, Writing

-----------------------------------------------------------------------------
(* xd3_free_stream.                                                        *)

LEMMA JoinDistinct ==
  ASSUME NEW T, NEW u \in Seq(T), NEW v \in Seq(T), Distinct(u), Distinct(v),
         ToSet(u) \cap ToSet(v) = {}
  PROVE  u \o v \in Seq(T) /\ Distinct(u \o v) /\ ToSet(u \o v) = ToSet(u) \cup ToSet(v)
<1>. DEFINE w == u \o v
<1>2. PICK m \in Nat : m = Len(u)
  BY EmptySeq
<1>3. PICK n \in Nat : n = Len(v)
  BY EmptySeq
<1>4. /\ w \in Seq(T) /\ Len(w) = m + n
      /\ \A i \in 1 .. m + n : w[i] = IF i <= m THEN u[i] ELSE v[i - m]
  BY <1>2, <1>3, ConcatProperties
<1>5. /\ \A i \in 1 .. m : u[i] \in ToSet(u)
      /\ \A i \in 1 .. n : v[i] \in ToSet(v)
  BY <1>2, <1>3, ToSetIs
<1>. HIDE DEF w
<1>6. ToSet(w) = ToSet(u) \cup ToSet(v)
  <2>1. /\ ToSet(w) = {w[k] : k \in 1 .. m + n} /\ ToSet(u) = {u[k] : k \in 1 .. m}
        /\ ToSet(v) = {v[k] : k \in 1 .. n}
    BY <1>2, <1>3, <1>4, ToSetIs
  <2>2. \A k \in 1 .. m : w[k] = u[k] /\ k \in 1 .. m + n
    BY <1>4
  <2>3. \A k \in 1 .. n : w[m + k] = v[k] /\ m + k \in 1 .. m + n
    <3>. TAKE k \in 1 .. n
    <3>1. m + k \in 1 .. m + n /\ ~ (m + k <= m) /\ (m + k) - m = k
      OBVIOUS
    <3>. QED BY <1>4, <3>1
  <2>4. \A k \in 1 .. m + n : w[k] \in ToSet(u) \cup ToSet(v)
    <3>. TAKE k \in 1 .. m + n
    <3>1. ~ (k <= m) => k - m \in 1 .. n
      OBVIOUS
    <3>2. CASE k <= m
      BY <1>4, <1>5, <3>2
    <3>3. CASE ~ (k <= m)
      BY <1>4, <1>5, <3>1, <3>3
    <3>. QED BY <3>2, <3>3
  <2>5. ToSet(w) \subseteq ToSet(u) \cup ToSet(v)
    BY <2>1, <2>4
  <2>6. ToSet(u) \subseteq ToSet(w) /\ ToSet(v) \subseteq ToSet(w)
    BY <2>1, <2>2, <2>3
  <2>. QED BY <2>5, <2>6
<1>7. Distinct(w)
  <2>. SUFFICES ASSUME NEW i \in 1 .. m + n, NEW j \in 1 .. m + n, w[i] = w[j]
                PROVE  i = j
    BY <1>4 DEF Distinct
  <2>1. CASE i <= m /\ j <= m
    <3>1. u[i] = u[j] /\ i \in 1 .. m /\ j \in 1 .. m
      BY <1>4, <2>1
    <3>. QED BY <1>2, <3>1 DEF Distinct
  <2>2. CASE ~ (i <= m) /\ ~ (j <= m)
    <3>1. v[i - m] = v[j - m] /\ i - m \in 1 .. n /\ j - m \in 1 .. n
      BY <1>4, <2>2
    <3>2. i - m = j - m
      BY <1>3, <3>1 DEF Distinct
    <3>. QED BY <3>2
  <2>3. CASE i <= m /\ ~ (j <= m)
    <3>1. w[i] = u[i] /\ w[j] = v[j - m] /\ i \in 1 .. m /\ j - m \in 1 .. n
      BY <1>4, <2>3
    <3>. QED BY <1>5, <3>1
  <2>4. CASE ~ (i <= m) /\ j <= m
    <3>1. w[j] = u[j] /\ w[i] = v[i - m] /\ j \in 1 .. m /\ i - m \in 1 .. n
      BY <1>4, <2>4
    <3>. QED BY <1>5, <3>1
  <2>. QED BY <2>1, <2>2, <2>3, <2>4
<1>. QED BY <1>4, <1>6, <1>7 DEF w

\* Each page is in one of the lists, once.
LEMMA FreeOutputFacts ==
  ASSUME NEW o, Paged(o)
  PROVE  Len(FreeOutput(o)) = Len(o.page) /\ Range(FreeOutput(o)) = Ids(o)
<1>1. PICK ls : PageLists(o, ls, {})
  BY DEF Paged
<1>. DEFINE T == Ids(o)
            a == ls[1] \o ls[2]
            b == a \o ls[3]
            c == b \o ls[4]
            d == c \o ls[0]
<1>2. o \in Outputs
  BY <1>1 DEF PageLists
<1>3. /\ 0 \in 0 .. 4 /\ 1 \in 0 .. 4 /\ 2 \in 0 .. 4 /\ 3 \in 0 .. 4 /\ 4 \in 0 .. 4
      /\ 0 # 1 /\ 0 # 2 /\ 0 # 3 /\ 0 # 4 /\ 1 # 2 /\ 1 # 3 /\ 1 # 4
      /\ 2 # 3 /\ 2 # 4 /\ 3 # 4
  OBVIOUS
<1>4. \A s \in 0 .. 4 : /\ ls[s] \in Seq(T) /\ Distinct(ls[s])
                        /\ Chain(o, FirstOf(o, s)) = ls[s]
  <2>. SUFFICES ASSUME NEW s \in 0 .. 4
                PROVE  /\ ls[s] \in Seq(T) /\ Distinct(ls[s])
                       /\ Chain(o, FirstOf(o, s)) = ls[s]
    OBVIOUS
  <2>1. List(NextOf(o), FirstOf(o, s), ls[s])
    BY <1>1 DEF PageLists
  <2>. QED BY <1>2, <2>1, ListType, ChainIs DEF List
<1>5. FreeOutput(o) = d
  <2>1. /\ Chain(o, o.enc_free) = ls[0] /\ Chain(o, o.heads[1]) = ls[1]
        /\ Chain(o, o.heads[2]) = ls[2] /\ Chain(o, o.heads[3]) = ls[3]
        /\ Chain(o, o.heads[4]) = ls[4]
    BY <1>3, <1>4 DEF FirstOf
  <2>. QED BY <2>1 DEF FreeOutput, HDR, DATA, INST, ADDR
<1>6. \A s, t \in 0 .. 4 : s # t => ToSet(ls[s]) \cap ToSet(ls[t]) = {}
  BY <1>1 DEF PageLists
<1>. HIDE DEF T
<1>7. a \in Seq(T) /\ Distinct(a) /\ ToSet(a) = ToSet(ls[1]) \cup ToSet(ls[2])
  BY <1>3, <1>4, <1>6, JoinDistinct
<1>. HIDE DEF a
<1>8. b \in Seq(T) /\ Distinct(b) /\ ToSet(b) = ToSet(a) \cup ToSet(ls[3])
  <2>1. ToSet(a) \cap ToSet(ls[3]) = {}
    BY <1>3, <1>6, <1>7
  <2>. QED BY <1>3, <1>4, <1>7, <2>1, JoinDistinct
<1>. HIDE DEF b
<1>9. c \in Seq(T) /\ Distinct(c) /\ ToSet(c) = ToSet(b) \cup ToSet(ls[4])
  <2>1. ToSet(b) \cap ToSet(ls[4]) = {}
    <3>1. /\ ToSet(ls[1]) \cap ToSet(ls[4]) = {} /\ ToSet(ls[2]) \cap ToSet(ls[4]) = {}
          /\ ToSet(ls[3]) \cap ToSet(ls[4]) = {}
      BY <1>3, <1>6
    <3>2. ToSet(b) = ToSet(ls[1]) \cup ToSet(ls[2]) \cup ToSet(ls[3])
      BY <1>7, <1>8
    <3>. QED BY <3>1, <3>2
  <2>2. /\ b \in Seq(T) /\ Distinct(b) /\ ls[4] \in Seq(T) /\ Distinct(ls[4])
    BY <1>3, <1>4, <1>8
  <2>. QED BY <2>1, <2>2, JoinDistinct
<1>. HIDE DEF c
<1>10. d \in Seq(T) /\ Distinct(d) /\ ToSet(d) = ToSet(c) \cup ToSet(ls[0])
  <2>1. ToSet(c) \cap ToSet(ls[0]) = {}
    <3>1. /\ ToSet(ls[1]) \cap ToSet(ls[0]) = {} /\ ToSet(ls[2]) \cap ToSet(ls[0]) = {}
          /\ ToSet(ls[3]) \cap ToSet(ls[0]) = {} /\ ToSet(ls[4]) \cap ToSet(ls[0]) = {}
      BY <1>3, <1>6
    <3>2. ToSet(c) = ToSet(ls[1]) \cup ToSet(ls[2]) \cup ToSet(ls[3]) \cup ToSet(ls[4])
      BY <1>7, <1>8, <1>9
    <3>. QED BY <3>1, <3>2
  <2>2. /\ c \in Seq(T) /\ Distinct(c) /\ ls[0] \in Seq(T) /\ Distinct(ls[0])
    BY <1>3, <1>4, <1>9
  <2>. QED BY <2>1, <2>2, JoinDistinct
<1>. HIDE DEF d
<1>11. \A p \in T : p \in ToSet(d)
  <2>. SUFFICES ASSUME NEW p \in T PROVE p \in ToSet(d)
    OBVIOUS
  <2>1. PICK s \in 0 .. 4 : p \in ToSet(ls[s])
    BY <1>1 DEF PageLists, T
  <2>2. s = 0 \/ s = 1 \/ s = 2 \/ s = 3 \/ s = 4
    OBVIOUS
  <2>. QED BY <1>7, <1>8, <1>9, <1>10, <2>1, <2>2
<1>12. ToSet(d) = T
  BY <1>10, <1>11, ToSetIs
<1>13. Len(d) = Len(o.page)
  <2>1. PICK n \in Nat : n = Len(o.page) /\ T = 1 .. n
    BY <1>2, OutputFacts DEF Ids, T
  <2>. QED BY <1>10, <1>12, <2>1, ListLength
<1>14. Range(d) = ToSet(d)
  <2>1. DOMAIN d = 1 .. Len(d)
    BY <1>10, LenProperties
  <2>2. Range(d) = {d[k] : k \in 1 .. Len(d)}
    BY <2>1 DEF Range
  <2>3. ToSet(d) = {d[k] : k \in 1 .. Len(d)}
    BY <1>10, ToSetIs
  <2>. QED BY <2>2, <2>3
<1>. QED BY <1>5, <1>12, <1>13, <1>14 DEF T

LEMMA PagedStates ==
  ASSUME NEW o
  PROVE  Writing(o) \/ Outputting(o) => Paged(o)
BY DEF Writing, Writable, Outputting, OneList, Paged

\* The types of the output, of which TypeOK speaks.
LEMMA PagedTypes ==
  ASSUME NEW o, Paged(o)
  PROVE  /\ o \in Outputs
         /\ \A p \in Ids(o) : o.page[p].next_page \in Ids(o) \cup {NULL}
         /\ o.heads \in [Sections -> Ids(o) \cup {NULL}]
<1>1. PICK ls : PageLists(o, ls, {})
  BY DEF Paged
<1>2. o \in Outputs /\ \A s \in 0 .. 4 : List(NextOf(o), FirstOf(o, s), ls[s])
  BY <1>1 DEF PageLists
<1>3. ASSUME NEW p \in Ids(o) PROVE o.page[p].next_page \in Ids(o) \cup {NULL}
  <2>1. PICK s \in 0 .. 4 : p \in ToSet(ls[s])
    BY <1>1 DEF PageLists
  <2>2. List(NextOf(o), FirstOf(o, s), ls[s])
    BY <1>2
  <2>3. ls[s] \in Seq(Ids(o))
    BY <1>2, <2>2, ListType
  <2>4. PICK n \in Nat : n = Len(ls[s])
    BY <2>3, LenProperties
  <2>5. PICK k \in 1 .. n : p = ls[s][k]
    BY <2>1, <2>3, <2>4, ToSetIs
  <2>6. NextOf(o)[p] = IF k = n THEN NULL ELSE ls[s][k + 1]
    BY <2>2, <2>4, <2>5 DEF List
  <2>7. k # n => k + 1 \in 1 .. n
    OBVIOUS
  <2>8. k # n => ls[s][k + 1] \in Ids(o)
    BY <2>3, <2>4, <2>7, ElementOfSeq
  <2>9. NextOf(o)[p] = o.page[p].next_page
    BY <1>2, OutputFacts
  <2>. QED BY <2>6, <2>8, <2>9
<1>4. ASSUME NEW s \in Sections PROVE o.heads[s] \in Ids(o) \cup {NULL}
  <2>1. s \in 0 .. 4 /\ s # 0
    BY DEF Sections
  <2>2. List(NextOf(o), o.heads[s], ls[s])
    BY <1>2, <2>1 DEF FirstOf
  <2>3. /\ o.heads[s] = NULL <=> ls[s] = <<>>
        /\ ls[s] # <<>> => o.heads[s] = ls[s][1] /\ 1 \in 1 .. Len(ls[s])
        /\ ls[s] \in Seq(Ids(o))
    BY <1>2, <2>2, ListType
  <2>4. ls[s] # <<>> => ls[s][1] \in Ids(o)
    BY <2>3, ElementOfSeq
  <2>. QED BY <2>3, <2>4
<1>5. o.heads \in [Sections -> Nat]
  BY <1>2, OutputFacts
<1>6. o.heads \in [Sections -> Ids(o) \cup {NULL}]
  BY <1>4, <1>5
<1>. QED BY <1>2, <1>3, <1>6
-----------------------------------------------------------------------------
(* What is written for an instruction.                                     *)

\* The codes that the table can give are bytes.
LEMMA TableFacts ==
  Radix = 128 /\ Byte = 0 .. 255 /\ Modes = 0 .. 8 /\ SNear = 4 /\ SSame = 3
BY EncodeAssumption DEF Desc, Byte, Modes, SameStart

\* An instruction that is held back, or none.
Insts == [type : 0 .. 11, size : Nat, code1 : Byte, code2 : {NoCode}]

LEMMA SingleCodeType ==
  ASSUME NEW t \in 1 .. 11, NEW n \in Nat, NEW i, i.type = t, i.size = n
  PROVE  SingleCode(i) \in Byte
<1>1. Byte = 0 .. 255
  BY TableFacts
<1>2. CASE t = RUN
  BY <1>1, <1>2 DEF SingleCode
<1>3. CASE t = ADD
  <2>1. SingleCode(i) = IF n <= 17 THEN 1 + n ELSE 1
    BY <1>3 DEF SingleCode, ADD, RUN
  <2>. QED BY <1>1, <2>1
<1>4. CASE t # RUN /\ t # ADD
  <2>1. SingleCode(i) = 19 + 16 * (t - 3) + (IF n \in 4 .. 18 THEN n - 3 ELSE 0)
    BY <1>4 DEF SingleCode, CPY
  <2>2. t \in 3 .. 11
    BY <1>4 DEF RUN, ADD
  <2>. QED BY <1>1, <2>1, <2>2
<1>. QED BY <1>2, <1>3, <1>4

LEMMA PairCodeType ==
  ASSUME NEW p \in Insts, NEW t \in 1 .. 11, NEW n \in Nat, NEW i, i.type = t, i.size = n
  PROVE  PairCode(p, i) \in Byte
<1>1. Byte = 0 .. 255
  BY TableFacts
<1>2. p.type \in 0 .. 11 /\ p.size \in Nat /\ p.code2 = 0
  BY DEF Insts, NoCode
<1>3. CASE t = ADD
  <2>1. PairCode(p, i) = IF n = 1 /\ p.size = 4 /\ p.type >= 3
                         THEN 247 + p.type - 3 ELSE 0
    BY <1>2, <1>3 DEF PairCode, CPY
  <2>. QED BY <1>1, <1>2, <2>1
<1>4. CASE t # ADD /\ (t = RUN \/ p.type # ADD \/ p.size > 4)
  BY <1>1, <1>2, <1>4 DEF PairCode
<1>5. CASE t # ADD /\ t # RUN /\ p.type = ADD /\ ~ (p.size > 4)
  <2>1. t \in 3 .. 11
    BY <1>5 DEF RUN, ADD
  <2>. DEFINE mode == t - 3
  <2>2. PairCode(p, i) = IF n \in 4 .. 6 /\ mode <= 5
                         THEN 163 + mode * 12 + 3 * (p.size - 1) + n - 4
                         ELSE IF n = 4 /\ mode >= 6 THEN 235 + (mode - 6) * 4 + p.size - 1
                         ELSE 0
    BY <1>2, <1>5 DEF PairCode, CPY
  <2>3. p.size \in 0 .. 4 /\ mode \in 0 .. 8
    BY <1>2, <1>5, <2>1
  <2>. HIDE DEF mode
  <2>. QED BY <1>1, <2>2, <2>3
<1>. QED BY <1>3, <1>4, <1>5

LEMMA OneByte ==
  ASSUME NEW b \in Byte
  PROVE  <<b>> \in Seq(Byte)
OBVIOUS

LEMMA OneCall ==
  ASSUME NEW s \in Sections, NEW bytes \in Seq(Byte)
  PROVE  << <<s, bytes>> >> \in Calls
<1>1. <<s, bytes>> \in Sections \X Seq(Byte)
  OBVIOUS
<1>. QED BY <1>1 DEF Calls

LEMMA JoinedCalls ==
  ASSUME NEW a \in Calls, NEW b \in Calls
  PROVE  a \o b \in Calls
BY ConcatProperties DEF Calls

LEMMA NoCalls == <<>> \in Calls
BY EmptySeq DEF Calls

LEMMA EmitSingleType ==
  ASSUME NEW i \in Insts
  PROVE  EmitSingle(i) \in Calls
<1>1. i.code1 \in Byte /\ i.size \in Nat /\ INST \in Sections
  BY DEF Insts, INST, Sections
<1>2. << <<INST, <<i.code1>> >> >> \in Calls
  BY <1>1, OneByte, OneCall
<1>3. << <<INST, EmitInt(i.size)>> >> \in Calls
  BY <1>1, EmitIntFacts, OneCall
<1>. QED BY <1>2, <1>3, NoCalls, JoinedCalls DEF EmitSingle

LEMMA EmitDoubleType ==
  ASSUME NEW code \in Byte
  PROVE  EmitDouble(code) \in Calls
<1>1. INST \in Sections
  BY DEF INST, Sections
<1>. QED BY <1>1, OneByte, OneCall DEF EmitDouble
-----------------------------------------------------------------------------
(* The invariant of the coding: the matches that are left are inside the   *)
(* window and inside what they copy from.                                  *)

Encodable(i) ==
  /\ i.type \in {ADD, RUN, CPY} /\ i.pos \in Nat /\ i.size \in Nat \ {0}
  /\ i.pos + i.size <= avail_in
  /\ i.type = RUN => i.xtra \in Byte
  /\ i.type = CPY =>
       /\ i.xtra \in BOOLEAN /\ i.addr \in Nat
       /\ IF i.xtra THEN srcwin.base <= i.addr /\ i.addr + i.size <= srcwin.base + srcwin.len
          ELSE i.addr < i.pos
AllEncodable(l) == \E T : l \in Seq(T) /\ \A m \in T : Encodable(m)

CodeInv ==
  /\ acache \in Cache /\ unencoded_offset \in Nat /\ iout \in Insts
  /\ srcwin.base \in Nat /\ srcwin.len \in Nat /\ srcwin.len <= Len(Source)
  /\ enc_state \in WindowStates => avail_in <= cfg.winsize
  /\ enc_state = "ENC_INSTR" => AllEncodable(todo)

\* The window is input that has been handed over.
LEMMA WindowType ==
  ASSUME EncInv, enc_state \in WindowStates
  PROVE  /\ Window \in Seq(Byte) /\ Len(Window) = avail_in
         /\ Window = Piece(total_in, avail_in) /\ total_in + avail_in <= fed
<1>1. /\ total_in \in Nat /\ avail_in \in Nat /\ buf_avail \in Nat /\ buf_leftavail \in Nat
      /\ fed \in Nat
  BY CfgFacts
<1>2. Window = Piece(total_in, avail_in)
  BY DEF EncInv, WindowTrue
<1>3. Pending = avail_in
  BY DEF EncInv, Control, Pending, WindowStates
<1>4. LeftOver \in Nat
  BY <1>1 DEF LeftOver
<1>5. fed = total_in + avail_in + buf_avail + LeftOver
  BY <1>3 DEF EncInv, Accounted
<1>6. total_in + avail_in <= fed
  BY <1>1, <1>4, <1>5
<1>. QED BY <1>1, <1>2, <1>6, PieceType

\* What xd3_encode_address gives for a copy that is left.
LEMMA CopyAddressType ==
  ASSUME EncInv, CodeInv, enc_state = "ENC_INSTR", NEW i, Encodable(i), i.type = CPY
  PROVE  /\ CopyAddress(i).mode \in 0 .. 8 /\ CopyAddress(i).bytes \in Seq(Byte)
         /\ CopyAddress(i).cache \in Cache
<1>. DEFINE a == IF i.xtra THEN i.addr - srcwin.base ELSE srcwin.len + i.addr
            h == i.pos + srcwin.len
<1>1. /\ i.pos \in Nat /\ i.size \in Nat \ {0} /\ i.pos + i.size <= avail_in
      /\ i.xtra \in BOOLEAN /\ i.addr \in Nat
      /\ IF i.xtra THEN srcwin.base <= i.addr /\ i.addr + i.size <= srcwin.base + srcwin.len
         ELSE i.addr < i.pos
  BY DEF Encodable
<1>2. /\ acache \in Cache /\ srcwin.base \in Nat /\ srcwin.len \in Nat
      /\ srcwin.len <= Len(Source) /\ avail_in <= cfg.winsize
  BY DEF CodeInv, WindowStates
<1>3. /\ cfg.winsize \in Nat /\ cfg.winsize + Len(Source) < UsizeMod /\ Len(Source) \in Nat
      /\ UsizeMod \in Nat /\ avail_in \in Nat
  <2>1. cfg \in Configs /\ avail_in \in Nat
    BY DEF EncInv, InputTypes
  <2>2. Len(Source) \in Nat
    BY SourceAssumption, LenProperties
  <2>. QED BY <2>1, <2>2, EncodeAssumption, IntAssumption
<1>4. a \in Nat /\ h \in Nat /\ a < h
  <2>1. CASE i.xtra
    <3>1. srcwin.base <= i.addr /\ i.addr + i.size <= srcwin.base + srcwin.len
      BY <1>1, <2>1
    <3>2. a = i.addr - srcwin.base
      BY <2>1
    <3>3. \A x, y, z, b, p \in Nat : z # 0 /\ b <= x /\ x + z <= b + y =>
            x - b \in Nat /\ p + y \in Nat /\ x - b < p + y
      OBVIOUS
    <3>. HIDE DEF a
    <3>. QED BY <1>1, <1>2, <3>1, <3>2, <3>3
  <2>2. CASE ~ i.xtra
    <3>1. i.addr < i.pos /\ a = srcwin.len + i.addr
      BY <1>1, <2>2
    <3>. HIDE DEF a
    <3>. QED BY <1>1, <1>2, <3>1
  <2>. QED BY <2>1, <2>2
<1>5. h < UsizeMod
  BY <1>1, <1>2, <1>3
<1>6. a \in Usize /\ h \in Usize
  <2>. HIDE DEF a, h
  <2>. QED BY <1>3, <1>4, <1>5 DEF Usize
<1>7. CopyAddress(i) = EncodeAddress(acache, a, h)
  BY DEF CopyAddress
<1>. HIDE DEF a, h
<1>8. /\ EncodeAddress(acache, a, h).mode \in Modes
      /\ EncodeAddress(acache, a, h).bytes \in Seq(Byte)
      /\ EncodeAddress(acache, a, h).cache = UpdateCache(acache, a)
  BY <1>2, <1>4, <1>6, EncodedIsDecoded
<1>9. UpdateCache(acache, a) \in Cache
  BY <1>2, <1>6, UpdateCacheType
<1>. QED BY <1>7, <1>8, <1>9, TableFacts

LEMMA EmitOperandType ==
  ASSUME EncInv, CodeInv, enc_state = "ENC_INSTR", NEW i, Encodable(i)
  PROVE  EmitOperand(i) \in Calls
<1>1. DATA \in Sections /\ ADDR \in Sections
  BY DEF DATA, ADDR, Sections
<1>2. ADD # RUN /\ ADD # CPY /\ RUN # CPY
  BY DEF ADD, RUN, CPY
<1>3. CASE i.type = ADD
  <2>1. i.pos \in Nat /\ i.size \in Nat /\ i.pos + i.size <= avail_in
    BY DEF Encodable
  <2>2. SubSeq(Window, i.pos + 1, i.pos + i.size) \in Seq(Byte)
    <3>1. enc_state \in WindowStates
      BY DEF WindowStates
    <3>2. Window \in Seq(Byte) /\ i.pos + i.size <= Len(Window)
      BY <2>1, <3>1, WindowType
    <3>. QED BY <2>1, <3>2, SubSeqType
  <2>. DEFINE bytes == SubSeq(Window, i.pos + 1, i.pos + i.size)
  <2>3. EmitOperand(i) = << <<DATA, bytes>> >>
    BY <1>2, <1>3 DEF EmitOperand
  <2>. HIDE DEF bytes
  <2>4. bytes \in Seq(Byte)
    BY <2>2 DEF bytes
  <2>. QED BY <1>1, <2>3, <2>4, OneCall
<1>4. CASE i.type = RUN
  <2>1. <<i.xtra>> \in Seq(Byte)
    BY <1>4, OneByte DEF Encodable
  <2>2. EmitOperand(i) = << <<DATA, <<i.xtra>> >> >>
    BY <1>2, <1>4 DEF EmitOperand
  <2>. QED BY <1>1, <2>1, <2>2, OneCall
<1>5. CASE i.type = CPY
  <2>1. CopyAddress(i).bytes \in Seq(Byte)
    BY <1>5, CopyAddressType
  <2>2. EmitOperand(i) = << <<ADDR, CopyAddress(i).bytes>> >>
    BY <1>2, <1>5 DEF EmitOperand
  <2>. QED BY <1>1, <2>1, <2>2, OneCall
<1>. QED BY <1>3, <1>4, <1>5 DEF Encodable

\* What xd3_iopt_finish_encoding holds back and what it writes.
LEMMA FinishFacts ==
  ASSUME EncInv, CodeInv, enc_state = "ENC_INSTR", Writing(out),
         NEW i, Encodable(i), FinishEncoding(i)
  PROVE  /\ acache' \in Cache /\ unencoded_offset' \in Nat /\ iout' \in Insts
         /\ Writing(out')
         /\ UNCHANGED <<cfg, client, input, enc_state, current_window, total_in, srcwin>>
         /\ UNCHANGED <<enc_current, avail_out>> /\ ret' \in {ret, "ENOMEM"}
<1>. DEFINE type  == IF i.type = CPY THEN CPY + CopyAddress(i).mode ELSE i.type
            code  == SingleCode([type |-> type, size |-> i.size])
            coded == [type |-> type, size |-> i.size, code2 |-> NoCode, code1 |-> code]
            pair  == IF iout = NoInst THEN NoCode ELSE PairCode(iout, coded)
            rest  == IF iout = NoInst THEN <<>>
                     ELSE IF pair # NoCode THEN EmitDouble(pair) ELSE EmitSingle(iout)
<1>1. /\ acache' = IF i.type = CPY THEN CopyAddress(i).cache ELSE acache
      /\ unencoded_offset' = unencoded_offset + i.size
      /\ iout' = IF pair # NoCode THEN NoInst ELSE coded
      /\ Written(EmitAll(out, EmitOperand(i) \o rest))
      /\ UNCHANGED <<cfg, client, input, enc_state, current_window, total_in, srcwin>>
      /\ UNCHANGED <<enc_current, avail_out>>
  BY DEF FinishEncoding
<1>2. acache \in Cache /\ unencoded_offset \in Nat /\ iout \in Insts
  BY DEF CodeInv
<1>3. i.type \in {ADD, RUN, CPY} /\ i.size \in Nat
  BY DEF Encodable
<1>4. type \in 1 .. 11
  <2>1. CASE i.type = CPY
    <3>1. CopyAddress(i).mode \in 0 .. 8
      BY <2>1, CopyAddressType
    <3>. QED BY <2>1, <3>1 DEF CPY
  <2>2. CASE i.type # CPY
    BY <1>3, <2>2 DEF ADD, RUN, CPY
  <2>. QED BY <2>1, <2>2
<1>. HIDE DEF type
<1>5. code \in Byte
  BY <1>3, <1>4, SingleCodeType
<1>. HIDE DEF code
<1>6. coded.type = type /\ coded.size = i.size
  OBVIOUS
<1>7. coded \in Insts
  BY <1>3, <1>4, <1>5 DEF Insts
<1>. HIDE DEF coded
<1>8. NoInst \in Insts /\ NoCode \in Byte
  BY TableFacts DEF NoInst, Insts, NOOP, NoCode
<1>9. pair \in Byte
  BY <1>2, <1>3, <1>4, <1>6, <1>8, PairCodeType
<1>. HIDE DEF pair
<1>10. rest \in Calls
  BY <1>2, <1>9, NoCalls, EmitDoubleType, EmitSingleType
<1>. HIDE DEF rest
<1>11. EmitOperand(i) \o rest \in Calls
  BY <1>10, EmitOperandType, JoinedCalls
<1>12. Writing(out') /\ ret' \in {ret, "ENOMEM"}
  BY <1>1, <1>11, EmitAllWritable DEF Written, Return
<1>13. acache' \in Cache
  BY <1>1, <1>2, CopyAddressType
<1>14. unencoded_offset' \in Nat /\ iout' \in Insts
  BY <1>1, <1>2, <1>3, <1>7, <1>8
<1>. QED BY <1>1, <1>12, <1>13, <1>14

\* String matching: whatever the matches and the source window, the copies are
\* inside what they copy from.
LEMMA MatchFacts ==
  ASSUME EncInv, enc_state \in WindowStates, NEW m \in TrueMatches(Window)
  PROVE  /\ m.type \in {RUN, CPY} /\ m.pos \in Nat /\ m.size \in Nat \ {0}
         /\ m.pos + m.size <= avail_in
         /\ m.type = RUN => m.xtra \in Byte
         /\ m.type = CPY =>
              /\ m.xtra \in BOOLEAN /\ m.addr \in Nat
              /\ IF m.xtra THEN m.addr + m.size <= Len(Source) ELSE m.addr < m.pos
<1>. DEFINE win == Window
            Inside == {x \in (0 .. Len(win) - 1) \X (MIN_MATCH .. Len(win)) :
                         x[1] + x[2] <= Len(win)}
            Match(type, x, addr, xtra) ==
              [type |-> type, pos |-> x[1], size |-> x[2], addr |-> addr, xtra |-> xtra]
            Same(x, from, a) == \A k \in 1 .. x[2] : from[a + k] = win[x[1] + k]
            Runs == {Match(RUN, x, 0, win[x[1] + 1]) :
                       x \in {y \in Inside : \A k \in 2 .. y[2] : win[y[1] + k] = win[y[1] + 1]}}
            Here == {Match(CPY, y[1], y[2], FALSE) :
                       y \in {z \in Inside \X (0 .. Len(win)) :
                               z[2] < z[1][1] /\ Same(z[1], win, z[2])}}
            There == {Match(CPY, y[1], y[2], TRUE) :
                        y \in {z \in Inside \X (0 .. Len(Source)) :
                                /\ cfg.src /\ z[2] + z[1][2] <= Len(Source)
                                /\ Same(z[1], Source, z[2])}}
<1>0. RUN # CPY /\ MIN_MATCH = 4
  BY DEF RUN, CPY, MIN_MATCH
<1>1. PICK n \in Nat : n = Len(win) /\ n = avail_in
  BY WindowType, LenProperties
<1>2. Window \in Seq(Byte) /\ Len(Source) \in Nat
  BY WindowType, SourceAssumption, LenProperties
<1>3. m \in Runs \cup Here \cup There
  BY DEF TrueMatches
<1>4. \A x \in Inside : /\ x[1] \in Nat /\ x[2] \in Nat \ {0} /\ x[1] + x[2] <= avail_in
                        /\ win[x[1] + 1] \in Byte
  <2>. SUFFICES ASSUME NEW x \in Inside
                PROVE  /\ x[1] \in Nat /\ x[2] \in Nat \ {0} /\ x[1] + x[2] <= avail_in
                       /\ win[x[1] + 1] \in Byte
    OBVIOUS
  <2>1. x[1] \in 0 .. n - 1 /\ x[2] \in 4 .. n /\ x[1] + x[2] <= n
    BY <1>0, <1>1
  <2>2. x[1] + 1 \in 1 .. n
    BY <2>1
  <2>3. win[x[1] + 1] \in Byte
    BY <1>1, <1>2, <2>2, ElementOfSeq
  <2>. QED BY <1>1, <2>1, <2>3
<1>5. CASE m \in Runs
  <2>1. PICK x \in Inside : m = Match(RUN, x, 0, win[x[1] + 1])
    BY <1>5
  <2>. HIDE DEF Inside, Runs, Here, There, win
  <2>2. m.type = RUN /\ m.pos = x[1] /\ m.size = x[2] /\ m.xtra = win[x[1] + 1]
    BY <2>1
  <2>. QED BY <1>0, <1>4, <2>2
<1>6. CASE m \in Here
  <2>1. PICK z \in Inside \X (0 .. Len(win)) :
               m = Match(CPY, z[1], z[2], FALSE) /\ z[2] < z[1][1]
    BY <1>6
  <2>. HIDE DEF Inside, Runs, Here, There, win
  <2>2. m.type = CPY /\ m.pos = z[1][1] /\ m.size = z[1][2] /\ m.addr = z[2] /\ m.xtra = FALSE
    BY <2>1
  <2>3. z[1] \in Inside /\ z[2] \in Nat
    BY <1>1, <2>1
  <2>. QED BY <1>0, <1>4, <2>1, <2>2, <2>3
<1>7. CASE m \in There
  <2>1. PICK z \in Inside \X (0 .. Len(Source)) :
               m = Match(CPY, z[1], z[2], TRUE) /\ z[2] + z[1][2] <= Len(Source)
    BY <1>7
  <2>. HIDE DEF Inside, Runs, Here, There, win
  <2>2. m.type = CPY /\ m.pos = z[1][1] /\ m.size = z[1][2] /\ m.addr = z[2] /\ m.xtra = TRUE
    BY <2>1
  <2>3. z[1] \in Inside /\ z[2] \in Nat
    BY <1>2, <2>1
  <2>. QED BY <1>0, <1>4, <2>1, <2>2, <2>3
<1>. QED BY <1>3, <1>5, <1>6, <1>7

LEMMA MatchListFacts ==
  ASSUME NEW win, NEW ms \in MatchLists(win)
  PROVE  ms \in Seq(TrueMatches(win)) /\ Len(ms) \in Nat
<1>. DEFINE all == TrueMatches(win)
<1>1. \/ ms = <<>> \/ \E m \in all : ms = <<m>>
      \/ \E p \in all \X all : ms = <<p[1], p[2]>>
  BY DEF MatchLists
<1>. HIDE DEF all
<1>2. ms \in Seq(all)
  <2>1. CASE ms = <<>>
    BY <2>1, EmptySeq
  <2>2. CASE \E m \in all : ms = <<m>>
    BY <2>2
  <2>3. CASE \E p \in all \X all : ms = <<p[1], p[2]>>
    BY <2>3
  <2>. QED BY <1>1, <2>1, <2>2, <2>3
<1>. QED BY <1>2, LenProperties DEF all

LEMMA SourceWindowFacts ==
  ASSUME EncInv, enc_state \in WindowStates, NEW ms \in MatchLists(Window),
         NEW w \in SourceWindows(ms)
  PROVE  /\ w.base \in Nat /\ w.len \in Nat /\ w.len <= Len(Source)
         /\ \A k \in 1 .. Len(ms) : ms[k].type = CPY /\ ms[k].xtra =>
              w.base <= ms[k].addr /\ ms[k].addr + ms[k].size <= w.base + w.len
<1>. DEFINE copies == {k \in 1 .. Len(ms) : ms[k].type = CPY}
            used   == {ms[k] : k \in {j \in copies : ms[j].xtra}}
            whole  == [base |-> 0, len |-> Len(Source)]
            tight  == {[base |-> first.addr, len |-> last.addr + last.size - first.addr] :
                         first \in {m \in used : \A n \in used : m.addr <= n.addr},
                         last \in {m \in used : \A n \in used : n.addr + n.size <= m.addr + m.size}}
<1>1. PICK n \in Nat : n = Len(ms)
  BY MatchListFacts
<1>2. Len(Source) \in Nat
  BY SourceAssumption, LenProperties
<1>3. \A k \in 1 .. n : ms[k] \in TrueMatches(Window)
  BY <1>1, MatchListFacts, ElementOfSeq
<1>4. \A m \in used : /\ m.addr \in Nat /\ m.size \in Nat \ {0}
                      /\ m.addr + m.size <= Len(Source)
  <2>. SUFFICES ASSUME NEW k \in 1 .. n, ms[k].type = CPY, ms[k].xtra
                PROVE  /\ ms[k].addr \in Nat /\ ms[k].size \in Nat \ {0}
                       /\ ms[k].addr + ms[k].size <= Len(Source)
    BY <1>1
  <2>1. ms[k] \in TrueMatches(Window)
    BY <1>3
  <2>. QED BY <2>1, MatchFacts
<1>5. \A k \in 1 .. n : ms[k].type = CPY /\ ms[k].xtra => ms[k] \in used
  BY <1>1
<1>6. \/ w = whole \/ w \in tight
      \/ used = {} /\ w = NoSrcWin
  <2>1. SourceWindows(ms) = IF used # {} THEN {whole} \cup tight
                            ELSE IF copies # {} /\ cfg.src THEN {NoSrcWin, whole}
                            ELSE {NoSrcWin}
    BY DEF SourceWindows
  <2>. HIDE DEF used, copies, whole, tight
  <2>. QED BY <2>1
<1>7. CASE w = whole
  <2>1. w.base = 0 /\ w.len = Len(Source)
    BY <1>7
  <2>. HIDE DEF used
  <2>. QED BY <1>1, <1>2, <1>4, <1>5, <2>1
<1>8. CASE w \in tight
  <2>1. PICK first \in used, last \in used :
               /\ w.base = first.addr /\ w.len = last.addr + last.size - first.addr
               /\ \A m \in used : first.addr <= m.addr
               /\ \A m \in used : m.addr + m.size <= last.addr + last.size
    BY <1>8
  <2>. HIDE DEF used
  <2>. DEFINE a == first.addr
              b == last.addr + last.size
  <2>2. a \in Nat /\ b \in Nat /\ a <= b /\ b <= Len(Source)
    BY <1>4, <2>1
  <2>3. w.base = a /\ w.len = b - a
    <3>1. first.addr \in Nat /\ last.addr \in Nat /\ last.size \in Nat
      BY <1>4
    <3>. QED BY <2>1, <3>1
  <2>4. \A m \in used : a <= m.addr /\ m.addr + m.size <= b
    BY <2>1
  <2>. HIDE DEF a, b
  <2>5. w.base + w.len = b /\ w.len \in Nat /\ w.len <= Len(Source)
    BY <1>2, <2>2, <2>3
  <2>6. \A k \in 1 .. n : ms[k].type = CPY /\ ms[k].xtra =>
              w.base <= ms[k].addr /\ ms[k].addr + ms[k].size <= w.base + w.len
    BY <1>5, <2>3, <2>4, <2>5
  <2>. QED BY <1>1, <2>2, <2>3, <2>5, <2>6
<1>9. CASE used = {} /\ w = NoSrcWin
  <2>1. w.base = 0 /\ w.len = 0
    BY <1>9 DEF NoSrcWin
  <2>. HIDE DEF used
  <2>2. \A k \in 1 .. n : ~ (ms[k].type = CPY /\ ms[k].xtra)
    BY <1>5, <1>9
  <2>. QED BY <1>1, <1>2, <2>1, <2>2
<1>. HIDE DEF used, whole, tight
<1>. QED BY <1>6, <1>7, <1>8, <1>9

\* The matches that string matching leaves can be encoded.
LEMMA SearchFacts ==
  ASSUME EncInv, Search
  PROVE  /\ srcwin'.base \in Nat /\ srcwin'.len \in Nat /\ srcwin'.len <= Len(Source)
         /\ AllEncodable(todo)'
<1>1. enc_state \in WindowStates /\ UNCHANGED avail_in
  BY DEF Search, InCall, WindowStates, input
<1>2. PICK ms \in MatchLists(Window) : todo' = ms /\ srcwin' \in SourceWindows(ms)
  BY DEF Search
<1>3. PICK n \in Nat : n = Len(ms) /\ ms \in Seq(TrueMatches(Window))
  BY MatchListFacts
<1>4. \A k \in 1 .. n : ms[k] \in TrueMatches(Window)
  BY <1>3, ElementOfSeq
<1>. DEFINE w == srcwin'
<1>5. /\ w.base \in Nat /\ w.len \in Nat /\ w.len <= Len(Source)
      /\ \A k \in 1 .. n : ms[k].type = CPY /\ ms[k].xtra =>
           w.base <= ms[k].addr /\ ms[k].addr + ms[k].size <= w.base + w.len
  BY <1>1, <1>2, <1>3, SourceWindowFacts
<1>. DEFINE T == {ms[k] : k \in 1 .. n}
<1>6. ms \in Seq(T)
  <2>. DEFINE U == TrueMatches(Window)
  <2>1. ms \in Seq(U) /\ Len(ms) = n /\ \A k \in 1 .. n : ms[k] \in T
    BY <1>3
  <2>. HIDE DEF U, T
  <2>. QED BY <2>1
<1>7. \A m \in T : Encodable(m)'
  <2>. SUFFICES ASSUME NEW k \in 1 .. n PROVE Encodable(ms[k])'
    OBVIOUS
  <2>1. ms[k] \in TrueMatches(Window)
    BY <1>4
  <2>. DEFINE m == ms[k]
  <2>2. /\ m.type \in {RUN, CPY} /\ m.pos \in Nat /\ m.size \in Nat \ {0}
        /\ m.pos + m.size <= avail_in
        /\ m.type = RUN => m.xtra \in Byte
        /\ m.type = CPY =>
              /\ m.xtra \in BOOLEAN /\ m.addr \in Nat
              /\ IF m.xtra THEN m.addr + m.size <= Len(Source) ELSE m.addr < m.pos
    BY <1>1, <2>1, MatchFacts
  <2>3. m.type = CPY /\ m.xtra => w.base <= m.addr /\ m.addr + m.size <= w.base + w.len
    BY <1>5
  <2>. HIDE DEF m
  <2>4. Encodable(m)'
    BY <1>1, <2>2, <2>3 DEF Encodable
  <2>. QED BY <2>4 DEF m
<1>. HIDE DEF T
<1>8. AllEncodable(todo)'
  BY <1>2, <1>6, <1>7 DEF AllEncodable
<1>. QED BY <1>5, <1>8

-----------------------------------------------------------------------------
(* The headers are lists of fields of bytes.                               *)

Fields == Seq(Seq(Byte))

LEMMA OneField ==
  ASSUME NEW f \in Seq(Byte)
  PROVE  <<f>> \in Fields
<1>. DEFINE T == Seq(Byte)
<1>1. f \in T
  OBVIOUS
<1>. HIDE DEF T
<1>2. <<f>> \in Seq(T)
  BY <1>1
<1>. QED BY <1>2 DEF Fields, T

LEMMA JoinedFields ==
  ASSUME NEW a \in Fields, NEW b \in Fields
  PROVE  a \o b \in Fields
BY ConcatProperties DEF Fields

LEMMA NoFields == <<>> \in Fields
BY EmptySeq DEF Fields

LEMMA FileHeaderType ==
  ASSUME EncInv
  PROVE  FileHeader \in Fields
<1>. DEFINE n == Len(cfg.app)
<1>1. Magic \in Seq(Byte) /\ cfg.app \in Seq(Byte)
  BY EncodeAssumption DEF EncInv, InputTypes
<1>2. n \in Nat
  BY <1>1, LenProperties
<1>3. EmitInt(n) \in Seq(Byte)
  <2>. HIDE DEF n
  <2>. QED BY <1>2, EmitIntFacts
<1>4. <<0>> \in Seq(Byte) /\ <<4>> \in Seq(Byte)
  BY TableFacts, OneByte
<1>. DEFINE app == << <<4>>, EmitInt(n), cfg.app>>
<1>5. app \in Fields
  <2>. DEFINE T == Seq(Byte)
              x == <<4>>
              y == EmitInt(n)
              z == cfg.app
  <2>1. x \in T /\ y \in T /\ z \in T
    BY <1>1, <1>3, <1>4
  <2>. HIDE DEF T, x, y, z
  <2>2. <<x, y, z>> \in Seq(T)
    BY <2>1
  <2>. QED BY <2>2 DEF T, x, y, z, Fields
<1>6. <<Magic>> \in Fields /\ << <<0>> >> \in Fields
  BY <1>1, <1>4, OneField
<1>7. FileHeader = <<Magic>> \o (IF cfg.app = <<>> THEN << <<0>> >> ELSE app)
  BY DEF FileHeader, VCD_APPHEADER
<1>. HIDE DEF app
<1>. QED BY <1>5, <1>6, <1>7, JoinedFields

LEMMA WindowHeaderType ==
  ASSUME EncInv, enc_state = "ENC_FLUSH", NEW o, Writing(o), NEW w,
         w.base \in Nat, w.len \in Nat
  PROVE  WindowHeader(o, w) \in Fields
<1>. DEFINE used == w.len > 0
            d == SizeofOutput(o, DATA)
            i == SizeofOutput(o, INST)
            a == SizeofOutput(o, ADDR)
            n == 1 + SizeofSize(avail_in) + SizeofSize(d) + SizeofSize(i) + SizeofSize(a)
                   + d + i + a + (IF cfg.adler32 THEN 4 ELSE 0)
            bits == (IF used THEN VCD_SOURCE ELSE 0) + (IF cfg.adler32 THEN VCD_ADLER32 ELSE 0)
            fixed == <<EmitInt(avail_in), <<0>>, EmitInt(d), EmitInt(i), EmitInt(a)>>
            src == IF used THEN <<EmitInt(w.len), EmitInt(w.base)>> ELSE <<>>
            sum == IF cfg.adler32 THEN <<Adler32(Window)>> ELSE <<>>
<1>1. DATA \in Sections /\ INST \in Sections /\ ADDR \in Sections
  BY DEF DATA, INST, ADDR, Sections
<1>2. d \in Nat /\ i \in Nat /\ a \in Nat
  BY <1>1, SizeofOutputType
<1>3. WindowHeader(o, w) = << <<bits>> >> \o src \o <<EmitInt(n)>> \o fixed \o sum
  <2>1. DATA # INST /\ DATA # ADDR /\ INST # ADDR
    BY DEF DATA, INST, ADDR
  <2>. DEFINE lens == [s \in {DATA, INST, ADDR} |-> SizeofOutput(o, s)]
  <2>2. lens[DATA] = d /\ lens[INST] = i /\ lens[ADDR] = a
    BY <2>1
  <2>. HIDE DEF lens, d, i, a
  <2>. QED BY <2>2 DEF WindowHeader, lens
<1>. HIDE DEF d, i, a
<1>4. avail_in \in Nat /\ cfg.adler32 \in BOOLEAN /\ cfg \in Configs
  BY EncodeAssumption DEF EncInv, InputTypes
<1>5. n \in Nat
  <2>1. /\ SizeofSize(avail_in) \in Nat /\ SizeofSize(d) \in Nat /\ SizeofSize(i) \in Nat
        /\ SizeofSize(a) \in Nat
    BY <1>2, <1>4, SizeFacts
  <2>. QED BY <1>2, <2>1
<1>. HIDE DEF n
<1>6. << <<bits>> >> \in Fields
  <2>1. bits \in Byte
    BY TableFacts DEF VCD_SOURCE, VCD_ADLER32
  <2>. HIDE DEF bits
  <2>. QED BY <2>1, OneByte, OneField
<1>7. /\ EmitInt(avail_in) \in Seq(Byte) /\ EmitInt(d) \in Seq(Byte) /\ EmitInt(i) \in Seq(Byte)
      /\ EmitInt(a) \in Seq(Byte) /\ EmitInt(n) \in Seq(Byte) /\ <<0>> \in Seq(Byte)
      /\ EmitInt(w.len) \in Seq(Byte) /\ EmitInt(w.base) \in Seq(Byte)
  <2>1. <<0>> \in Seq(Byte)
    BY TableFacts, OneByte
  <2>. QED BY <1>2, <1>4, <1>5, <2>1, EmitIntFacts
<1>8. fixed \in Fields
  <2>. DEFINE T == Seq(Byte)
              x == EmitInt(avail_in)
              z == <<0>>
              xd == EmitInt(d)
              xi == EmitInt(i)
              xa == EmitInt(a)
  <2>1. x \in T /\ z \in T /\ xd \in T /\ xi \in T /\ xa \in T
    BY <1>7
  <2>. HIDE DEF T, x, z, xd, xi, xa
  <2>2. <<x, z, xd, xi, xa>> \in Seq(T)
    BY <2>1
  <2>. QED BY <2>2 DEF T, x, z, xd, xi, xa, Fields
<1>9. src \in Fields
  <2>. DEFINE T == Seq(Byte)
              x == EmitInt(w.len)
              y == EmitInt(w.base)
  <2>1. x \in T /\ y \in T
    BY <1>7
  <2>. HIDE DEF T, x, y
  <2>2. <<x, y>> \in Seq(T)
    BY <2>1
  <2>3. <<x, y>> \in Fields
    BY <2>2 DEF T, Fields
  <2>. QED BY <2>3, NoFields DEF x, y
<1>10. sum \in Fields
  <2>1. enc_state \in WindowStates
    BY DEF WindowStates
  <2>2. Window = SubSeq(cfg.file, total_in + 1, total_in + avail_in) /\ total_in + avail_in <= fed
    BY <2>1, WindowType DEF Piece
  <2>3. total_in \in Nat /\ fed \in Nat /\ fed <= Len(cfg.file) /\ Len(cfg.file) \in Nat
    BY CfgFacts
  <2>4. /\ total_in \in 0 .. Len(cfg.file) /\ avail_in \in 0 .. Len(cfg.file)
        /\ total_in + avail_in <= Len(cfg.file)
    BY <1>4, <2>2, <2>3
  <2>5. Adler32(Window) \in Seq(Byte)
    BY <1>4, <2>2, <2>4, EncodeAssumption
  <2>. DEFINE x == Adler32(Window)
  <2>. HIDE DEF x
  <2>6. <<x>> \in Fields
    BY <2>5, OneField DEF x
  <2>. QED BY <2>6, NoFields DEF x
<1>11. <<EmitInt(n)>> \in Fields
  BY <1>7, OneField
<1>. DEFINE f == << <<bits>> >>
            g == <<EmitInt(n)>>
<1>. HIDE DEF f, g, src, fixed, sum
<1>12. f \o src \in Fields
  BY <1>6, <1>9, JoinedFields DEF f
<1>13. f \o src \o g \in Fields
  BY <1>11, <1>12, JoinedFields DEF g
<1>14. f \o src \o g \o fixed \in Fields
  BY <1>8, <1>13, JoinedFields
<1>15. f \o src \o g \o fixed \o sum \in Fields
  BY <1>10, <1>14, JoinedFields
<1>. QED BY <1>3, <1>15 DEF f, g

LEMMA EmitHdrWritable ==
  ASSUME EncInv, enc_state = "ENC_FLUSH", NEW o, Writing(o), NEW w,
         w.base \in Nat, w.len \in Nat
  PROVE  Writing(EmitHdr(o, w))
<1>. DEFINE fields == (IF current_window = 0 THEN FileHeader ELSE <<>>) \o WindowHeader(o, w)
            calls  == [k \in DOMAIN fields |-> <<HDR, fields[k]>>]
<1>1. fields \in Fields
  <2>1. (IF current_window = 0 THEN FileHeader ELSE <<>>) \in Fields
    BY FileHeaderType, NoFields
  <2>. QED BY <2>1, WindowHeaderType, JoinedFields
<1>2. EmitHdr(o, w) = EmitAll(o, calls)
  BY DEF EmitHdr
<1>. HIDE DEF fields
<1>3. PICK n \in Nat : n = Len(fields) /\ DOMAIN fields = 1 .. n
  BY <1>1, LenProperties DEF Fields
<1>4. \A k \in 1 .. n : fields[k] \in Seq(Byte)
  BY <1>1, <1>3, ElementOfSeq DEF Fields
<1>5. HDR \in Sections
  BY DEF HDR, Sections
<1>. DEFINE T == Sections \X Seq(Byte)
<1>6. calls = [k \in 1 .. n |-> <<HDR, fields[k]>>] /\ \A k \in 1 .. n : <<HDR, fields[k]>> \in T
  BY <1>3, <1>4, <1>5
<1>7. calls \in Seq(T)
  <2>. HIDE DEF T
  <2>. QED BY <1>6
<1>8. calls \in Calls
  BY <1>7 DEF Calls
<1>. HIDE DEF calls
<1>. QED BY <1>2, <1>8, EmitAllWritable

-----------------------------------------------------------------------------
(* The invariant of the pages: which lists there are in which state.       *)

PageInv ==
  /\ Paged(out)
  /\ enc_state = "ENC_INIT" /\ ret # "ENOMEM" => out = NoPages
  /\ enc_state \in {"ENC_INPUT", "ENC_SEARCH", "ENC_INSTR", "ENC_FLUSH"} => Writing(out)
  /\ enc_state \in {"ENC_POSTOUT", "ENC_POSTWIN"} => Outputting(out)
  /\ enc_state = "ENC_POSTOUT" =>
       enc_current \in Ids(out) /\ avail_out \in {0, Len(out.page[enc_current].base)}
  /\ ret = "XD3_OUTPUT" => enc_state = "ENC_POSTOUT"

EncodeInv == EncInv /\ CodeInv /\ PageInv

\* The steps that leave the coding alone.
LEMMA CodeQuiet ==
  ASSUME CodeInv, UNCHANGED <<cfg, coding>>,
         enc_state' \in WindowStates => enc_state \in WindowStates /\ UNCHANGED avail_in,
         enc_state' = "ENC_INSTR" => enc_state = "ENC_INSTR"
  PROVE  CodeInv'
<1>1. UNCHANGED <<cfg, acache, iout, unencoded_offset, todo, srcwin>>
  BY DEF coding
<1>2. enc_state' = "ENC_INSTR" => AllEncodable(todo)'
  <2>. SUFFICES ASSUME enc_state' = "ENC_INSTR" PROVE AllEncodable(todo)'
    OBVIOUS
  <2>1. UNCHANGED avail_in /\ AllEncodable(todo)
    BY DEF CodeInv, WindowStates
  <2>. QED BY <1>1, <2>1 DEF AllEncodable, Encodable
<1>3. enc_state' \in WindowStates => avail_in' <= cfg'.winsize
  BY <1>1 DEF CodeInv
<1>. QED BY <1>1, <1>2, <1>3 DEF CodeInv

\* The steps that leave the output alone.
LEMMA PageQuiet ==
  ASSUME PageInv, UNCHANGED output, ret' # "XD3_OUTPUT",
         \/ enc_state' = enc_state
         \/ {enc_state, enc_state'} \subseteq {"ENC_INPUT", "ENC_SEARCH", "ENC_INSTR", "ENC_FLUSH"},
         enc_state' = "ENC_INIT" => enc_state = "ENC_INIT" /\ (ret = "ENOMEM" => ret' = "ENOMEM")
  PROVE  PageInv'
<1>1. UNCHANGED <<out, enc_current, avail_out>>
  BY DEF output
<1>. QED BY <1>1 DEF PageInv, Ids

\* enc_flush, once the window is there.
LEMMA StartWindowInv ==
  ASSUME EncodeInv, StartWindow, ret = "run", enc_state = "ENC_INPUT", avail_in' <= cfg.winsize
  PROVE  CodeInv' /\ PageInv'
<1>1. /\ enc_state' = "ENC_SEARCH" /\ ret' = "XD3_WINSTART"
      /\ acache' = InitCache /\ unencoded_offset' = 0
      /\ UNCHANGED <<cfg, iout, srcwin>> /\ UNCHANGED output
  BY DEF StartWindow, Return
<1>2. CodeInv'
  BY <1>1, InitCacheType DEF EncodeInv, CodeInv
<1>3. PageInv'
  BY <1>1, PageQuiet DEF EncodeInv
<1>. QED BY <1>2, <1>3

LEMMA EncInitPages == EncodeInv /\ EncInit => CodeInv' /\ PageInv'
<1>. SUFFICES ASSUME EncodeInv, EncInit PROVE CodeInv' /\ PageInv'
  OBVIOUS
<1>1. ret = "run" /\ enc_state = "ENC_INIT" /\ out = NoPages
  BY InCallFacts DEF EncInit, EncodeInv, PageInv
<1>. DEFINE o == AllocOutput(AllocOutput(AllocOutput(AllocOutput(out, HDR), DATA), INST), ADDR)
<1>2. /\ out' = o
      /\ IF o.ok THEN enc_state' = "ENC_INPUT" /\ ret' = ret
         ELSE ret' = "ENOMEM" /\ enc_state' = enc_state
      /\ UNCHANGED <<cfg, coding>>
  BY DEF EncInit, Return
<1>3. Paged(o) /\ (o.ok => Writing(o))
  BY <1>1, InitLists
<1>. HIDE DEF o
<1>4. PageInv'
  BY <1>1, <1>2, <1>3 DEF PageInv
<1>5. CodeInv'
  BY <1>1, <1>2, CodeQuiet DEF EncodeInv, WindowStates
<1>. QED BY <1>4, <1>5

LEMMA NoInputYetPages == EncodeInv /\ NoInputYet => CodeInv' /\ PageInv'
<1>. SUFFICES ASSUME EncodeInv, NoInputYet PROVE CodeInv' /\ PageInv'
  OBVIOUS
<1>1. /\ UNCHANGED <<cfg, coding, enc_state, avail_in>> /\ UNCHANGED output
      /\ ret' = "XD3_INPUT" /\ ret = "run"
  BY DEF NoInputYet, InCall, input, Return
<1>. QED BY <1>1, CodeQuiet, PageQuiet DEF EncodeInv

LEMMA UseDirectlyPages == EncodeInv /\ UseDirectly => CodeInv' /\ PageInv'
<1>. SUFFICES ASSUME EncodeInv, UseDirectly PROVE CodeInv' /\ PageInv'
  OBVIOUS
<1>1. InCall("ENC_INPUT") /\ next_in # Null /\ StartWindow /\ UNCHANGED avail_in
  BY DEF UseDirectly, input
<1>2. avail_in <= cfg.winsize
  BY <1>1, InputFollows DEF EncodeInv
<1>. QED BY <1>1, <1>2, StartWindowInv DEF InCall

LEMMA BufferInputPages == EncodeInv /\ BufferInput => CodeInv' /\ PageInv'
<1>. SUFFICES ASSUME EncodeInv, BufferInput PROVE CodeInv' /\ PageInv'
  OBVIOUS
<1>1. /\ UNCHANGED <<cfg, coding, enc_state, avail_in>> /\ UNCHANGED output
      /\ ret' = "XD3_INPUT" /\ enc_state = "ENC_INPUT"
  BY DEF BufferInput, TakeInput, InCall, Return
<1>. QED BY <1>1, CodeQuiet, PageQuiet DEF EncodeInv

LEMMA UseBufferPages == EncodeInv /\ UseBuffer => CodeInv' /\ PageInv'
<1>. SUFFICES ASSUME EncodeInv, UseBuffer PROVE CodeInv' /\ PageInv'
  OBVIOUS
<1>1. TakeInput /\ InCall("ENC_INPUT") /\ StartWindow /\ avail_in' = Len(Buffered)
  BY DEF UseBuffer, TakeInput
<1>2. Len(Buffered) <= cfg.winsize
  BY <1>1, TakeInputFacts DEF EncodeInv
<1>. QED BY <1>1, <1>2, StartWindowInv DEF InCall

LEMMA SearchPages == EncodeInv /\ Search => CodeInv' /\ PageInv'
<1>. SUFFICES ASSUME EncodeInv, Search PROVE CodeInv' /\ PageInv'
  OBVIOUS
<1>1. /\ enc_state = "ENC_SEARCH" /\ enc_state' = "ENC_INSTR" /\ ret = "run" /\ UNCHANGED ret
      /\ UNCHANGED <<cfg, avail_in, acache, iout, unencoded_offset>> /\ UNCHANGED output
  BY DEF Search, InCall, input
<1>2. /\ srcwin'.base \in Nat /\ srcwin'.len \in Nat /\ srcwin'.len <= Len(Source)
      /\ AllEncodable(todo)'
  BY SearchFacts DEF EncodeInv
<1>3. CodeInv'
  BY <1>1, <1>2 DEF EncodeInv, CodeInv, WindowStates
<1>4. PageInv'
  BY <1>1, PageQuiet DEF EncodeInv
<1>. QED BY <1>3, <1>4

\* An instruction of the window.
LEMMA FinishPages ==
  ASSUME EncodeInv, InCall("ENC_INSTR"), NEW i, Encodable(i), FinishEncoding(i),
         AllEncodable(todo')
  PROVE  CodeInv' /\ PageInv'
<1>1. enc_state = "ENC_INSTR" /\ ret = "run" /\ Writing(out)
  BY DEF InCall, EncodeInv, PageInv
<1>2. /\ acache' \in Cache /\ unencoded_offset' \in Nat /\ iout' \in Insts
      /\ Writing(out')
      /\ UNCHANGED <<cfg, enc_state, avail_in, srcwin>> /\ ret' \in {ret, "ENOMEM"}
  BY <1>1, FinishFacts DEF EncodeInv, input
<1>3. AllEncodable(todo)'
  BY <1>2 DEF AllEncodable, Encodable
<1>4. CodeInv'
  BY <1>2, <1>3 DEF EncodeInv, CodeInv
<1>5. PageInv'
  BY <1>1, <1>2, PagedStates DEF PageInv
<1>. QED BY <1>4, <1>5

LEMMA HeadEncodable ==
  ASSUME AllEncodable(todo), todo # <<>>
  PROVE  Encodable(Head(todo)) /\ AllEncodable(Tail(todo))
<1>1. PICK T : todo \in Seq(T) /\ \A m \in T : Encodable(m)
  BY DEF AllEncodable
<1>2. Head(todo) \in T /\ Tail(todo) \in Seq(T)
  BY <1>1, HeadTailProperties
<1>. QED BY <1>1, <1>2 DEF AllEncodable

LEMMA EncodeAddPages == EncodeInv /\ EncodeAdd => CodeInv' /\ PageInv'
<1>. SUFFICES ASSUME EncodeInv, EncodeAdd PROVE CodeInv' /\ PageInv'
  OBVIOUS
<1>. DEFINE i == [type |-> ADD, pos |-> unencoded_offset, size |-> Gap]
<1>1. InCall("ENC_INSTR") /\ Gap > 0 /\ FinishEncoding(i) /\ UNCHANGED todo
  BY DEF EncodeAdd
<1>2. /\ AllEncodable(todo) /\ unencoded_offset \in Nat /\ avail_in \in Nat
  BY <1>1 DEF EncodeInv, EncInv, InputTypes, CodeInv, InCall
<1>3. Gap \in Nat \ {0} /\ unencoded_offset + Gap <= avail_in
  <2>1. CASE todo = <<>>
    BY <1>1, <1>2, <2>1 DEF Gap
  <2>2. CASE todo # <<>>
    <3>1. /\ Head(todo).pos \in Nat /\ Head(todo).size \in Nat
          /\ Head(todo).pos + Head(todo).size <= avail_in
      BY <1>2, <2>2, HeadEncodable DEF Encodable
    <3>2. Gap = Head(todo).pos - unencoded_offset
      BY <2>2 DEF Gap
    <3>. QED BY <1>1, <1>2, <3>1, <3>2
  <2>. QED BY <2>1, <2>2
<1>4. Encodable(i)
  <2>1. i.type = ADD /\ i.pos = unencoded_offset /\ i.size = Gap
    OBVIOUS
  <2>. HIDE DEF i
  <2>. QED BY <1>2, <1>3, <2>1 DEF Encodable, ADD, RUN, CPY
<1>. HIDE DEF i
<1>. QED BY <1>1, <1>2, <1>4, FinishPages

LEMMA EncodeMatchPages == EncodeInv /\ EncodeMatch => CodeInv' /\ PageInv'
<1>. SUFFICES ASSUME EncodeInv, EncodeMatch PROVE CodeInv' /\ PageInv'
  OBVIOUS
<1>1. /\ InCall("ENC_INSTR") /\ todo # <<>> /\ FinishEncoding(Head(todo))
      /\ todo' = Tail(todo)
  BY DEF EncodeMatch
<1>2. AllEncodable(todo)
  BY <1>1 DEF EncodeInv, CodeInv, InCall
<1>3. Encodable(Head(todo)) /\ AllEncodable(Tail(todo))
  BY <1>1, <1>2, HeadEncodable
<1>. QED BY <1>1, <1>3, FinishPages

LEMMA AddFinalizePages == EncodeInv /\ AddFinalize => CodeInv' /\ PageInv'
<1>. SUFFICES ASSUME EncodeInv, AddFinalize PROVE CodeInv' /\ PageInv'
  OBVIOUS
<1>. DEFINE o == IF iout = NoInst THEN out ELSE EmitAll(out, EmitSingle(iout))
<1>1. /\ enc_state = "ENC_INSTR" /\ ret = "run" /\ iout' = NoInst /\ Written(o)
      /\ enc_state' \in {"ENC_INSTR", "ENC_FLUSH"}
      /\ UNCHANGED <<cfg, avail_in, acache, unencoded_offset, todo, srcwin>>
  BY DEF AddFinalize, InCall, input
<1>2. Writing(out) /\ iout \in Insts
  BY <1>1 DEF EncodeInv, PageInv, CodeInv
<1>3. Writing(o)
  BY <1>2, EmitSingleType, EmitAllWritable
<1>. HIDE DEF o
<1>4. out' = o /\ ret' \in {"run", "ENOMEM"}
  BY <1>1 DEF Written, Return
<1>5. NoInst \in Insts
  BY TableFacts DEF NoInst, Insts, NOOP, NoCode
<1>6. AllEncodable(todo)'
  BY <1>1 DEF EncodeInv, CodeInv, AllEncodable, Encodable
<1>7. CodeInv'
  BY <1>1, <1>5, <1>6 DEF EncodeInv, CodeInv, WindowStates
<1>8. PageInv'
  BY <1>1, <1>3, <1>4, PagedStates DEF PageInv
<1>. QED BY <1>7, <1>8

\* enc_output gives a page of the output.
LEMMA OutputPageFacts ==
  ASSUME NEW o, o \in Outputs, NEW id \in Ids(o), OutputPage(o, id)
  PROVE  /\ enc_state' = "ENC_POSTOUT" /\ enc_current' = id
         /\ avail_out' = Len(o.page[id].base) /\ ret' \in {ret, "XD3_OUTPUT"}
BY DEF OutputPage, Return

LEMMA FlushPages == EncodeInv /\ Flush => CodeInv' /\ PageInv'
<1>. SUFFICES ASSUME EncodeInv, Flush PROVE CodeInv' /\ PageInv'
  OBVIOUS
<1>. DEFINE o == EmitHdr(out, srcwin)
<1>1. /\ enc_state = "ENC_FLUSH" /\ ret = "run" /\ UNCHANGED <<cfg, avail_in, coding>>
      /\ IF o.ok THEN out' = Spliced(o) /\ OutputPage(Spliced(o), o.heads[HDR])
         ELSE /\ out' = o /\ ret' = "ENOMEM"
              /\ UNCHANGED <<enc_state, enc_current, avail_out>>
  BY DEF Flush, InCall, input, Return
<1>2. Writing(out) /\ srcwin.base \in Nat /\ srcwin.len \in Nat
  BY <1>1 DEF EncodeInv, PageInv, CodeInv
<1>3. Writing(o)
  BY <1>1, <1>2, EmitHdrWritable DEF EncodeInv
<1>. HIDE DEF o
<1>4. CASE o.ok
  <2>1. Outputting(out') /\ o.heads[HDR] \in Ids(out')
    BY <1>1, <1>3, <1>4, SplicedLists
  <2>2. out' \in Outputs /\ Paged(out')
    BY <2>1, PagedStates, PagedTypes
  <2>3. /\ enc_state' = "ENC_POSTOUT" /\ enc_current' = o.heads[HDR]
        /\ avail_out' = Len(out'.page[enc_current'].base) /\ ret' \in {ret, "XD3_OUTPUT"}
    BY <1>1, <1>4, <2>1, <2>2, OutputPageFacts
  <2>4. PageInv'
    BY <1>1, <2>1, <2>2, <2>3 DEF PageInv
  <2>5. CodeInv'
    BY <1>1, <2>3, CodeQuiet DEF EncodeInv, WindowStates
  <2>. QED BY <2>4, <2>5
<1>5. CASE ~ o.ok
  <2>1. PageInv'
    BY <1>1, <1>3, <1>5, PagedStates DEF PageInv
  <2>2. CodeInv'
    BY <1>1, <1>5, CodeQuiet DEF EncodeInv
  <2>. QED BY <2>1, <2>2
<1>. QED BY <1>4, <1>5

LEMMA MissedConsumePages == EncodeInv /\ MissedConsume => CodeInv' /\ PageInv'
<1>. SUFFICES ASSUME EncodeInv, MissedConsume PROVE CodeInv' /\ PageInv'
  OBVIOUS
<1>1. /\ UNCHANGED <<cfg, coding, enc_state, avail_in>> /\ UNCHANGED output
      /\ ret' = "XD3_INTERNAL" /\ enc_state = "ENC_POSTOUT"
  BY DEF MissedConsume, InCall, input, Return
<1>. QED BY <1>1, CodeQuiet, PageQuiet DEF EncodeInv

LEMMA NextPagePages == EncodeInv /\ NextPage => CodeInv' /\ PageInv'
<1>. SUFFICES ASSUME EncodeInv, NextPage PROVE CodeInv' /\ PageInv'
  OBVIOUS
<1>. DEFINE id == out.page[enc_current].next_page
<1>1. /\ enc_state = "ENC_POSTOUT" /\ ret = "run" /\ UNCHANGED <<cfg, avail_in, coding, out>>
      /\ IF id # NULL THEN OutputPage(out, id)
         ELSE enc_state' = "ENC_POSTWIN" /\ ret' = "XD3_WINFINISH"
  BY DEF NextPage, InCall, input, Return
<1>2. Outputting(out) /\ Paged(out) /\ enc_current \in Ids(out)
  BY <1>1 DEF EncodeInv, PageInv
<1>3. out \in Outputs /\ id \in Ids(out) \cup {NULL}
  BY <1>2, PagedTypes
<1>. HIDE DEF id
<1>4. CASE id # NULL
  <2>1. /\ enc_state' = "ENC_POSTOUT" /\ enc_current' = id
        /\ avail_out' = Len(out.page[id].base) /\ ret' \in {ret, "XD3_OUTPUT"}
    BY <1>1, <1>3, <1>4, OutputPageFacts
  <2>2. PageInv'
    BY <1>1, <1>2, <1>3, <1>4, <2>1 DEF PageInv, Ids
  <2>3. CodeInv'
    BY <1>1, <2>1, CodeQuiet DEF EncodeInv
  <2>. QED BY <2>2, <2>3
<1>5. CASE id = NULL
  <2>1. PageInv'
    BY <1>1, <1>2, <1>5 DEF PageInv
  <2>2. CodeInv'
    BY <1>1, <1>5, CodeQuiet DEF EncodeInv, WindowStates
  <2>. QED BY <2>1, <2>2
<1>. QED BY <1>4, <1>5

LEMMA ResetPages ==
  ASSUME EncodeInv, EncodeReset, enc_state = "ENC_POSTWIN", ret' # "XD3_OUTPUT",
         UNCHANGED <<cfg, acache, iout, unencoded_offset, todo>>
  PROVE  CodeInv' /\ PageInv'
<1>1. srcwin' = NoSrcWin /\ out' = Unspliced(out) /\ enc_state' = "ENC_INPUT"
  BY DEF EncodeReset
<1>2. Writing(out')
  BY <1>1, UnsplicedLists DEF EncodeInv, PageInv
<1>3. PageInv'
  BY <1>1, <1>2, PagedStates DEF PageInv
<1>4. srcwin'.base \in Nat /\ srcwin'.len \in Nat /\ srcwin'.len <= Len(Source)
  <2>1. srcwin'.base = 0 /\ srcwin'.len = 0
    BY <1>1 DEF NoSrcWin
  <2>2. Len(Source) \in Nat
    BY SourceAssumption, LenProperties
  <2>. QED BY <2>1, <2>2
<1>5. CodeInv'
  BY <1>1, <1>4 DEF EncodeInv, CodeInv, WindowStates
<1>. QED BY <1>3, <1>5

LEMMA PostWinPages == EncodeInv /\ PostWin => CodeInv' /\ PageInv'
<1>. SUFFICES ASSUME EncodeInv, PostWin PROVE CodeInv' /\ PageInv'
  OBVIOUS
<1>1. /\ EncodeReset /\ enc_state = "ENC_POSTWIN" /\ ret = "run"
      /\ ret' \in {ret, "XD3_INPUT"}
      /\ UNCHANGED <<cfg, acache, iout, unencoded_offset, todo>>
  BY DEF PostWin, InCall, Return
<1>. QED BY <1>1, ResetPages

\* The client: only xd3_close_stream does anything to the coding or the pages.
LEMMA ClosePages == EncodeInv /\ Close => CodeInv' /\ PageInv'
<1>. SUFFICES ASSUME EncodeInv, Close PROVE CodeInv' /\ PageInv'
  OBVIOUS
<1>1. UNCHANGED <<cfg, acache, iout, unencoded_offset, todo, ret, enc_current, avail_out>>
  BY DEF Close
<1>2. CASE enc_state = "ENC_POSTWIN" /\ buf_leftover = Null
  <2>1. EncodeReset
    BY <1>2 DEF Close
  <2>2. ret' # "XD3_OUTPUT"
    BY <1>1, <1>2 DEF EncodeInv, PageInv
  <2>. QED BY <1>1, <1>2, <2>1, <2>2, ResetPages
<1>3. CASE ~ (enc_state = "ENC_POSTWIN" /\ buf_leftover = Null)
  <2>1. UNCHANGED <<avail_in, srcwin, out, enc_state>>
    BY <1>3 DEF Close
  <2>2. CodeInv'
    BY <1>1, <2>1, CodeQuiet DEF EncodeInv, coding
  <2>3. PageInv'
    BY <1>1, <2>1 DEF EncodeInv, PageInv, Ids
  <2>. QED BY <2>2, <2>3
<1>. QED BY <1>2, <1>3

LEMMA AvailInputPages ==
  ASSUME EncodeInv, Asking, NEW n, AvailInput(n), ret' = "run"
  PROVE  CodeInv' /\ PageInv'
<1>1. /\ UNCHANGED <<cfg, coding, enc_state>> /\ UNCHANGED output
  BY DEF AvailInput
<1>2. enc_state \in {"ENC_INIT", "ENC_INPUT"} /\ ret # "ENOMEM"
  BY DEF Asking, EncodeInv, EncInv, Control
<1>. QED BY <1>1, <1>2, CodeQuiet, PageQuiet DEF EncodeInv, WindowStates

LEMMA FeedPages == EncodeInv /\ Feed => CodeInv' /\ PageInv'
<1>. SUFFICES ASSUME EncodeInv, Feed PROVE CodeInv' /\ PageInv'
  OBVIOUS
<1>1. PICK size \in cfg.pieces : AvailInput(Least(size, Rest))
  BY DEF Feed
<1>2. Asking /\ ret' = "run"
  BY DEF Feed, Return
<1>. QED BY <1>1, <1>2, AvailInputPages

LEMMA FeedMemoryPages == EncodeInv /\ FeedMemory => CodeInv' /\ PageInv'
BY AvailInputPages DEF FeedMemory, Return

LEMMA CallFirstPages == EncodeInv /\ CallFirst => CodeInv' /\ PageInv'
<1>. SUFFICES ASSUME EncodeInv, CallFirst PROVE CodeInv' /\ PageInv'
  OBVIOUS
<1>1. /\ UNCHANGED <<cfg, coding, enc_state, avail_in>> /\ UNCHANGED output
      /\ ret' = "run" /\ ret = "idle"
  BY DEF CallFirst, input, Return
<1>. QED BY <1>1, CodeQuiet, PageQuiet DEF EncodeInv

LEMMA ConsumeOutputPages == EncodeInv /\ ConsumeOutput => CodeInv' /\ PageInv'
<1>. SUFFICES ASSUME EncodeInv, ConsumeOutput PROVE CodeInv' /\ PageInv'
  OBVIOUS
<1>1. /\ UNCHANGED <<cfg, coding, enc_state, avail_in, out, enc_current>>
      /\ ret = "XD3_OUTPUT" /\ ret' \in {"XD3_OUTPUT", "run"} /\ avail_out' \in {0, avail_out}
  BY DEF ConsumeOutput, input, Return
<1>2. enc_state = "ENC_POSTOUT"
  BY <1>1 DEF EncodeInv, PageInv
<1>3. PageInv'
  BY <1>1, <1>2 DEF EncodeInv, PageInv, Ids
<1>. QED BY <1>1, <1>3, CodeQuiet DEF EncodeInv

LEMMA ContinuePages == EncodeInv /\ Continue => CodeInv' /\ PageInv'
<1>. SUFFICES ASSUME EncodeInv, Continue PROVE CodeInv' /\ PageInv'
  OBVIOUS
<1>1. /\ UNCHANGED <<cfg, coding, enc_state, avail_in>> /\ UNCHANGED output
      /\ ret' = "run" /\ ret \in {"XD3_WINSTART", "XD3_WINFINISH", "XD3_OUTPUT"}
  BY DEF Continue, input, Return
<1>. QED BY <1>1, CodeQuiet, PageQuiet DEF EncodeInv

LEMMA StutterPages == EncodeInv /\ UNCHANGED vars => CodeInv' /\ PageInv'
<1>. SUFFICES ASSUME EncodeInv, UNCHANGED vars PROVE CodeInv' /\ PageInv'
  OBVIOUS
<1>1. /\ UNCHANGED <<cfg, coding, enc_state, avail_in, ret, out, enc_current, avail_out>>
  BY DEF vars, input, output
<1>2. PageInv'
  BY <1>1 DEF EncodeInv, PageInv, Ids
<1>. QED BY <1>1, <1>2, CodeQuiet DEF EncodeInv

LEMMA InitEncodeInv == Init => EncodeInv
<1>. SUFFICES ASSUME Init PROVE EncodeInv
  OBVIOUS
<1>1. /\ enc_state = "ENC_INIT" /\ ret = "idle" /\ srcwin = NoSrcWin
      /\ acache = InitCache /\ iout = NoInst /\ unencoded_offset = 0 /\ out = NoPages
  BY DEF Init
<1>2. Paged(NoPages)
  BY NoPagesLists DEF Paged
<1>3. NoInst \in Insts
  BY TableFacts DEF NoInst, Insts, NOOP, NoCode
<1>4. srcwin.base \in Nat /\ srcwin.len \in Nat /\ srcwin.len <= Len(Source)
  <2>1. srcwin.base = 0 /\ srcwin.len = 0
    BY <1>1 DEF NoSrcWin
  <2>2. Len(Source) \in Nat
    BY SourceAssumption, LenProperties
  <2>. QED BY <2>1, <2>2
<1>5. CodeInv
  BY <1>1, <1>3, <1>4, InitCacheType DEF CodeInv, WindowStates
<1>6. PageInv
  BY <1>1, <1>2 DEF PageInv
<1>. QED BY <1>5, <1>6, InitEncInv DEF EncodeInv

LEMMA NextEncodeInv == EncodeInv /\ [Next]_vars => EncodeInv'
<1>. SUFFICES ASSUME EncodeInv, [Next]_vars PROVE EncodeInv'
  OBVIOUS
<1>1. EncInv'
  BY NextEncInv DEF EncodeInv
<1>2. CodeInv' /\ PageInv'
  BY EncInitPages, NoInputYetPages, UseDirectlyPages, BufferInputPages, UseBufferPages,
     SearchPages, EncodeAddPages, EncodeMatchPages, AddFinalizePages, FlushPages,
     MissedConsumePages, NextPagePages, PostWinPages, FeedPages, FeedMemoryPages,
     CallFirstPages, ConsumeOutputPages, ContinuePages, ClosePages, StutterPages
  DEF Next, Stream, Client, Done
<1>. QED BY <1>1, <1>2 DEF EncodeInv

LEMMA SpecEncodeInv == Spec => []EncodeInv
BY InitEncodeInv, NextEncodeInv, PTL DEF Spec

\* Whatever is allocated, written, joined, taken apart and used again, and
\* wherever an allocation fails: xd3_free_stream frees each page, and none of
\* them twice.
THEOREM EachPageIsFreedOnce == Spec => []FreesEachPageOnce
<1>1. EncodeInv => FreesEachPageOnce
  <2>. SUFFICES ASSUME EncodeInv PROVE FreesEachPageOnce
    OBVIOUS
  <2>1. Paged(out)
    BY DEF EncodeInv, PageInv
  <2>2. Len(FreeOutput(out)) = Len(out.page) /\ Range(FreeOutput(out)) = PageIds
    BY <2>1, FreeOutputFacts DEF Ids, PageIds
  <2>. QED BY <2>2 DEF FreesEachPageOnce
<1>. QED BY <1>1, SpecEncodeInv, PTL

-----------------------------------------------------------------------------
(* The rest of the types.                                                  *)

HeldInv ==
  /\ flush \in BOOLEAN /\ delivered \in Seq(Byte)
  /\ buf_in \in Seq(Byte) /\ Len(buf_in) <= cfg.winsize
  /\ buf_leftover \in Pointers /\ current_window \in Nat
  /\ closed \in {"open", "ok", "incomplete", "ENOSPC"}

LEMMA HeldQuiet ==
  ASSUME HeldInv,
         UNCHANGED <<cfg, flush, delivered, buf_in, buf_leftover, current_window, closed>>
  PROVE  HeldInv'
BY DEF HeldInv

LEMMA TakeInputHeld ==
  ASSUME EncodeInv, HeldInv, TakeInput,
         UNCHANGED <<cfg, flush, delivered, current_window, closed>>
  PROVE  HeldInv'
<1>1. EncInv
  BY DEF EncodeInv
<1>2. PICK b \in Nat, t \in Nat :
             /\ Taking = t /\ t <= avail_in /\ Len(Buffered) = b + t
             /\ Buffered = Piece(total_in, b + t) /\ b + t <= cfg.winsize
             /\ fed = total_in + b + avail_in
  BY <1>1, TakeInputFacts
<1>3. total_in \in Nat /\ avail_in \in Nat /\ fed \in Nat
  BY <1>1, CfgFacts
<1>4. total_in + (b + t) <= fed /\ b + t \in Nat
  BY <1>2, <1>3
<1>5. Buffered \in Seq(Byte)
  BY <1>1, <1>2, <1>3, <1>4, PieceType
<1>6. buf_in' = Buffered /\ buf_leftover' \in {Null, [next_in EXCEPT !.off = @ + t]}
  BY <1>2 DEF TakeInput
<1>7. buf_leftover' \in Pointers
  <2>1. next_in \in {Null, [in |-> "client", off |-> 0], [in |-> "buf_in", off |-> 0]}
    BY <1>1 DEF EncInv, NextIn
  <2>2. next_in \in Pointers /\ Null \in Pointers
    BY <2>1 DEF Null, Pointers
  <2>. QED BY <1>6, <2>2 DEF Pointers
<1>. QED BY <1>2, <1>5, <1>6, <1>7 DEF HeldInv

LEMMA ConsumeOutputHeld ==
  ASSUME EncodeInv, HeldInv, ConsumeOutput
  PROVE  HeldInv'
<1>1. /\ ret = "XD3_OUTPUT"
      /\ UNCHANGED <<cfg, flush, buf_in, buf_leftover, current_window>>
      /\ \/ closed' = "ENOSPC" /\ UNCHANGED delivered
         \/ /\ delivered' = delivered \o SubSeq(out.page[enc_current].base, 1, avail_out)
            /\ UNCHANGED closed
  BY DEF ConsumeOutput, input
<1>. DEFINE base == out.page[enc_current].base
<1>2. /\ Paged(out) /\ enc_current \in Ids(out) /\ avail_out \in {0, Len(base)}
  BY <1>1 DEF EncodeInv, PageInv
<1>3. base \in Seq(Byte) /\ Len(base) \in Nat
  BY <1>2, PagedTypes, OutputFacts
<1>. HIDE DEF base
<1>4. avail_out \in Nat /\ 0 + avail_out <= Len(base) /\ 0 + avail_out = avail_out /\ 0 + 1 = 1
  BY <1>2, <1>3
<1>5. SubSeq(base, 0 + 1, 0 + avail_out) \in Seq(Byte)
  BY <1>3, <1>4, SubSeqType
<1>6. SubSeq(base, 1, avail_out) \in Seq(Byte)
  BY <1>4, <1>5
<1>. DEFINE taken == SubSeq(base, 1, avail_out)
<1>7. delivered' \in {delivered, delivered \o taken}
  BY <1>1 DEF base
<1>. HIDE DEF taken
<1>8. delivered' \in Seq(Byte)
  BY <1>6, <1>7, ConcatProperties DEF HeldInv, taken
<1>. QED BY <1>1, <1>8 DEF HeldInv

LEMMA ResetHeld ==
  ASSUME HeldInv, UNCHANGED <<cfg, flush, delivered, buf_in, buf_leftover>>,
         current_window' \in {current_window, current_window + 1},
         closed' \in {"open", "ok", "incomplete"}
  PROVE  HeldInv'
BY DEF HeldInv

LEMMA NextHeldInv == EncodeInv /\ HeldInv /\ [Next]_vars => HeldInv'
<1>. SUFFICES ASSUME EncodeInv, HeldInv, [Next]_vars PROVE HeldInv'
  OBVIOUS
<1>1. ASSUME EncInit \/ NoInputYet \/ Search \/ EncodeAdd \/ EncodeMatch \/ AddFinalize
      PROVE  HeldInv'
  BY <1>1, HeldQuiet
  DEF EncInit, NoInputYet, Search, EncodeAdd, EncodeMatch, AddFinalize, FinishEncoding,
      client, input
<1>2. ASSUME UseDirectly \/ Flush \/ MissedConsume \/ NextPage PROVE HeldInv'
  BY <1>2, HeldQuiet DEF UseDirectly, StartWindow, Flush, MissedConsume, NextPage, client, input
<1>3. ASSUME BufferInput \/ UseBuffer PROVE HeldInv'
  <2>1. TakeInput /\ UNCHANGED <<cfg, flush, delivered, current_window, closed>>
    BY <1>3 DEF BufferInput, UseBuffer, StartWindow, client
  <2>. QED BY <2>1, TakeInputHeld
<1>4. CASE PostWin
  <2>1. /\ UNCHANGED <<cfg, flush, delivered, buf_in, buf_leftover, closed>>
        /\ current_window' = current_window + 1 /\ InCall("ENC_POSTWIN")
    BY <1>4 DEF PostWin, EncodeReset, client
  <2>2. closed = "open"
    BY <2>1, InCallFacts DEF EncodeInv
  <2>. QED BY <2>1, <2>2, ResetHeld
<1>5. CASE Close
  <2>1. /\ UNCHANGED <<cfg, flush, delivered, buf_in, buf_leftover>>
        /\ closed' \in {"ok", "incomplete"}
    BY <1>5 DEF Close
  <2>2. current_window' \in {current_window, current_window + 1}
    BY <1>5 DEF Close, EncodeReset
  <2>. QED BY <2>1, <2>2, ResetHeld
<1>6. ASSUME NEW n, AvailInput(n), flush' \in BOOLEAN PROVE HeldInv'
  BY <1>6 DEF AvailInput, HeldInv
<1>7. CASE Feed
  <2>1. PICK size \in cfg.pieces :
               /\ AvailInput(Least(size, Rest))
               /\ flush' = (ShortPiece(size) /\ cfg.client # "careless")
    BY <1>7 DEF Feed
  <2>2. (ShortPiece(size) /\ cfg.client # "careless") \in BOOLEAN
    OBVIOUS
  <2>3. flush' \in BOOLEAN
    BY <2>1, <2>2
  <2>. QED BY <1>6, <2>1, <2>3
<1>8. CASE FeedMemory
  <2>1. AvailInput(Least(cfg.winsize, Rest)) /\ flush' \in BOOLEAN
    BY <1>8 DEF FeedMemory, HeldInv
  <2>. QED BY <1>6, <2>1
<1>9. ASSUME CallFirst \/ Continue \/ UNCHANGED vars PROVE HeldInv'
  BY <1>9, HeldQuiet DEF CallFirst, Continue, vars, client, input
<1>10. CASE ConsumeOutput
  BY <1>10, ConsumeOutputHeld
<1>. QED
  BY <1>1, <1>2, <1>3, <1>4, <1>5, <1>7, <1>8, <1>9, <1>10 DEF Next, Stream, Client, Done

LEMMA InitHeldInv == Init => HeldInv
<1>. SUFFICES ASSUME Init PROVE HeldInv
  OBVIOUS
<1>1. /\ cfg \in Configs /\ delivered = <<>> /\ buf_in = <<>> /\ buf_leftover = Null
      /\ current_window = 0 /\ closed = "open" /\ flush = (cfg.client = "memory")
  BY DEF Init
<1>2. <<>> \in Seq(Byte) /\ Len(<<>>) = 0
  BY EmptySeq
<1>3. cfg.winsize \in Nat /\ Null \in Pointers
  BY <1>1, EncodeAssumption DEF Null, Pointers
<1>4. (cfg.client = "memory") \in BOOLEAN
  OBVIOUS
<1>5. flush \in BOOLEAN
  BY <1>1, <1>4
<1>. QED BY <1>1, <1>2, <1>3, <1>5 DEF HeldInv

\* Every variable of the encoder keeps its type, for files, windows, pieces and
\* pages of any size: no page is filled beyond its end, and no link leaves the
\* pages there are.
THEOREM EncoderTypes == Spec => []TypeOK
<1>1. EncodeInv /\ HeldInv => TypeOK
  <2>. SUFFICES ASSUME EncodeInv, HeldInv PROVE TypeOK
    OBVIOUS
  <2>1. EncInv /\ Paged(out)
    BY DEF EncodeInv, PageInv
  <2>2. /\ cfg \in Configs /\ fed \in 0 .. Len(cfg.file) /\ avail_in \in Nat
        /\ buf_avail \in Nat /\ buf_leftavail \in Nat /\ total_in \in Nat
        /\ enc_state \in {"ENC_INIT", "ENC_INPUT", "ENC_SEARCH", "ENC_INSTR", "ENC_FLUSH",
                          "ENC_POSTOUT", "ENC_POSTWIN"}
        /\ ret \in {"idle", "run", "XD3_INPUT", "XD3_WINSTART", "XD3_OUTPUT",
                    "XD3_WINFINISH"} \cup Errors
    BY <2>1 DEF EncInv, InputTypes, States, WindowStates, Returns
  <2>3. inbuf \in Seq(Byte)
    <3>1. /\ Len(inbuf) \in 0 .. fed /\ inbuf = Piece(fed - Len(inbuf), Len(inbuf))
      BY <2>1 DEF EncInv, ClientBuffer
    <3>. DEFINE n == Len(inbuf)
                i == fed - n
    <3>2. n \in Nat /\ i \in Nat /\ i + n <= fed
      BY <2>1, <3>1, CfgFacts
    <3>3. inbuf = Piece(i, n)
      BY <3>1
    <3>. HIDE DEF i, n
    <3>. QED BY <2>1, <3>2, <3>3, PieceType
  <2>4. next_in \in Pointers
    BY <2>1 DEF EncInv, NextIn, Null, Pointers
  <2>. DEFINE Links == PageIds \cup {NULL}
              R == [base : Seq(Byte), next_page : Links]
  <2>5. /\ out \in Outputs /\ \A p \in PageIds : out.page[p].next_page \in Links
        /\ out.heads \in [Sections -> Links]
    BY <2>1, PagedTypes DEF Ids, PageIds
  <2>6. /\ \A p \in PageIds : /\ out.page[p].base \in Seq(Byte)
                              /\ Len(out.page[p].base) <= PageSize
                              /\ out.page[p] \in PageRecords
        /\ out.page \in Seq(PageRecords) /\ Len(out.page) \in Nat
    BY <2>5, OutputFacts DEF Ids, PageIds
  <2>7. \A p \in PageIds : out.page[p] \in R
    <3>. HIDE DEF Links
    <3>1. \A r \in PageRecords : r = [base |-> r.base, next_page |-> r.next_page]
      BY DEF PageRecords
    <3>. QED BY <2>5, <2>6, <3>1
  <2>8. out.page \in Seq(R)
    <3>. HIDE DEF R
    <3>. QED BY <2>6, <2>7 DEF PageIds
  <2>. QED BY <2>2, <2>3, <2>4, <2>5, <2>6, <2>8 DEF HeldInv, TypeOK
<1>2. EncodeInv /\ HeldInv /\ [Next]_vars => (EncodeInv /\ HeldInv)'
  BY NextEncodeInv, NextHeldInv
<1>. QED BY <1>1, <1>2, InitEncodeInv, InitHeldInv, PTL DEF Spec
===============================================================================
