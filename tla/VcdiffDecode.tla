---------------------------- MODULE VcdiffDecode ----------------------------
(***************************************************************************)
(* What a decoder promises its client: the target comes out window by      *)
(* window, as the file means it, and an error is reported exactly when     *)
(* all the windows before the invalid one have been delivered.             *)
(***************************************************************************)
EXTENDS VcdiffFile

CONSTANTS
  Deltas      \* the delta files considered

VARIABLES
  file, verify, hasSource,   \* the delta, and how its reader is configured
  emits,                     \* FALSE: windows are only read past
  result,                    \* what the delta means: never changes
  delivered,                 \* the target the client has got so far
  verdict                    \* "open" until the end is known

avars == <<file, verify, hasSource, emits, result, delivered, verdict>>
fixed == <<file, verify, hasSource, emits, result>>

\* The target up to and including window k.
Upto(k) ==
  LET cat[i \in 0 .. k] == IF i = 0 THEN <<>> ELSE cat[i - 1] \o result.outs[i]
  IN  IF emits THEN cat[k] ELSE <<>>

AInit ==
  /\ file \in Deltas
  /\ verify \in BOOLEAN /\ hasSource \in BOOLEAN /\ emits \in BOOLEAN
  /\ result = Decoded(file, verify, hasSource)
  /\ delivered = <<>> /\ verdict = "open"

\* One more window.
Deliver ==
  /\ verdict = "open"
  /\ \E k \in 0 .. Len(result.outs) - 1 :
       /\ delivered = Upto(k)
       /\ delivered' = Upto(k + 1)
  /\ UNCHANGED <<fixed, verdict>>

AllDelivered == delivered = Upto(Len(result.outs))

\* The window after those delivered is invalid.
Reject ==
  /\ verdict = "open" /\ AllDelivered /\ result.ending = "bad"
  /\ verdict' = "error"
  /\ UNCHANGED <<fixed, delivered>>

\* The file has ended: well when it ends with a window (or inside the magic
\* bytes, which xd3_close_stream does not tell from an empty file).
Finish ==
  /\ verdict = "open" /\ AllDelivered /\ result.ending # "bad"
  /\ verdict' = IF result.ending = "end" \/ Len(file) < 4 THEN "ok"
                ELSE "eof in decode"
  /\ UNCHANGED <<fixed, delivered>>

ANext == Deliver \/ Reject \/ Finish

ASpec == AInit /\ [][ANext]_avars
=============================================================================
