------------------------------ MODULE FlightLog ------------------------------
(***************************************************************************)
(* The flight log (flight_log.c): a ring of the latest records, filtered   *)
(* by level.  A record is written into its slot, shown to the callback,    *)
(* and only then do the indices advance.  The callback may read, log or    *)
(* clear, so calls nest; log_flush shows every stored record to it.        *)
(***************************************************************************)
EXTENDS Integers, Sequences

CONSTANTS
  LogSize,       \* LOG_BUFFER_SIZE
  LogLevel,      \* LogLevel_t, without the one below LOG_MIN_LEVEL
  SequenceRange, \* s_sequence counts modulo this, 2^16 in the code
  MaxCalls       \* bound on nested calls

ASSUME FlightLogAssumption ==
  /\ {LogSize, SequenceRange} \subseteq Nat \ {0}
  /\ LogLevel \subseteq Nat
  /\ MaxCalls \in Nat

VARIABLES
  flBuffer,     \* s_buffer: the sequence number in each slot
  flWrite,      \* s_write_index
  flRead,       \* s_read_index
  flCount,      \* s_entry_count
  flSequence,   \* s_sequence
  flLevel,      \* s_log_level
  flCallback,   \* s_callback is set
  flCalls,      \* calls in which a callback is running, innermost last:
                \* "write", or the index that log_flush has reached
  flReentered   \* history: a callback has logged or cleared

flVars == <<flBuffer, flWrite, flRead, flCount, flSequence, flLevel,
            flCallback, flCalls, flReentered>>
flIndices == <<flWrite, flRead, flCount>>

FlSlot == 0..(LogSize - 1)
FlSequences == 0..(SequenceRange - 1)
InCallback == flCalls # <<>>
Deeper(call) == Len(flCalls) < MaxCalls /\ flCalls' = Append(flCalls, call)
Outer == SubSeq(flCalls, 1, Len(flCalls) - 1)
Innermost == flCalls[Len(flCalls)]

FlInit ==
  /\ flBuffer = [s \in FlSlot |-> 0]
  /\ flWrite = 0
  /\ flRead = 0
  /\ flCount = 0
  /\ flSequence = 0
  /\ flLevel \in LogLevel
  /\ flCallback = FALSE
  /\ flCalls = <<>>
  /\ flReentered = FALSE

(* log_init, from the program. *)
FlInitialize ==
  /\ ~InCallback
  /\ flBuffer' = [s \in FlSlot |-> 0]
  /\ flWrite' = 0 /\ flRead' = 0 /\ flCount' = 0
  /\ flSequence' = 0
  /\ flLevel' \in {l \in LogLevel : \A k \in LogLevel : l <= k}
  /\ flCallback' = FALSE
  /\ UNCHANGED <<flCalls, flReentered>>

FlSetLevel(level) ==
  /\ flLevel' = level
  /\ UNCHANGED <<flBuffer, flIndices, flSequence, flCallback, flCalls, flReentered>>

RegisterCallback ==
  /\ ~InCallback
  /\ flCallback' = ~flCallback
  /\ UNCHANGED <<flBuffer, flIndices, flSequence, flLevel, flCalls, flReentered>>

(* The end of log_vwrite. *)
Advance ==
  /\ flWrite' = (flWrite + 1) % LogSize
  /\ flCount' = IF flCount < LogSize THEN flCount + 1 ELSE flCount
  /\ flRead' = IF flCount < LogSize THEN flRead ELSE (flRead + 1) % LogSize

(* log_vwrite down to the callback. *)
FlWrite(level) ==
  /\ level >= flLevel
  /\ flBuffer' = [flBuffer EXCEPT ![flWrite] = flSequence]
  /\ flSequence' = (flSequence + 1) % SequenceRange
  /\ IF flCallback
     THEN Deeper(-1) /\ UNCHANGED flIndices
     ELSE Advance /\ UNCHANGED flCalls
  /\ flReentered' = (flReentered \/ InCallback)
  /\ UNCHANGED <<flLevel, flCallback>>

FlClear ==
  /\ flWrite' = 0 /\ flRead' = 0 /\ flCount' = 0
  /\ flReentered' = (flReentered \/ InCallback)
  /\ UNCHANGED <<flBuffer, flSequence, flLevel, flCallback, flCalls>>

(* log_flush, which changes nothing itself. *)
Flush ==
  /\ flCallback
  /\ flCount > 0
  /\ Deeper(0)
  /\ UNCHANGED <<flBuffer, flIndices, flSequence, flLevel, flCallback, flReentered>>

(* The callback returns to log_vwrite or to the loop of log_flush. *)
CallbackReturns ==
  /\ InCallback
  /\ IF Innermost = -1
     THEN Advance /\ flCalls' = Outer
     ELSE /\ flCalls' = IF Innermost + 1 < flCount
                        THEN Append(Outer, Innermost + 1) ELSE Outer
          /\ UNCHANGED flIndices
  /\ UNCHANGED <<flBuffer, flSequence, flLevel, flCallback, flReentered>>

FlNext ==
  \/ FlInitialize
  \/ RegisterCallback
  \/ \E l \in LogLevel : FlSetLevel(l) \/ FlWrite(l)
  \/ FlClear
  \/ Flush
  \/ CallbackReturns

-----------------------------------------------------------------------------
(* Types; the indices agree whatever a callback does.                      *)
FlTypeOK ==
  /\ flBuffer \in [FlSlot -> FlSequences]
  /\ flWrite \in FlSlot
  /\ flRead \in FlSlot
  /\ flCount \in 0..LogSize
  /\ flWrite = (flRead + flCount) % LogSize
  /\ flSequence \in FlSequences
  /\ flLevel \in LogLevel
  /\ {flCallback, flReentered} \subseteq BOOLEAN
  /\ flCalls \in Seq(-1..(LogSize - 1)) /\ Len(flCalls) <= MaxCalls

(* What log_get_entry reads for the indices below log_get_count. *)
FlEntries == [i \in 1..flCount |-> flBuffer[(flRead + i - 1) % LogSize]]

(* While a record is shown to the callback it already lies in the slot of  *)
(* the oldest record of a full ring: a reader in the callback sees it in   *)
(* that place.                                                             *)
FlShown == InCallback /\ \E i \in DOMAIN flCalls : flCalls[i] = -1

FlBounded == INSTANCE BoundedLog WITH
  Depth <- LogSize,
  Record <- FlSequences,
  kept <- IF flReentered THEN <<>>
          ELSE IF FlShown
          THEN Append(IF flCount = LogSize THEN Tail(FlEntries) ELSE FlEntries,
                      flBuffer[flWrite])
          ELSE FlEntries
=============================================================================
