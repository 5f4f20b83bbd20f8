---------------------------- MODULE StartupProofs ----------------------------
(***************************************************************************)
(* The reading of default.conf stays inside its buffer for every length of *)
(* the file and of its lines.                                              *)
(***************************************************************************)
EXTENDS Startup, TLAPS

-----------------------------------------------------------------------------
(* The invariant.                                                           *)

\* What getline has read and what it has still to read fit what ftell reported,
\* counted from where conf is: this is what makes up for the size that is never
\* reduced.
ReadInv ==
    seg_start # "null" => /\ conf + line + unread <= conf_size
                          /\ conf_size < allocation
                          /\ conf_size <= size

\* A buffer that has grown holds the whole file.
GrowthInv ==
    /\ seg_start # "null" /\ conf_size < size => unread = 0
    /\ seg_start = "stale" => conf_size < size
    /\ crash # "realloc"
    /\ crash = "free" => seg_start = "stale"

LineInv ==
    /\ pc = "open" => unread = conf_size /\ line = 0 /\ crash = "none"
    /\ pc = "getline" => line = 0
    /\ pc \notin {"open", "exited"} => seg_start # "null"

Inv ==
    /\ TypeOK
    /\ ReadInv
    /\ GrowthInv
    /\ LineInv

LEMMA InitInv == Init => Inv
  BY StartupAssumption DEF Init, Inv, TypeOK, ReadInv, GrowthInv, LineInv, LAUNCH_STEPS, Keys

LEMMA OpenConfInv ==
    ASSUME Inv, OpenConf
    PROVE  Inv'
  <1>1. conf_size \in Nat /\ unread = conf_size /\ line = 0 /\ pc = "open"
    BY StartupAssumption DEF Inv, TypeOK, LineInv, OpenConf
  <1>2. UNCHANGED <<conf_size, unread, line, params, launched, crash>>
    BY DEF OpenConf
  <1>3. CASE pc' = "exited" /\ UNCHANGED buffer
    BY <1>1, <1>2, <1>3 DEF Inv, TypeOK, ReadInv, GrowthInv, LineInv, buffer
  <1>4. CASE pc' = "getline" /\ Allocate(conf_size) /\ conf' = 0 /\ seg_start' = "live"
    <2>1. allocation' = conf_size + 1 /\ size' = conf_size
      BY <1>4 DEF Allocate
    <2>2. allocation' \in Nat /\ size' \in Nat /\ conf' \in Nat
      BY <1>1, <1>4, <2>1
    <2>3. TypeOK'
      BY <1>1, <1>2, <1>4, <2>2 DEF Inv, TypeOK
    <2>4. ReadInv'
      BY <1>1, <1>2, <1>4, <2>1 DEF ReadInv
    <2>5. GrowthInv' /\ LineInv'
      BY <1>1, <1>2, <1>4, <2>1 DEF Inv, GrowthInv, LineInv
    <2> QED
      BY <2>3, <2>4, <2>5 DEF Inv
  <1> QED
    BY <1>3, <1>4 DEF OpenConf

(***************************************************************************)
(* A line that does not fit is as long as the file, so nothing was         *)
(* consumed before it: realloc is given the start of the buffer.           *)
(***************************************************************************)
LEMMA LongLineIsWholeFile ==
    ASSUME Inv, pc = "getline", NEW length \in 1 .. unread, ~Fits(length)
    PROVE  conf = 0 /\ length = conf_size /\ size = conf_size /\ unread = length
  <1>1. /\ conf \in Nat /\ unread \in Nat /\ size \in Nat /\ conf_size \in Nat
        /\ conf + unread <= conf_size /\ conf_size <= size
        /\ conf_size < size => unread = 0
    BY StartupAssumption DEF Inv, TypeOK, ReadInv, GrowthInv, LineInv
  <1>2. length + 1 > size
    BY <1>1 DEF Fits
  <1> QED
    BY <1>1, <1>2

LEMMA GetlineInv ==
    ASSUME Inv, Getline
    PROVE  Inv'
  <1>1. PICK length \in 1 .. unread :
             /\ line' = length /\ unread' = unread - length
             /\ \/ /\ Fits(length) /\ pc' = "tokens"
                   /\ UNCHANGED <<buffer, crash>>
                \/ /\ ~Fits(length) /\ conf = 0 /\ pc' = "tokens"
                   /\ allocation' = 2 * size /\ size' = 2 * size
                   /\ seg_start' \in {seg_start, "stale"}
                   /\ UNCHANGED <<conf, crash>>
                \/ /\ ~Fits(length) /\ conf > 0 /\ Crash("realloc")
                   /\ UNCHANGED buffer
    BY DEF Getline
  <1>2. pc = "getline" /\ UNCHANGED <<conf_size, params, launched>>
    BY DEF Getline
  <1>3. /\ conf \in Nat /\ unread \in Nat /\ size \in Nat /\ conf_size \in Nat
        /\ allocation \in Nat /\ line = 0
    BY <1>2, StartupAssumption DEF Inv, TypeOK, LineInv
  <1>4. CASE Fits(length)
    <2>1. pc' = "tokens" /\ UNCHANGED <<allocation, size, conf, seg_start, crash>>
      BY <1>1, <1>4 DEF buffer
    <2>2. TypeOK'
      BY <1>1, <1>2, <1>3, <2>1 DEF Inv, TypeOK
    <2>3. ReadInv' /\ GrowthInv' /\ LineInv'
      BY <1>1, <1>2, <1>3, <2>1 DEF Inv, ReadInv, GrowthInv, LineInv
    <2> QED
      BY <2>2, <2>3 DEF Inv
  <1>5. CASE ~Fits(length)
    <2>1. conf = 0 /\ length = conf_size /\ size = conf_size /\ unread = length
      BY <1>2, <1>5, LongLineIsWholeFile
    <2>2. /\ pc' = "tokens" /\ allocation' = 2 * size /\ size' = 2 * size
          /\ seg_start' \in {seg_start, "stale"}
          /\ UNCHANGED <<conf, crash>>
      BY <1>1, <1>3, <1>5, <2>1
    <2>3. TypeOK'
      BY <1>1, <1>2, <1>3, <2>1, <2>2 DEF Inv, TypeOK
    <2>4. ReadInv' /\ GrowthInv' /\ LineInv'
      BY <1>1, <1>2, <1>3, <2>1, <2>2 DEF Inv, ReadInv, GrowthInv, LineInv
    <2> QED
      BY <2>3, <2>4 DEF Inv
  <1> QED
    BY <1>4, <1>5

LEMMA TokensInv ==
    ASSUME Inv, Tokens
    PROVE  Inv'
  <1>1. /\ pc = "tokens" /\ line' = 0
        /\ UNCHANGED <<conf_size, unread, allocation, seg_start, launched>>
    BY DEF Tokens
  <1>2. /\ conf \in Nat /\ unread \in Nat /\ size \in Nat /\ conf_size \in Nat
        /\ allocation \in Nat /\ line \in Nat
    BY StartupAssumption DEF Inv, TypeOK
  <1>3. /\ \E bytes \in 0 .. line : conf' = conf + bytes
        /\ size' = size
        /\ params' \subseteq Keys
        /\ \/ pc' = "getline" /\ crash' = crash
           \/ pc' = "crashed" /\ crash' = "null_token"
    <2>1. CASE \E key \in Keys : params' = params \cup {key}
      BY <2>1, <1>2 DEF Tokens, Consume, Crash, Inv, TypeOK
    <2>2. CASE UNCHANGED params
      BY <2>2, <1>2 DEF Tokens, Consume, Crash, Inv, TypeOK
    <2> QED
      BY <2>1, <2>2 DEF Tokens
  <1>4. conf' \in 0 .. conf_size
    BY <1>1, <1>2, <1>3 DEF Inv, ReadInv, LineInv
  <1>5. TypeOK'
    BY <1>1, <1>2, <1>3, <1>4 DEF Inv, TypeOK
  <1>6. ReadInv' /\ GrowthInv' /\ LineInv'
    BY <1>1, <1>2, <1>3 DEF Inv, ReadInv, GrowthInv, LineInv
  <1> QED
    BY <1>5, <1>6 DEF Inv

\* The end of the file: a buffer that grows here belongs to an empty file.
LEMMA GetlineEndsInv ==
    ASSUME Inv, GetlineEnds
    PROVE  Inv'
  <1>1. /\ pc = "getline" /\ pc' = "integrity"
        /\ UNCHANGED <<conf_size, unread, conf, line, params, launched, crash>>
    BY DEF GetlineEnds, buffer
  <1>2. /\ conf \in Nat /\ unread \in Nat /\ size \in Nat /\ conf_size \in Nat
        /\ line = 0 /\ conf + line + unread <= conf_size /\ conf_size <= size
    BY <1>1, StartupAssumption DEF Inv, TypeOK, ReadInv, LineInv
  <1>3. CASE size > 0
    BY <1>1, <1>2, <1>3 DEF GetlineEnds, buffer, Inv, TypeOK, ReadInv, GrowthInv, LineInv
  <1>4. CASE size = 0
    <2>1. /\ allocation' = 120 /\ size' = 120 /\ seg_start' \in {seg_start, "stale"}
          /\ conf_size = 0 /\ conf = 0 /\ unread = 0
      BY <1>2, <1>4 DEF GetlineEnds, FIRST_SIZE
    <2> QED
      BY <1>1, <1>2, <2>1 DEF Inv, TypeOK, ReadInv, GrowthInv, LineInv
  <1> QED
    BY <1>2, <1>3, <1>4

\* The steps that leave the buffer where it is.
LEMMA OtherInv ==
    ASSUME Inv, Integrity \/ LaunchTlsSocket
    PROVE  Inv'
  <1>1. /\ pc' \in {"integrity", "launch", "exited", "crashed", "run"}
        /\ pc \notin {"open", "exited"}
        /\ UNCHANGED <<conf_size, unread, allocation, size, conf, line, params>>
        /\ launched' \in 0 .. LAUNCH_STEPS
        /\ \/ UNCHANGED <<seg_start, crash>>
           \/ seg_start = "live" /\ seg_start' = "freed" /\ crash' = crash
           \/ seg_start = "stale" /\ seg_start' = "stale" /\ crash' = "free"
    <2> USE DEF Inv, TypeOK, buffer, Crash, LAUNCH_STEPS
    <2>1. CASE Integrity
      BY <2>1 DEF Integrity
    <2>2. CASE LaunchTlsSocket
      BY <2>2 DEF LaunchTlsSocket
    <2> QED
      BY <2>1, <2>2
  <1>2. TypeOK'
    BY <1>1 DEF Inv, TypeOK
  <1>3. ReadInv' /\ GrowthInv' /\ LineInv'
    BY <1>1 DEF Inv, ReadInv, GrowthInv, LineInv
  <1> QED
    BY <1>2, <1>3 DEF Inv

LEMMA StutterInv ==
    ASSUME Inv, UNCHANGED vars
    PROVE  Inv'
  BY DEF Inv, vars, buffer, TypeOK, ReadInv, GrowthInv, LineInv

(***************************************************************************)
(* What was found of the configuration: a key is only found in a line that *)
(* was consumed, and a buffer that was moved belongs to a file of one line *)
(* at most, which has one key at most.                                     *)
(***************************************************************************)
ConfiguredInv ==
    /\ pc = "open" => params = {}
    /\ pc = "tokens" => line > 0
    /\ params # {} => conf > 0
    /\ seg_start = "stale" => \E key \in Keys : params \subseteq {key}
    /\ seg_start = "stale" /\ pc = "tokens" => params = {}
    /\ pc \in {"launch", "run"} => params = Keys
    /\ pc = "run" => launched = LAUNCH_STEPS

LEMMA ConfiguredStep ==
    ASSUME Inv, ConfiguredInv, [Next]_vars
    PROVE  ConfiguredInv'
  <1>1. /\ conf \in Nat /\ unread \in Nat /\ size \in Nat /\ conf_size \in Nat /\ line \in Nat
        /\ params \subseteq Keys
        /\ seg_start = "stale" => unread = 0
        /\ seg_start # "null" => conf + line + unread <= conf_size /\ conf_size <= size
    BY StartupAssumption DEF Inv, TypeOK, ReadInv, GrowthInv
  <1>2. Keys # {}
    BY DEF Keys
  <1>3. CASE OpenConf
    BY <1>3 DEF OpenConf, Allocate, buffer, Inv, LineInv, GrowthInv, ConfiguredInv
  <1>4. CASE Getline
    <2>1. PICK length \in 1 .. unread :
             /\ line' = length
             /\ \/ pc' = "tokens" /\ UNCHANGED <<conf, seg_start>>
                \/ pc' = "tokens" /\ conf = 0 /\ UNCHANGED conf
                \/ pc' = "crashed" /\ UNCHANGED <<conf, seg_start>>
      BY <1>4 DEF Getline, Crash, buffer
    <2>2. /\ params' = params /\ seg_start # "stale" /\ line' > 0
          /\ conf = 0 => params = {}
      BY <1>1, <1>4, <2>1 DEF Getline, ConfiguredInv
    <2> QED
      BY <1>1, <1>2, <2>1, <2>2 DEF ConfiguredInv
  <1>5. CASE GetlineEnds
    <2>1. /\ pc = "getline" /\ pc' = "integrity" /\ UNCHANGED <<conf, params>>
          /\ UNCHANGED seg_start \/ size = 0
      BY <1>5 DEF GetlineEnds, buffer
    <2>2. size = 0 => params = {}
      BY <1>1, <2>1 DEF ConfiguredInv, Inv, LineInv
    <2> QED
      BY <1>2, <2>1, <2>2 DEF ConfiguredInv
  <1>6. CASE Tokens
    <2>1. pc = "tokens" /\ pc' \in {"getline", "crashed"} /\ UNCHANGED seg_start
      BY <1>6 DEF Tokens, Crash
    <2>2. /\ \E key \in Keys : params' \subseteq params \cup {key}
          /\ params' # {} => conf' > 0
      <3>1. CASE \E key \in Keys : params' = params \cup {key} /\ Consume(line)
        BY <1>1, <2>1, <3>1 DEF Consume, ConfiguredInv
      <3>2. CASE UNCHANGED params /\ (UNCHANGED conf \/ \E bytes \in 1 .. line : Consume(bytes))
        <4>1. conf' >= conf
          BY <1>1, <3>2 DEF Consume
        <4>2. params # {} => conf' > 0
          BY <1>1, <4>1, <3>2 DEF ConfiguredInv, Consume
        <4> QED
          BY <1>2, <3>2, <4>2
      <3> QED
        BY <1>6, <3>1, <3>2 DEF Tokens
    <2> QED
      BY <2>1, <2>2 DEF ConfiguredInv
  <1>7. CASE Integrity
    BY <1>7 DEF Integrity, AllKeysFound, Crash, ConfiguredInv
  <1>8. CASE LaunchTlsSocket
    BY <1>8 DEF LaunchTlsSocket, ConfiguredInv, buffer
  <1>9. CASE UNCHANGED vars
    BY <1>9 DEF vars, buffer, ConfiguredInv
  <1> QED
    BY <1>3, <1>4, <1>5, <1>6, <1>7, <1>8, <1>9 DEF Next

-----------------------------------------------------------------------------
(* The theorems.                                                            *)

\* Inv is an inductive invariant of the start of main.
THEOREM Invariant == Spec => []Inv
  <1>1. Init => Inv
    BY InitInv
  <1>2. Inv /\ [Next]_vars => Inv'
    BY OpenConfInv, GetlineInv, TokensInv, GetlineEndsInv, OtherInv, StutterInv DEF Next
  <1> QED
    BY <1>1, <1>2, PTL DEF Spec

\* The variables of the start of main keep their types.
THEOREM TypeCorrect == Spec => []TypeOK
  <1>1. Inv => TypeOK
    BY DEF Inv
  <1> QED
    BY <1>1, Invariant, PTL

(***************************************************************************)
(* No line of default.conf, however long the file and its lines are, is    *)
(* written behind the buffer that SetServerStartupParams allocated.        *)
(***************************************************************************)
THEOREM LinesStayInBuffer == Spec => []LineStaysInBuffer
  <1>1. Inv => LineStaysInBuffer
    <2> SUFFICES ASSUME Inv, pc = "tokens" PROVE conf + line + 1 <= allocation
      BY DEF LineStaysInBuffer
    <2>1. /\ conf \in Nat /\ unread \in Nat /\ conf_size \in Nat
          /\ allocation \in Nat /\ line \in Nat
      BY StartupAssumption DEF Inv, TypeOK
    <2> QED
      BY <2>1 DEF Inv, ReadInv, LineInv
  <1> QED
    BY <1>1, Invariant, PTL

\* getline only grows the buffer for a file of one line or none.
THEOREM GrowthIsHarmless == Spec => []OnlyOneLineIsReallocated
  <1>1. Inv => OnlyOneLineIsReallocated
    BY StartupAssumption DEF Inv, TypeOK, GrowthInv, OnlyOneLineIsReallocated
  <1> QED
    BY <1>1, Invariant, PTL

(***************************************************************************)
(* RunServer is only entered with all seven parameters, and a file that    *)
(* has them all never makes the loader free its buffer twice, for every    *)
(* length of the file and its lines.                                       *)
(***************************************************************************)
THEOREM OnlyConfiguredServerRuns == Spec => []RunsFullyConfigured
  <1>1. Init => ConfiguredInv
    BY DEF Init, ConfiguredInv
  <1>2. Inv /\ ConfiguredInv => RunsFullyConfigured
    <2>1. ASSUME Inv, ConfiguredInv, params = Keys PROVE crash \in {"none", "null_token"}
      <3>1. seg_start # "stale"
        <4>1. "port:" \in Keys /\ "host:" \in Keys
          BY DEF Keys
        <4> QED
          BY <2>1, <4>1 DEF ConfiguredInv
      <3> QED
        BY <2>1, <3>1 DEF Inv, TypeOK, GrowthInv
    <2> QED
      BY <2>1 DEF RunsFullyConfigured, ConfiguredInv
  <1> QED
    BY <1>1, <1>2, Invariant, ConfiguredStep, PTL DEF Spec

=============================================================================
