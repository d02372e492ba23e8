------------------------- MODULE SensorManager_proofs -------------------------
(***************************************************************************)
(* Proofs about the sensors: what their readings say of the window they    *)
(* describe, for every length of it, and that the three implement the      *)
(* abstract sensor task.                                                   *)
(***************************************************************************)
EXTENDS SensorManager, SequenceTheorems, TLAPS

(* Lines come in the order of their counts, none from before the last that  *)
(* was read.                                                                *)
NotAfter(a, b) == a.sent <= b.sent /\ a.rcvd <= b.rcvd

LinesInv ==
  /\ NotAfter(prev, packets)
  /\ \A i \in 1..Len(stderr) : NotAfter(prev, stderr[i]) /\ NotAfter(stderr[i], packets)
  /\ \A i, j \in 1..Len(stderr) : i <= j => NotAfter(stderr[i], stderr[j])

(* The counts of the line just read are accounted for with the reading that *)
(* is made of it.                                                           *)
LossInv ==
  /\ LossAccounted
  /\ pingPc = "store" /\ next.kind # "exit" =>
       claimed + next.loss_percent * next.sent >= 100 * (prev.sent - prev.rcvd)

(* What is about to be stored is of the process that runs or just ended.    *)
NextInv ==
  pingPc = "store" =>
    /\ next.from = life
    /\ next.kind # "none"
    /\ next.kind = "exit" => ~next.reachable

PingInv == PingTypeOK /\ LinesInv /\ LossInv /\ NextInv /\ ReachableIsCurrent

(* A reading of the counters is at most a collection later than its stamp.  *)
TimesInv ==
  /\ systemPc \in {"collect", "store", "sleep", "done"} <=> prev_tick_at # None
  /\ prev_tick_at <= instant /\ readAt <= instant
  /\ systemPc = "collect" =>
       /\ instant <= prev_tick_at + CollectDelay
       /\ elapsed > 0 =>
            readAt \in (prev_tick_at - elapsed)..(prev_tick_at - elapsed + CollectDelay)
  /\ systemPc \in {"store", "sleep"} =>
       readAt \in prev_tick_at..(prev_tick_at + CollectDelay)

(* Counters only grow by what passes, or start again.                       *)
TrafficInv ==
  \A i \in Interface :
    counter[i] # Absent /\ prev_net_bytes[i] # Absent =>
      counter[i] - prev_net_bytes[i] <= moved[i]

SystemInv ==
  SystemTypeOK /\ TimesInv /\ TrafficInv /\ NoInventedTraffic /\ DenominatorClose

(* The cells that are remembered were seen recently when neighbours were    *)
(* last named, and a reading has a signal.                                  *)
LteInv ==
  /\ wall \in Nat /\ heard \in Nat
  /\ \A c \in DOMAIN neighbors :
       neighbors[c] \in Nat /\ heard - neighbors[c] <= neighbor_expiry_s
  /\ lte = [signal |-> lte.signal, neighbors |-> lte.neighbors]
  /\ lte = NoLte \/ lte.signal # NoSignal
  /\ ltePc = "store" => lteNext # NoSignal
  /\ NeighborsFresh

(* The modems whose type is known, and the type.                            *)
Models == {"SIMCOM_SIM7600G-H", "EM12-G", "EM060K-GL", "EM06-E", FAKE}
TypeOf(model) ==
  CASE model = "SIMCOM_SIM7600G-H" -> "Simcom7600"
    [] model \in {"EM12-G", FAKE} -> "QuectelEm12"
    [] model = "EM060K-GL" -> "QuectelEm06GL"
    [] model = "EM06-E" -> "QuectelEm06E"

(* A signal that says what a modem with these fields sent.                  *)
Decoded(signal, model) ==
  /\ "pcid" \in DOMAIN signal
  /\ signal.pcid \in Cell
  /\ \A q \in DOMAIN signal \ {"pcid"} :
       signal[q] = IF q \in ToSet(Fields(model)) THEN q ELSE "0"

(* The type fits the modem that is there, and so does every signal that is  *)
(* stored or about to be.                                                   *)
SignalInv ==
  /\ modem \in Modem \cup {NoModem}
  /\ ltePc \in {"lookup", "detect", "sleep", "query", "store", "update", "done", "off"}
  /\ at_counter \in Nat
  /\ DOMAIN neighbors \subseteq Cell
  /\ ltePc \in {"off", "lookup", "detect"} =>
       modem_type = Unknown /\ lteNext = NoSignal /\ lte = NoLte
  /\ ltePc \in {"sleep", "query", "store", "update"} => modem_type # Unknown
  /\ modem_type # Unknown => modem \in Models /\ modem_type = TypeOf(modem)
  /\ lteNext = NoSignal \/ Decoded(lteNext, modem)
  /\ lte = NoLte \/ Decoded(lte.signal, modem)

-----------------------------------------------------------------------------
(* The steps of a sensor leave the others alone.                            *)
LEMMA PingSteps ==
  ASSUME [Next]_vars
  PROVE  PingStart \/ PingTask \/ PingProcess \/ UNCHANGED pingVars
BY DEF Next, vars, run, Sensing, Sensor, PingStep, SystemStep, LteStep, World, Cancel,
       Keep, Release

LEMMA SystemSteps ==
  ASSUME [Next]_vars
  PROVE  SystemStart \/ SystemTask \/ Host \/ UNCHANGED systemVars
BY DEF Next, vars, run, Sensing, Sensor, PingStep, SystemStep, LteStep, World, Cancel,
       Keep, Release

LEMMA LteSteps ==
  ASSUME [Next]_vars
  PROVE  LteStart \/ LteTask \/ Clock \/ UNCHANGED lteVars
BY DEF Next, vars, run, Sensing, Sensor, PingStep, SystemStep, LteStep, World, Cancel,
       Keep, Release

-----------------------------------------------------------------------------
(* Ping.                                                                    *)

(* What a percentage that is rounded up stands for.                         *)
LEMMA LossCovers ==
  ASSUME NEW s \in Nat, NEW r \in Nat
  PROVE  /\ calculate_loss_percent(s, r) \in 0..100
         /\ calculate_loss_percent(s, r) * s >= 100 * (s - r)
BY DEF calculate_loss_percent

(* A reading made of a line that is not older than the last one.            *)
LEMMA ReadingCovers ==
  ASSUME life \in Nat, prev \in Count, NEW line \in Count, NotAfter(prev, line)
  PROVE  LET reading == compute_reading(line)
         IN  /\ reading \in Reading
             /\ reading.from = life /\ reading.kind = "stats"
             /\ reading.loss_percent * reading.sent
                  >= 100 * ((line.sent - prev.sent) - (line.rcvd - prev.rcvd))
<1> DEFINE s == line.sent - prev.sent
           r == line.rcvd - prev.rcvd
           loss == calculate_loss_percent(s, r)
<1>1. /\ line.sent \in Nat /\ line.rcvd \in Nat
      /\ prev.sent \in Nat /\ prev.rcvd \in Nat
  BY DEF Count
<1>2. s \in Nat /\ r \in Nat
  BY <1>1 DEF NotAfter
<1>3. /\ SaturatingSub(line.sent, prev.sent) = s
      /\ SaturatingSub(line.rcvd, prev.rcvd) = r
  BY <1>1 DEF NotAfter, SaturatingSub
<1>4. loss \in 0..100 /\ loss * s >= 100 * (s - r)
  BY <1>2, LossCovers
<1>5. compute_reading(line) =
        [from |-> life, sent |-> s, kind |-> "stats",
         reachable |-> HasLatency(line) /\ loss < 100, loss_percent |-> loss]
  BY <1>3 DEF compute_reading
<1>6. (HasLatency(line) /\ loss < 100) \in BOOLEAN
  BY DEF HasLatency
<1> HIDE DEF s, r, loss
<1>7. compute_reading(line) \in Reading
  BY <1>2, <1>4, <1>5, <1>6 DEF Reading
<1>8. compute_reading(line).loss_percent * compute_reading(line).sent >= 100 * (s - r)
  BY <1>4, <1>5
<1> QED
  BY <1>5, <1>7, <1>8 DEF s, r

LEMMA PingStarts == PingInit => PingInv
<1> SUFFICES ASSUME PingInit PROVE PingInv
  OBVIOUS
<1>1. Len(<<>>) = 0 /\ <<>> \in Seq(Count)
  OBVIOUS
<1>2. PingTypeOK
  <2>1. Zero \in Count /\ NoReading \in Reading
    BY DEF Zero, NoReading, Count, Reading
  <2> QED
    BY <1>1, <2>1 DEF PingInit, PingTypeOK
<1>3. LinesInv
  BY <1>1 DEF PingInit, LinesInv, NotAfter, Zero
<1>4. LossInv /\ NextInv /\ ReachableIsCurrent
  BY DEF PingInit, LossInv, LossAccounted, NextInv, ReachableIsCurrent, NoReading
<1> QED
  BY <1>2, <1>3, <1>4 DEF PingInv

(* The actions that leave counts, lines and readings as they are.           *)
LEMMA PingIdles ==
  ASSUME PingInv,
         PingStart \/ SpawnFails \/ ReadEof \/ ProcessExits \/ PauseEnds
           \/ UNCHANGED pingVars
  PROVE  PingInv'
<1>1. UNCHANGED <<life, packets, stderr, prev, next, ping, claimed>>
  BY DEF PingStart, SpawnFails, ReadEof, ProcessExits, PauseEnds, pingVars
<1>2. PingTypeOK'
  BY <1>1 DEF PingInv, PingTypeOK, PingStart, SpawnFails, ReadEof, ProcessExits, PauseEnds,
              pingVars
<1>3. LinesInv'
  BY <1>1 DEF PingInv, LinesInv, NotAfter
<1>4. \/ pingPc' = pingPc
      \/ pingPc \in {"off", "spawn", "pause"} /\ pingPc' \in {"spawn", "pause", "done"}
  BY DEF PingStart, SpawnFails, ReadEof, ProcessExits, PauseEnds, pingVars
<1>5. LossInv' /\ NextInv' /\ ReachableIsCurrent'
  BY <1>1, <1>4 DEF PingInv, LossInv, LossAccounted, NextInv, ReachableIsCurrent
<1> QED
  BY <1>2, <1>3, <1>5 DEF PingInv

(* A new process begins with new counts.                                    *)
LEMMA PingSpawns ==
  ASSUME PingInv, Spawn
  PROVE  PingInv'
<1>1. Len(<<>>) = 0 /\ <<>> \in Seq(Count)
  OBVIOUS
<1>2. PingTypeOK'
  BY <1>1 DEF Spawn, PingInv, PingTypeOK, Zero, Count
<1>3. LinesInv'
  BY <1>1 DEF Spawn, LinesInv, NotAfter, Zero
<1>4. LossInv' /\ NextInv'
  BY DEF Spawn, LossInv, LossAccounted, NextInv, Zero
<1>5. ReachableIsCurrent'
  BY DEF Spawn, PingInv, ReachableIsCurrent
<1> QED
  BY <1>2, <1>3, <1>4, <1>5 DEF PingInv

(* Packets are counted and counts printed.                                  *)
LEMMA PingCounts ==
  ASSUME PingInv, SendPacket \/ ReceiveReply \/ Quit
  PROVE  PingInv'
<1> USE DEF PingInv
<1>1. /\ packets' \in Count /\ NotAfter(packets, packets')
      /\ NotAfter(prev, packets')
      /\ UNCHANGED processFrame
  BY DEF SendPacket, ReceiveReply, Quit, PingTypeOK, Count, NotAfter, LinesInv, processFrame
<1>2. /\ stderr' \in Seq(Count)
      /\ \A i \in 1..Len(stderr') : stderr'[i] \in Count
      /\ \/ stderr' = stderr
         \/ packets' = packets /\ stderr' = Append(stderr, packets)
  BY DEF SendPacket, ReceiveReply, Quit, PingTypeOK
<1>3. LinesInv'
  <2>1. CASE stderr' = stderr
    <3>1. \A i \in 1..Len(stderr) : NotAfter(stderr[i], packets')
      <4>1. packets \in Count
        BY DEF PingTypeOK
      <4>2. \A i \in 1..Len(stderr) : stderr[i] \in Count /\ NotAfter(stderr[i], packets)
        BY <1>2, <2>1 DEF LinesInv
      <4> QED
        BY <1>1, <4>1, <4>2 DEF NotAfter, Count
    <3> QED
      BY <1>1, <2>1, <3>1 DEF LinesInv, NotAfter, processFrame
  <2>2. CASE packets' = packets /\ stderr' = Append(stderr, packets)
    <3>1. Len(stderr') = Len(stderr) + 1 /\ Len(stderr) \in Nat
      BY <2>2 DEF PingTypeOK
    <3>2. /\ \A i \in 1..Len(stderr) : stderr'[i] = stderr[i]
          /\ stderr'[Len(stderr) + 1] = packets
      BY <2>2 DEF PingTypeOK
    <3>3. NotAfter(packets, packets)
      BY DEF PingTypeOK, Count, NotAfter
    <3>4. \A i \in 1..Len(stderr') :
            NotAfter(prev, stderr'[i]) /\ NotAfter(stderr'[i], packets)
      BY <3>1, <3>2, <3>3 DEF LinesInv
    <3>5. \A i, j \in 1..Len(stderr') : i <= j => NotAfter(stderr'[i], stderr'[j])
      BY <3>1, <3>2, <3>4 DEF LinesInv
    <3> QED
      BY <1>1, <2>2, <3>4, <3>5 DEF LinesInv, NotAfter, processFrame
  <2> QED
    BY <1>2, <2>1, <2>2
<1>4. PingTypeOK'
  BY <1>1, <1>2 DEF PingTypeOK, processFrame
<1>5. LossInv' /\ NextInv' /\ ReachableIsCurrent'
  BY <1>1 DEF LossInv, LossAccounted, NextInv, ReachableIsCurrent, processFrame
<1> QED
  BY <1>3, <1>4, <1>5

(* A line is read: it is not older than the last one.                       *)
LEMMA PingReads ==
  ASSUME PingInv, ReadLine
  PROVE  PingInv'
<1> USE DEF PingInv
<1> DEFINE line == Head(stderr)
<1>1. /\ stderr \in Seq(Count) /\ stderr # <<>> /\ Len(stderr) \in Nat \ {0}
      /\ line \in Count /\ line = stderr[1]
      /\ stderr' = Tail(stderr) /\ stderr' \in Seq(Count)
      /\ Len(stderr') = Len(stderr) - 1
      /\ \A i \in 1..Len(stderr') : stderr'[i] = stderr[i + 1]
  BY DEF ReadLine, PingTypeOK
<1>2. NotAfter(prev, line) /\ NotAfter(line, packets)
  BY <1>1 DEF LinesInv
<1>3. LET reading == compute_reading(line)
      IN  /\ reading \in Reading
          /\ reading.from = life /\ reading.kind = "stats"
          /\ reading.loss_percent * reading.sent
               >= 100 * ((line.sent - prev.sent) - (line.rcvd - prev.rcvd))
  BY <1>1, <1>2, ReadingCovers DEF PingTypeOK
<1>4. /\ next' = compute_reading(line) /\ prev' = line /\ pingPc' = "store"
      /\ pingPc = "watch"
      /\ UNCHANGED <<process, life, packets, stderr_open, quitting, ping, claimed>>
  BY DEF ReadLine
<1> HIDE DEF line
<1>5. PingTypeOK'
  BY <1>1, <1>3, <1>4 DEF PingTypeOK
<1>6. LinesInv'
  <2>1. \A i \in 1..Len(stderr') : i + 1 \in 1..Len(stderr) /\ 1 \in 1..Len(stderr)
    BY <1>1
  <2>2. \A i \in 1..Len(stderr') : NotAfter(line, stderr'[i]) /\ NotAfter(stderr'[i], packets)
    BY <1>1, <2>1 DEF LinesInv
  <2>3. \A i, j \in 1..Len(stderr') : i <= j => NotAfter(stderr'[i], stderr'[j])
    BY <1>1, <2>1 DEF LinesInv
  <2> QED
    BY <1>2, <1>4, <2>2, <2>3 DEF LinesInv, NotAfter
<1>7. LossInv'
  <2>1. claimed \in Nat /\ claimed >= 100 * (prev.sent - prev.rcvd)
    BY <1>4 DEF LossInv, LossAccounted, PingTypeOK
  <2>2. /\ line.sent \in Nat /\ line.rcvd \in Nat
        /\ prev.sent \in Nat /\ prev.rcvd \in Nat
    BY <1>1 DEF PingTypeOK, Count
  <2> DEFINE share == compute_reading(line).loss_percent * compute_reading(line).sent
  <2>3. share \in Nat
    BY <1>3 DEF Reading
  <2>4. share >= 100 * ((line.sent - prev.sent) - (line.rcvd - prev.rcvd))
    BY <1>3
  <2> HIDE DEF share
  <2>5. claimed + share >= 100 * (line.sent - line.rcvd)
    BY <2>1, <2>2, <2>3, <2>4
  <2> QED
    BY <1>4, <2>5 DEF LossInv, LossAccounted, share
<1>8. NextInv' /\ ReachableIsCurrent'
  BY <1>3, <1>4 DEF NextInv, ReachableIsCurrent
<1> QED
  BY <1>5, <1>6, <1>7, <1>8

(* The end of the process, and what is stored.                              *)
LEMMA PingStores ==
  ASSUME PingInv, NoticeExit \/ StorePing \/ PingKilled
  PROVE  PingInv'
<1> USE DEF PingInv
<1>1. Len(<<>>) = 0 /\ <<>> \in Seq(Count)
  OBVIOUS
<1>2. CASE NoticeExit
  <2>1. PingTypeOK'
    <3>1. ExitReading \in Reading
      BY DEF PingTypeOK, ExitReading, Reading
    <3> QED
      BY <1>1, <1>2, <3>1 DEF NoticeExit, PingTypeOK
  <2>2. LinesInv'
    BY <1>1, <1>2 DEF NoticeExit, LinesInv, NotAfter
  <2>3. LossInv' /\ NextInv' /\ ReachableIsCurrent'
    BY <1>2 DEF NoticeExit, LossInv, LossAccounted, NextInv, ReachableIsCurrent, ExitReading
  <2> QED
    BY <2>1, <2>2, <2>3
<1>3. CASE PingKilled
  <2>1. PingTypeOK'
    BY <1>1, <1>3 DEF PingKilled, PingTypeOK
  <2>2. LinesInv'
    BY <1>1, <1>3 DEF PingKilled, LinesInv, NotAfter
  <2>3. LossInv' /\ NextInv' /\ ReachableIsCurrent'
    BY <1>3 DEF PingKilled, LossInv, LossAccounted, NextInv, ReachableIsCurrent
  <2> QED
    BY <2>1, <2>2, <2>3
<1>4. CASE StorePing
  <2>1. /\ pingPc = "store" /\ ping' = next
        /\ claimed' = claimed + next.loss_percent * next.sent
        /\ pingPc' = IF next.kind = "exit" THEN "pause" ELSE "watch"
        /\ UNCHANGED <<process, life, packets, stderr, stderr_open, quitting, prev, next>>
    BY <1>4 DEF StorePing
  <2>2. next.loss_percent \in Nat /\ next.sent \in Nat
    <3>1. next \in Reading
      BY DEF PingTypeOK
    <3> QED
      BY <3>1 DEF Reading
  <2>3. claimed' \in Nat
    BY <2>1, <2>2 DEF PingTypeOK
  <2>4. PingTypeOK'
    BY <2>1, <2>3 DEF PingTypeOK
  <2>5. LinesInv'
    BY <2>1 DEF LinesInv, NotAfter
  <2>6. LossInv' /\ NextInv' /\ ReachableIsCurrent'
    BY <2>1 DEF LossInv, LossAccounted, NextInv, ReachableIsCurrent
  <2> QED
    BY <2>4, <2>5, <2>6
<1> QED
  BY <1>2, <1>3, <1>4

LEMMA PingAlways == Spec => []PingInv
<1>1. Init => PingInv
  BY PingStarts DEF Init
<1>2. PingInv /\ [Next]_vars => PingInv'
  <2> SUFFICES ASSUME PingInv, [Next]_vars PROVE PingInv'
    OBVIOUS
  <2> QED
    BY PingSteps, PingIdles, PingSpawns, PingCounts, PingReads, PingStores
       DEF PingTask, PingProcess
<1> QED
  BY <1>1, <1>2, PTL DEF Spec

-----------------------------------------------------------------------------
(* System.                                                                  *)

(* What a rate that is rounded to the nearest stands for.                   *)
LEMMA RateCovers ==
  ASSUME NEW p \in Nat, NEW c \in Nat, NEW e \in Nat, NEW m \in Nat, c - p <= m
  PROVE  /\ compute_bps(p, c, e) \in Nat
         /\ 2 * compute_bps(p, c, e) * e <= 16 * m + e
BY DEF compute_bps, Absent

LEMMA NewRate ==
  ASSUME NEW c \in Nat, NEW e \in Nat, NEW m \in Nat
  PROVE  /\ compute_bps(Absent, c, e) = 0
         /\ 2 * compute_bps(Absent, c, e) * e <= 16 * m + e
BY DEF compute_bps

LEMMA SystemStarts == SystemInit => SystemInv
<1> SUFFICES ASSUME SystemInit PROVE SystemInv
  OBVIOUS
<1>1. SystemTypeOK
  BY DEF SystemInit, SystemTypeOK, Nowhere
<1>2. TimesInv /\ TrafficInv
  BY DEF SystemInit, TimesInv, TrafficInv, Nowhere, None
<1>3. NoInventedTraffic /\ DenominatorClose
  BY DEF SystemInit, NoInventedTraffic, DenominatorClose
<1> QED
  BY <1>1, <1>2, <1>3 DEF SystemInv

(* Time passes, and interfaces count, go and come.                          *)
LEMMA HostKeeps ==
  ASSUME SystemInv, Host \/ UNCHANGED systemVars
  PROVE  SystemInv'
<1> USE DEF SystemInv
<1>1. UNCHANGED sensorFrame
  BY DEF Host, Tick, Traffic, Plug, systemVars, sensorFrame
<1>2. NoInventedTraffic' /\ DenominatorClose'
  BY <1>1 DEF sensorFrame, NoInventedTraffic, DenominatorClose
<1>3. /\ instant \in Nat /\ instant' \in Nat /\ instant <= instant'
      /\ systemPc = "collect" /\ instant' # instant =>
           instant' = instant + 1 /\ instant < prev_tick_at + CollectDelay
  BY DEF Host, Tick, Traffic, Plug, systemVars, SystemTypeOK
<1>4. prev_tick_at \in Nat \cup {None} /\ CollectDelay \in Nat /\ readAt \in Nat
  BY SystemTimeAssumption DEF SystemTypeOK
<1>5. TimesInv'
  <2>1. prev_tick_at <= instant' /\ readAt <= instant'
    BY <1>3, <1>4 DEF TimesInv, None
  <2>2. systemPc = "collect" => instant' <= prev_tick_at + CollectDelay
    BY <1>3, <1>4 DEF TimesInv, None
  <2> QED
    BY <1>1, <2>1, <2>2 DEF sensorFrame, TimesInv
<1>6. SystemTypeOK' /\ TrafficInv'
  <2>1. CASE Tick \/ UNCHANGED systemVars
    BY <1>1, <1>3, <2>1 DEF Tick, systemVars, sensorFrame, SystemTypeOK, TrafficInv
  <2>2. CASE \E i \in Interface : Traffic(i)
    <3>1. PICK i \in Interface : Traffic(i)
      BY <2>2
    <3>2. counter[i] \in Nat /\ moved[i] \in Nat
      BY <3>1 DEF Traffic, SystemTypeOK, Absent
    <3>3. /\ counter' = [counter EXCEPT ![i] = counter[i] + 1]
          /\ moved' = [moved EXCEPT ![i] = moved[i] + 1]
          /\ plugs' = plugs
      BY <3>1 DEF Traffic
    <3>4. SystemTypeOK'
      BY <1>1, <1>3, <3>2, <3>3 DEF sensorFrame, SystemTypeOK
    <3>5. ASSUME NEW k \in Interface, counter'[k] # Absent, prev_net_bytes[k] # Absent
          PROVE  counter'[k] - prev_net_bytes[k] <= moved'[k]
      BY <3>2, <3>3, <3>5 DEF SystemTypeOK, TrafficInv, Absent
    <3> QED
      BY <1>1, <3>4, <3>5 DEF sensorFrame, TrafficInv
  <2>3. CASE \E i \in Interface : Plug(i)
    <3>1. PICK i \in Interface : Plug(i)
      BY <2>3
    <3>2. /\ counter' = [counter EXCEPT ![i] = IF @ = Absent THEN 0 ELSE Absent]
          /\ moved' = moved
          /\ plugs' = plugs + 1
      BY <3>1 DEF Plug
    <3>3. SystemTypeOK'
      BY <1>1, <1>3, <3>2 DEF sensorFrame, SystemTypeOK
    <3>4. ASSUME NEW k \in Interface, counter'[k] # Absent, prev_net_bytes[k] # Absent
          PROVE  counter'[k] - prev_net_bytes[k] <= moved'[k]
      BY <3>2, <3>4 DEF SystemTypeOK, TrafficInv, Absent
    <3> QED
      BY <1>1, <3>3, <3>4 DEF sensorFrame, TrafficInv
  <2> QED
    BY <2>1, <2>2, <2>3 DEF Host
<1> QED
  BY <1>2, <1>5, <1>6

(* The counters are read and the rates computed.                            *)
LEMMA CollectKeeps ==
  ASSUME SystemInv, Collect
  PROVE  SystemInv'
<1> USE DEF SystemInv
<1>1. /\ systemPc = "collect" /\ systemPc' = "store"
      /\ snapshot' = Rates /\ prev_net_bytes' = counter
      /\ passed' = moved /\ moved' = [i \in Interface |-> 0]
      /\ gap' = instant - readAt /\ readAt' = instant
      /\ UNCHANGED <<instant, counter, asleep, prev_tick_at, elapsed, system, plugs>>
  BY DEF Collect
<1>2. /\ counter \in [Interface -> Nat \cup {Absent}]
      /\ prev_net_bytes \in [Interface -> Nat \cup {Absent}]
      /\ moved \in [Interface -> Nat]
      /\ elapsed \in Nat /\ instant \in Nat /\ readAt \in Nat
      /\ prev_tick_at \in Nat \cup {None} /\ CollectDelay \in Nat
  BY SystemTimeAssumption DEF SystemTypeOK
<1>3. ASSUME NEW i \in Interface
      PROVE  /\ Rates[i] \in Nat \cup {Absent}
             /\ Rates[i] # Absent => 2 * Rates[i] * elapsed <= 16 * moved[i] + elapsed
  <2>1. Rates[i] = IF counter[i] = Absent THEN Absent
                   ELSE compute_bps(prev_net_bytes[i], counter[i], elapsed)
    BY DEF Rates
  <2>2. CASE counter[i] = Absent
    BY <2>1, <2>2
  <2>3. CASE counter[i] # Absent /\ prev_net_bytes[i] = Absent
    <3>1. counter[i] \in Nat /\ moved[i] \in Nat
      BY <1>2, <2>3
    <3> QED
      BY <1>2, <2>1, <2>3, <3>1, NewRate
  <2>4. CASE counter[i] # Absent /\ prev_net_bytes[i] # Absent
    <3>1. /\ counter[i] \in Nat /\ prev_net_bytes[i] \in Nat /\ moved[i] \in Nat
          /\ counter[i] - prev_net_bytes[i] <= moved[i]
      BY <1>2, <2>4 DEF TrafficInv
    <3>2. LET rate == compute_bps(prev_net_bytes[i], counter[i], elapsed)
          IN  rate \in Nat /\ 2 * rate * elapsed <= 16 * moved[i] + elapsed
      BY <1>2, <3>1, RateCovers
    <3> QED
      BY <2>1, <2>4, <3>2
  <2> QED
    BY <2>2, <2>3, <2>4
<1>4. readAt <= instant /\ instant - readAt \in Nat
  BY <1>2 DEF TimesInv
<1>5. SystemTypeOK'
  <2>1. Rates \in [Interface -> Nat \cup {Absent}]
    BY <1>3 DEF Rates
  <2>2. [i \in Interface |-> 0] \in [Interface -> Nat]
    OBVIOUS
  <2> QED
    BY <1>1, <1>2, <1>4, <2>1, <2>2 DEF SystemTypeOK
<1>6. /\ prev_tick_at \in Nat
      /\ prev_tick_at <= instant /\ instant <= prev_tick_at + CollectDelay
      /\ elapsed > 0 =>
            readAt \in (prev_tick_at - elapsed)..(prev_tick_at - elapsed + CollectDelay)
  BY <1>1, <1>2 DEF TimesInv
<1>7. TimesInv'
  BY <1>1, <1>2, <1>6 DEF TimesInv
<1>8. TrafficInv'
  BY <1>1, <1>2 DEF TrafficInv, Absent
<1>9. NoInventedTraffic'
  BY <1>1, <1>3 DEF NoInventedTraffic
<1>10. DenominatorClose'
  BY <1>1, <1>2, <1>6 DEF DenominatorClose
<1> QED
  BY <1>5, <1>7, <1>8, <1>9, <1>10

(* The other steps of the task.                                             *)
LEMMA SystemTaskKeeps ==
  ASSUME SystemInv, SystemStart \/ Stamp \/ StoreSystem \/ SystemCancelled
  PROVE  SystemInv'
<1> USE DEF SystemInv
<1>1. /\ UNCHANGED <<instant, counter, prev_net_bytes, snapshot, moved, passed, readAt, gap,
                     plugs>>
      /\ systemPc' # "store"
  BY DEF SystemStart, Stamp, StoreSystem, SystemCancelled
<1>2. TrafficInv' /\ NoInventedTraffic' /\ DenominatorClose'
  BY <1>1 DEF TrafficInv, NoInventedTraffic, DenominatorClose
<1>3. /\ elapsed \in Nat /\ instant \in Nat /\ readAt \in Nat
      /\ prev_tick_at \in Nat \cup {None} /\ CollectDelay \in Nat
      /\ snapshot \in [Interface -> Nat \cup {Absent}]
      /\ prev_tick_at <= instant
  BY SystemTimeAssumption DEF SystemTypeOK, TimesInv
<1>4. CASE SystemStart
  BY <1>1, <1>2, <1>4 DEF SystemStart, SystemTypeOK, TimesInv
<1>5. CASE StoreSystem
  BY <1>1, <1>2, <1>3, <1>5 DEF StoreSystem, SystemTypeOK, TimesInv
<1>6. CASE SystemCancelled
  BY <1>1, <1>2, <1>6 DEF SystemCancelled, SystemTypeOK, TimesInv
<1>7. CASE Stamp
  <2>1. /\ systemPc \in {"prime", "sleep"} /\ systemPc' = "collect"
        /\ prev_tick_at' = instant
        /\ elapsed' = IF prev_tick_at = None THEN 0 ELSE instant - prev_tick_at
        /\ UNCHANGED <<asleep, system>>
    BY <1>7 DEF Stamp, Due
  <2>2. elapsed' \in Nat
    BY <1>3, <2>1
  <2>3. SystemTypeOK'
    BY <1>1, <1>3, <2>1, <2>2 DEF SystemTypeOK
  <2>4. instant # None
    BY <1>3 DEF None
  <2>5. elapsed' > 0 =>
          readAt \in (instant - elapsed')..(instant - elapsed' + CollectDelay)
    BY <1>3, <2>1 DEF TimesInv
  <2>6. TimesInv'
    BY <1>1, <1>3, <2>1, <2>4, <2>5 DEF TimesInv
  <2> QED
    BY <1>2, <2>3, <2>6
<1> QED
  BY <1>4, <1>5, <1>6, <1>7

LEMMA SystemAlways == Spec => []SystemInv
<1>1. Init => SystemInv
  BY SystemStarts DEF Init
<1>2. SystemInv /\ [Next]_vars => SystemInv'
  <2> SUFFICES ASSUME SystemInv, [Next]_vars PROVE SystemInv'
    OBVIOUS
  <2> QED
    BY SystemSteps, HostKeeps, CollectKeeps, SystemTaskKeeps DEF SystemTask
<1> QED
  BY <1>1, <1>2, PTL DEF Spec

-----------------------------------------------------------------------------
(* LTE.                                                                     *)

LEMMA LteStarts == LteInit => LteInv
BY DEF LteInit, LteInv, NoLte, Nothing, NeighborsFresh

(* The steps that touch neither cells nor the stored reading.               *)
LEMMA LteIdles ==
  ASSUME LteInv,
         LteStart \/ Clock \/ Lookup \/ Detect \/ DetectFails \/ Wake \/ LteCancelled
           \/ QueryFails \/ ServingReply \/ UNCHANGED lteVars
  PROVE  LteInv'
<1>1. UNCHANGED <<neighbors, lte, heard>>
  BY DEF LteStart, Clock, Lookup, Detect, DetectFails, Wake, LteCancelled, QueryFails,
         ServingReply, Go, lteVars
<1>2. wall' \in Nat
  BY DEF LteInv, LteStart, Clock, Lookup, Detect, DetectFails, Wake, LteCancelled,
         QueryFails, ServingReply, Go, lteVars
<1>3. ltePc' = "store" => lteNext' # NoSignal
  BY DEF LteInv, LteStart, Clock, Lookup, Detect, DetectFails, Wake, LteCancelled,
         QueryFails, ServingReply, Go, lteVars
<1>4. ltePc = "update" => ltePc' = "update"
  BY DEF LteStart, Clock, Lookup, Detect, DetectFails, Wake, LteCancelled, QueryFails,
         ServingReply, Go, lteVars
<1> QED
  BY <1>1, <1>2, <1>3, <1>4 DEF LteInv, NeighborsFresh

(* A cell that stays was named now or not too long ago.                     *)
LEMMA NeighborsNoted ==
  ASSUME LteInv, NeighborReply
  PROVE  LteInv'
<1>1. PICK S \in SUBSET Cell :
        neighbors' = expire_neighbors(
                       Noted({synth_neighbourcell(c) : c \in S}, lte.signal.pcid, wall), wall)
  BY DEF NeighborReply
<1> DEFINE cells == Noted({synth_neighbourcell(c) : c \in S}, lte.signal.pcid, wall)
<1>2. \A c \in DOMAIN cells : cells[c] \in Nat
  BY DEF Noted, LteInv
<1>3. /\ heard' = wall /\ ltePc' = "update" /\ UNCHANGED <<lteNext, lte, wall>>
      /\ wall \in Nat /\ neighbor_expiry_s \in Nat
  BY LteAssumption DEF NeighborReply, LteInv
<1> HIDE DEF cells
<1>4. \A c \in DOMAIN neighbors' :
        neighbors'[c] \in Nat /\ wall - neighbors'[c] <= neighbor_expiry_s
  BY <1>1, <1>2, <1>3 DEF expire_neighbors, SaturatingDiff, cells
<1> QED
  BY <1>3, <1>4 DEF LteInv, NeighborsFresh

LEMMA LteStores ==
  ASSUME LteInv, StoreLte \/ UpdateLte
  PROVE  LteInv'
<1>1. /\ ltePc' = "sleep" /\ UNCHANGED <<neighbors, wall, heard>>
      /\ ltePc = "store" => lteNext # NoSignal
  BY DEF LteInv, StoreLte, UpdateLte
<1>2. \/ lte' = lte /\ lte = NoLte
      \/ lte'.neighbors = neighbors /\ lte'.signal # NoSignal
  <2>1. CASE StoreLte
    BY <2>1 DEF LteInv, StoreLte
  <2>2. CASE UpdateLte /\ lte # NoLte
    <3>1. lte = [signal |-> lte.signal, neighbors |-> lte.neighbors] /\ lte.signal # NoSignal
      BY <2>2 DEF LteInv
    <3>2. lte' = [lte EXCEPT !.neighbors = neighbors]
      BY <2>2 DEF UpdateLte
    <3>3. lte'.signal = lte.signal /\ lte'.neighbors = neighbors
      BY <3>1, <3>2
    <3> QED
      BY <3>1, <3>3
  <2>3. CASE UpdateLte /\ lte = NoLte
    BY <2>3 DEF UpdateLte
  <2> QED
    BY <2>1, <2>2, <2>3
<1>3. lte' = [signal |-> lte'.signal, neighbors |-> lte'.neighbors]
  BY DEF LteInv, StoreLte, UpdateLte
<1>4. \A c \in DOMAIN lte'.neighbors : heard' - lte'.neighbors[c] <= neighbor_expiry_s
  BY <1>1, <1>2 DEF LteInv, NoLte, Nothing
<1> QED
  BY <1>1, <1>2, <1>3, <1>4 DEF LteInv, NeighborsFresh

LEMMA LteAlways == Spec => []LteInv
<1>1. Init => LteInv
  BY LteStarts DEF Init
<1>2. LteInv /\ [Next]_vars => LteInv'
  <2> SUFFICES ASSUME LteInv, [Next]_vars PROVE LteInv'
    OBVIOUS
  <2> QED
    BY LteSteps, LteIdles, NeighborsNoted, LteStores DEF LteTask
<1> QED
  BY <1>1, <1>2, PTL DEF Spec

-----------------------------------------------------------------------------
(* LTE: the reply that is parsed.                                           *)

LEMMA LeastIs ==
  ASSUME NEW S \in SUBSET Nat, NEW n \in S, \A m \in S : n <= m
  PROVE  Min(S) = n
<1>1. \E x \in S : \A y \in S : x <= y
  OBVIOUS
<1>2. Min(S) \in S /\ \A y \in S : Min(S) <= y
  BY <1>1 DEF Min
<1>3. Min(S) \in Nat /\ n \in Nat /\ n <= Min(S) /\ Min(S) <= n
  BY <1>2
<1> QED
  BY <1>3

(* The type that is detected: that of the first identifier in the name.     *)
LEMMA DetectedTypes ==
  /\ \A model \in Models : detect_modem_type(model) = TypeOf(model)
  /\ \A model : model \notin Models => detect_modem_type(model) = Unknown
<1>1. DOMAIN MODEM_IDENTIFIERS = 1..4
  BY DEF MODEM_IDENTIFIERS
<1>2. /\ MODEM_IDENTIFIERS[1] = <<"SIMCOM_SIM7600G-H", "Simcom7600">>
      /\ MODEM_IDENTIFIERS[2] = <<"EM12", "QuectelEm12">>
      /\ MODEM_IDENTIFIERS[3] = <<"EM060K-GL", "QuectelEm06GL">>
      /\ MODEM_IDENTIFIERS[4] = <<"EM06", "QuectelEm06E">>
  BY DEF MODEM_IDENTIFIERS
<1>3. \A i \in 1..4 : i = 1 \/ i = 2 \/ i = 3 \/ i = 4
  OBVIOUS
<1>4. ASSUME NEW model, NEW n \in 1..4,
             MODEM_IDENTIFIERS[n][1] \in Contained(model),
             \A i \in 1..4 : MODEM_IDENTIFIERS[i][1] \in Contained(model) => n <= i
      PROVE  detect_modem_type(model) = MODEM_IDENTIFIERS[n][2]
  <2>1. n \in Matches(model) /\ Matches(model) \in SUBSET Nat
    BY <1>1, <1>4 DEF Matches
  <2>2. \A i \in Matches(model) : n <= i
    BY <1>1, <1>4 DEF Matches
  <2>3. Min(Matches(model)) = n
    BY <2>1, <2>2, LeastIs
  <2> QED
    BY <2>1, <2>3 DEF detect_modem_type
<1>5. detect_modem_type("SIMCOM_SIM7600G-H") = "Simcom7600"
  <2>1. Contained("SIMCOM_SIM7600G-H") = {"SIMCOM_SIM7600G-H"}
    BY DEF Contained, FAKE
  <2> QED
    BY <1>2, <1>3, <1>4, <2>1
<1>6. ASSUME NEW model \in {"EM12-G", FAKE}
      PROVE  detect_modem_type(model) = "QuectelEm12"
  <2>1. Contained(model) = {"EM12"}
    BY DEF Contained, FAKE
  <2> QED
    BY <1>2, <1>3, <1>4, <2>1
<1>7. detect_modem_type("EM060K-GL") = "QuectelEm06GL"
  <2>1. Contained("EM060K-GL") = {"EM060K-GL", "EM06"}
    BY DEF Contained, FAKE
  <2> QED
    BY <1>2, <1>3, <1>4, <2>1
<1>8. detect_modem_type("EM06-E") = "QuectelEm06E"
  <2>1. Contained("EM06-E") = {"EM06"}
    BY DEF Contained, FAKE
  <2> QED
    BY <1>2, <1>3, <1>4, <2>1
<1>9. ASSUME NEW model, model \notin Models
      PROVE  detect_modem_type(model) = Unknown
  <2>1. Contained(model) = {}
    BY <1>9 DEF Contained, Models
  <2>2. Matches(model) = {}
    BY <2>1 DEF Matches
  <2> QED
    BY <2>2 DEF detect_modem_type
<1> QED
  BY <1>5, <1>6, <1>7, <1>8, <1>9 DEF Models, TypeOf, FAKE


(* A parser finds each quantity where its modem puts the field of that      *)
(* name, and leaves out what the modem does not send.                       *)
Located(fields, layout) ==
  /\ Len(fields) \in Nat /\ DOMAIN fields = 1..Len(fields)
  /\ layout.length = Len(fields) /\ layout.length > 2
  /\ "pcid" \in DOMAIN layout.at
  /\ layout.at.pcid # NotSent
  /\ \A q \in DOMAIN layout.at :
       IF layout.at[q] = NotSent
         THEN \A i \in 1..Len(fields) : fields[i] # q
         ELSE layout.at[q] + 1 \in 1..Len(fields) /\ fields[layout.at[q] + 1] = q

FieldName ==
  {"servingcell", "state", "mode", "is_tdd", "mcc", "mnc", "cell_id", "pcid", "earfcn",
   "freq_band", "ul_bw", "dl_bw", "tac", "rsrp", "rsrq", "rssi", "rssnr", "cqi",
   "tx_power", "srxlev"}

LEMMA QuectelQuantities ==
  ASSUME NEW t
  PROVE  /\ DOMAIN Quectel(t) = {"pcid", "earfcn", "rsrp", "rsrq", "rssi", "rssnr", "tx_power"}
         /\ Quectel(t)["pcid"] = 7 /\ Quectel(t)["earfcn"] = 8 /\ Quectel(t)["rsrp"] = 13
         /\ Quectel(t)["rsrq"] = 14 /\ Quectel(t)["rssi"] = 15 /\ Quectel(t)["rssnr"] = 16
         /\ Quectel(t)["tx_power"] = t
BY DEF Quectel

(* The fields that all Quectel modems send first.                           *)
LEMMA CommonFields ==
  /\ Common \in Seq(FieldName) /\ Len(Common) = 17
  /\ Common[8] = "pcid" /\ Common[9] = "earfcn" /\ Common[14] = "rsrp"
  /\ Common[15] = "rsrq" /\ Common[16] = "rssi" /\ Common[17] = "rssnr"
  /\ \A i \in 1..17 : Common[i] # "tx_power"
<1>1. Common \in Seq(FieldName) /\ Len(Common) = 17
  BY DEF Common, FieldName
<1>2. /\ Common[8] = "pcid" /\ Common[9] = "earfcn" /\ Common[14] = "rsrp"
      /\ Common[15] = "rsrq" /\ Common[16] = "rssi" /\ Common[17] = "rssnr"
  BY DEF Common
<1>3. \A i \in 1..17 : Common[i] # "tx_power"
  BY DEF Common
<1> QED
  BY <1>1, <1>2, <1>3

(* The ones that follow them.                                               *)
LEMMA CommonThen ==
  ASSUME NEW rest \in Seq(FieldName)
  PROVE  /\ Common \o rest \in Seq(FieldName)
         /\ Len(Common \o rest) = 17 + Len(rest)
         /\ \A i \in 1..17 : (Common \o rest)[i] = Common[i]
         /\ \A i \in 18..(17 + Len(rest)) : (Common \o rest)[i] = rest[i - 17]
<1>1. Common \in Seq(FieldName) /\ Len(Common) = 17
  BY CommonFields
<1>2. /\ Common \o rest \in Seq(FieldName)
      /\ Len(Common \o rest) = Len(Common) + Len(rest)
      /\ \A i \in 1..(Len(Common) + Len(rest)) :
           (Common \o rest)[i] = IF i <= Len(Common) THEN Common[i] ELSE rest[i - Len(Common)]
  BY <1>1, ConcatProperties
<1>3. Len(rest) \in Nat
  OBVIOUS
<1> QED
  BY <1>1, <1>2, <1>3

LEMMA QuectelLocated ==
  ASSUME NEW rest \in Seq(FieldName), NEW t \in {NotSent, 17, 18},
         Len(rest) > 0,
         IF t = NotSent THEN \A i \in 1..Len(rest) : rest[i] # "tx_power"
         ELSE t - 16 \in 1..Len(rest) /\ rest[t - 16] = "tx_power"
  PROVE  Located(Common \o rest, [length |-> 17 + Len(rest), at |-> Quectel(t)])
<1> DEFINE fields == Common \o rest
           layout == [length |-> 17 + Len(rest), at |-> Quectel(t)]
<1>1. /\ fields \in Seq(FieldName) /\ Len(fields) = 17 + Len(rest) /\ Len(rest) \in Nat
      /\ \A i \in 1..17 : fields[i] = Common[i]
      /\ \A i \in 18..(17 + Len(rest)) : fields[i] = rest[i - 17]
  <2>1. Len(rest) \in Nat
    OBVIOUS
  <2> QED
    BY <2>1, CommonThen
<1>2. layout.length = 17 + Len(rest) /\ layout.at = Quectel(t)
  OBVIOUS
<1> HIDE DEF fields, layout
<1>3. /\ fields[8] = "pcid" /\ fields[9] = "earfcn" /\ fields[14] = "rsrp"
      /\ fields[15] = "rsrq" /\ fields[16] = "rssi" /\ fields[17] = "rssnr"
  BY <1>1, CommonFields
<1>4. IF t = NotSent THEN \A i \in 1..Len(fields) : fields[i] # "tx_power"
      ELSE t + 1 \in 1..Len(fields) /\ fields[t + 1] = "tx_power"
  <2>1. CASE t = NotSent
    <3>1. \A i \in 1..Len(fields) : i \in 1..17 \/ (i \in 18..(17 + Len(rest)) /\ i - 17 \in 1..Len(rest))
      BY <1>1
    <3> QED
      BY <1>1, <2>1, <3>1, CommonFields
  <2>2. CASE t # NotSent
    BY <1>1, <2>2 DEF NotSent
  <2> QED
    BY <2>1, <2>2
<1>5. /\ \A n \in {8, 9, 14, 15, 16, 17} : n \in 1..Len(fields)
      /\ layout.length > 2 /\ Len(fields) \in Nat /\ DOMAIN fields = 1..Len(fields)
  BY <1>1, <1>2
<1>6. ASSUME NEW q \in DOMAIN layout.at
      PROVE  IF layout.at[q] = NotSent
               THEN \A i \in 1..Len(fields) : fields[i] # q
               ELSE layout.at[q] + 1 \in 1..Len(fields) /\ fields[layout.at[q] + 1] = q
  <2>1. q \in {"pcid", "earfcn", "rsrp", "rsrq", "rssi", "rssnr", "tx_power"}
    BY <1>2, <1>6, QuectelQuantities
  <2>2. CASE q = "tx_power"
    BY <1>2, <1>4, <2>2, QuectelQuantities
  <2>3. CASE q # "tx_power"
    BY <1>2, <1>3, <1>5, <2>1, <2>3, QuectelQuantities DEF NotSent
  <2> QED
    BY <2>2, <2>3
<1>7. "pcid" \in DOMAIN layout.at /\ layout.at.pcid # NotSent
  BY <1>2, QuectelQuantities DEF NotSent
<1>8. layout.length = Len(fields)
  BY <1>1, <1>2
<1> QED
  BY <1>5, <1>6, <1>7, <1>8 DEF Located, fields, layout

LEMMA SimcomLocated ==
  Located(Fields("SIMCOM_SIM7600G-H"), Layout("Simcom7600"))
<1> DEFINE fields == <<"mode", "status", "mcc_mnc", "tac", "s_cell_id", "pcid", "band_name",
                       "earfcn", "dlbw", "ulbw", "rsrq", "rsrp", "rssi", "rssnr">>
           at == Simcom
           layout == [length |-> 14, at |-> at]
<1>0. Fields("SIMCOM_SIM7600G-H") = fields
  BY DEF Fields, FAKE
<1>1. /\ Len(fields) = 14 /\ DOMAIN fields = 1..14
      /\ fields[6] = "pcid" /\ fields[8] = "earfcn" /\ fields[11] = "rsrq"
      /\ fields[12] = "rsrp" /\ fields[13] = "rssi" /\ fields[14] = "rssnr"
  OBVIOUS
<1>2. \A i \in 1..14 : fields[i] # "tx_power"
  OBVIOUS
<1>3. /\ DOMAIN at = {"pcid", "earfcn", "rsrp", "rsrq", "rssi", "rssnr", "tx_power"}
      /\ at["pcid"] = 5 /\ at["earfcn"] = 7 /\ at["rsrp"] = 11 /\ at["rsrq"] = 10
      /\ at["rssi"] = 12 /\ at["rssnr"] = 13 /\ at["tx_power"] = NotSent
  BY DEF Simcom
<1>4. Layout("Simcom7600") = layout /\ layout.length = 14 /\ layout.at = at
  BY DEF Layout
<1> HIDE DEF fields, at, layout
<1>5. ASSUME NEW q \in DOMAIN at
      PROVE  IF at[q] = NotSent
               THEN \A i \in 1..Len(fields) : fields[i] # q
               ELSE at[q] + 1 \in 1..Len(fields) /\ fields[at[q] + 1] = q
  BY <1>1, <1>2, <1>3, <1>5 DEF NotSent
<1>6. "pcid" \in DOMAIN layout.at /\ layout.at.pcid # NotSent
  BY <1>3, <1>4 DEF NotSent
<1>7. /\ Len(fields) \in Nat /\ DOMAIN fields = 1..Len(fields)
      /\ layout.length = Len(fields) /\ layout.length > 2
  BY <1>1, <1>4
<1>8. \A q \in DOMAIN layout.at :
        IF layout.at[q] = NotSent
          THEN \A i \in 1..Len(fields) : fields[i] # q
          ELSE layout.at[q] + 1 \in 1..Len(fields) /\ fields[layout.at[q] + 1] = q
  BY <1>4, <1>5
<1>9. Located(fields, layout)
  BY <1>6, <1>7, <1>8 DEF Located
<1> QED
  BY <1>0, <1>4, <1>9

LEMMA AllLocated ==
  ASSUME NEW model \in Models
  PROVE  Located(Fields(model), Layout(TypeOf(model)))
<1>1. CASE model = "SIMCOM_SIM7600G-H"
  BY <1>1, SimcomLocated DEF TypeOf, FAKE
<1>2. CASE model \in {"EM12-G", FAKE}
  <2> DEFINE rest == <<"cqi", "tx_power", "srxlev">>
  <2>1. rest \in Seq(FieldName) /\ Len(rest) = 3 /\ rest[2] = "tx_power"
    BY DEF FieldName
  <2>2. Fields(model) = Common \o rest
    BY <1>2 DEF Fields, synth_servingcell, FAKE
  <2>3. Layout(TypeOf(model)) = [length |-> 20, at |-> Quectel(18)]
    BY <1>2 DEF Layout, TypeOf, FAKE
  <2> HIDE DEF rest
  <2>4. Located(Common \o rest, [length |-> 17 + Len(rest), at |-> Quectel(18)])
    <3>1. 18 # NotSent /\ 18 \in {NotSent, 17, 18} /\ 18 - 16 = 2
          /\ 2 \in 1..Len(rest) /\ Len(rest) > 0
      BY <2>1 DEF NotSent
    <3> QED
      BY <2>1, <3>1, QuectelLocated
  <2> QED
    BY <2>1, <2>2, <2>3, <2>4
<1>3. CASE model = "EM060K-GL"
  <2> DEFINE rest == <<"tx_power", "srxlev">>
  <2>1. rest \in Seq(FieldName) /\ Len(rest) = 2 /\ rest[1] = "tx_power"
    BY DEF FieldName
  <2>2. Fields(model) = Common \o rest
    BY <1>3 DEF Fields, FAKE
  <2>3. Layout(TypeOf(model)) = [length |-> 19, at |-> Quectel(17)]
    BY <1>3 DEF Layout, TypeOf, FAKE
  <2> HIDE DEF rest
  <2>4. Located(Common \o rest, [length |-> 17 + Len(rest), at |-> Quectel(17)])
    <3>1. 17 # NotSent /\ 17 \in {NotSent, 17, 18} /\ 17 - 16 = 1
          /\ 1 \in 1..Len(rest) /\ Len(rest) > 0
      BY <2>1 DEF NotSent
    <3> QED
      BY <2>1, <3>1, QuectelLocated
  <2> QED
    BY <2>1, <2>2, <2>3, <2>4
<1>4. CASE model = "EM06-E"
  <2> DEFINE rest == <<"srxlev">>
  <2>1. rest \in Seq(FieldName) /\ Len(rest) = 1 /\ \A i \in 1..1 : rest[i] # "tx_power"
    BY DEF FieldName
  <2>2. Fields(model) = Common \o rest
    BY <1>4 DEF Fields, FAKE
  <2>3. Layout(TypeOf(model)) = [length |-> 18, at |-> Quectel(NotSent)]
    BY <1>4 DEF Layout, TypeOf, FAKE
  <2> HIDE DEF rest
  <2>4. Located(Common \o rest, [length |-> 17 + Len(rest), at |-> Quectel(NotSent)])
    <3>1. NotSent \in {NotSent, 17, 18} /\ Len(rest) > 0
          /\ \A i \in 1..Len(rest) : rest[i] # "tx_power"
      BY <2>1
    <3> QED
      BY <2>1, <3>1, QuectelLocated
  <2> QED
    BY <2>1, <2>2, <2>3, <2>4
<1> QED
  BY <1>1, <1>2, <1>3, <1>4 DEF Models

(* Whatever a modem replies, the parser of its type reads it right or not   *)
(* at all.                                                                  *)
LEMMA ReplyDecoded ==
  ASSUME NEW model \in Models, NEW reply \in Replies(model),
         parse_serving_cell(TypeOf(model), reply) # NoSignal
  PROVE  Decoded(parse_serving_cell(TypeOf(model), reply), model)
<1> DEFINE fields == Fields(model)
           layout == Layout(TypeOf(model))
           at == layout.at
           signal == parse_serving_cell(TypeOf(model), reply)
<1>1. /\ Len(fields) \in Nat /\ DOMAIN fields = 1..Len(fields)
      /\ layout.length = Len(fields) /\ layout.length > 2
      /\ "pcid" \in DOMAIN at /\ at["pcid"] # NotSent
      /\ \A q \in DOMAIN at :
           IF at[q] = NotSent
             THEN \A i \in 1..Len(fields) : fields[i] # q
             ELSE at[q] + 1 \in 1..Len(fields) /\ fields[at[q] + 1] = q
  BY AllLocated DEF Located
<1>2. /\ ~(Len(reply) < layout.length)
      /\ signal = [q \in DOMAIN at |-> IF at[q] = NotSent THEN "0" ELSE reply[at[q] + 1]]
  BY DEF parse_serving_cell
<1>3. ToSet(fields) = {fields[i] : i \in 1..Len(fields)}
  BY <1>1 DEF ToSet
<1> HIDE DEF fields, layout, signal
<1>4. PICK c \in Cell : reply = From(fields, c)
  <2>1. CASE reply = NoService(model)
    <3>1. reply = SubSeq(fields, 1, 2)
      BY <2>1 DEF NoService, fields
    <3>2. Len(reply) = 2
      BY <3>1
    <3> QED
      BY <1>1, <1>2, <3>2
  <2> QED
    BY <2>1 DEF Replies, fields
<1>5. \A i \in 1..Len(fields) : reply[i] = IF fields[i] = "pcid" THEN c ELSE fields[i]
  BY <1>1, <1>4 DEF From
<1>6. ASSUME NEW q \in DOMAIN at, at[q] # NotSent
      PROVE  /\ signal[q] = IF q = "pcid" THEN c ELSE q
             /\ q \in ToSet(fields)
  <2>1. at[q] + 1 \in 1..Len(fields) /\ fields[at[q] + 1] = q
    BY <1>1, <1>6
  <2>2. signal[q] = reply[at[q] + 1]
    BY <1>2, <1>6
  <2> QED
    BY <1>3, <1>5, <2>1, <2>2
<1>7. ASSUME NEW q \in DOMAIN at, at[q] = NotSent
      PROVE  signal[q] = "0" /\ q \notin ToSet(fields)
  BY <1>1, <1>2, <1>3, <1>7
<1>8. DOMAIN signal = DOMAIN at
  BY <1>2
<1>9. signal["pcid"] \in Cell /\ "pcid" \in DOMAIN signal
  BY <1>1, <1>6, <1>8
<1>10. ASSUME NEW q \in DOMAIN signal \ {"pcid"}
       PROVE  signal[q] = IF q \in ToSet(fields) THEN q ELSE "0"
  BY <1>6, <1>7, <1>8
<1> QED
  BY <1>9, <1>10 DEF Decoded, signal, fields

(* The cell that a line of a neighbour reply is about.                      *)
LEMMA NeighborCell ==
  ASSUME NEW c
  PROVE  parse_quectel_neighbor(synth_neighbourcell(c)).pcid = c
<1> DEFINE names == <<"neighbourcell intra", "mode", "earfcn", "pcid", "rsrq", "rsrp", "rssi",
                      "rssnr">>
<1>1. DOMAIN names = 1..8 /\ names[4] = "pcid"
  OBVIOUS
<1>2. synth_neighbourcell(c) = From(names, c)
  BY DEF synth_neighbourcell
<1> HIDE DEF names
<1>3. 4 \in 1..8
  OBVIOUS
<1>4. synth_neighbourcell(c)[4] = c
  BY <1>1, <1>2, <1>3 DEF From
<1> QED
  BY <1>4 DEF parse_quectel_neighbor

LEMMA SignalStarts == LteInit => SignalInv
BY DEF LteInit, SignalInv, NoModem, Nothing

(* The steps that leave the type, the cells and the signals alone.          *)
LEMMA SignalIdles ==
  ASSUME SignalInv,
         LteStart \/ Clock \/ DetectFails \/ Wake \/ LteCancelled \/ QueryFails
           \/ UNCHANGED lteVars
  PROVE  SignalInv'
<1>1. UNCHANGED <<modem, modem_type, neighbors, lteNext, lte>>
  BY DEF LteStart, Clock, DetectFails, Wake, LteCancelled, QueryFails, Go, lteVars
<1>2. at_counter' \in Nat
  BY DEF SignalInv, LteStart, Clock, DetectFails, Wake, LteCancelled, QueryFails, lteVars
<1>3. \/ ltePc' = ltePc
      \/ ltePc = "off" /\ ltePc' = "lookup"
      \/ ltePc = "sleep" /\ ltePc' = "query"
      \/ ltePc = "query" /\ ltePc' = "sleep"
      \/ ltePc' = "done"
  BY DEF LteStart, Clock, DetectFails, Wake, LteCancelled, QueryFails, Go, lteVars
<1>4. /\ ltePc' \in {"lookup", "detect", "sleep", "query", "store", "update", "done", "off"}
      /\ ltePc' \in {"off", "lookup", "detect"} => ltePc \in {"off", "lookup", "detect"}
      /\ ltePc' \in {"sleep", "query", "store", "update"} =>
           ltePc \in {"sleep", "query", "store", "update"}
  BY <1>3 DEF SignalInv
<1> QED
  BY <1>1, <1>2, <1>4 DEF SignalInv, Decoded

LEMMA SignalDetects ==
  ASSUME SignalInv, Lookup \/ Detect
  PROVE  SignalInv'
<1>1. /\ lteNext = NoSignal /\ lte = NoLte /\ modem_type = Unknown
      /\ UNCHANGED <<at_counter, neighbors, lteNext, lte>>
  BY DEF SignalInv, Lookup, Detect, Go
<1>2. CASE Lookup
  BY <1>1, <1>2 DEF SignalInv, Lookup, Go
<1>3. CASE Detect
  <2>1. UNCHANGED modem
    BY <1>3 DEF Detect
  <2>2. CASE detect_modem_type(modem) # Unknown
    <3>1. modem \in Models /\ detect_modem_type(modem) = TypeOf(modem)
      BY <2>2, DetectedTypes
    <3>2. ltePc' = "sleep" /\ modem_type' = detect_modem_type(modem)
      BY <1>3, <2>2 DEF Detect
    <3> QED
      BY <1>1, <2>1, <2>2, <3>1, <3>2 DEF SignalInv
  <2>3. CASE detect_modem_type(modem) = Unknown
    <3>1. ltePc' = "done" /\ UNCHANGED modem_type
      BY <1>3, <2>3 DEF Detect
    <3> QED
      BY <1>1, <2>1, <3>1 DEF SignalInv
  <2> QED
    BY <2>2, <2>3
<1> QED
  BY <1>2, <1>3

LEMMA SignalParses ==
  ASSUME SignalInv, ServingReply
  PROVE  SignalInv'
<1>1. /\ ltePc = "query" /\ UNCHANGED <<modem, at_counter, modem_type, neighbors, lte>>
      /\ ltePc' \in {"sleep", "store"}
  BY DEF ServingReply, Go
<1>2. modem_type # Unknown /\ modem \in Models /\ modem_type = TypeOf(modem)
  BY <1>1 DEF SignalInv
<1>3. lteNext' = lteNext \/ Decoded(lteNext', modem)
  BY <1>2, ReplyDecoded DEF ServingReply
<1> QED
  BY <1>1, <1>2, <1>3 DEF SignalInv, Decoded

LEMMA SignalNeighbors ==
  ASSUME SignalInv, NeighborReply
  PROVE  SignalInv'
<1>1. /\ ltePc = "query" /\ ltePc' = "update"
      /\ UNCHANGED <<modem, at_counter, modem_type, lteNext, lte>>
  BY DEF NeighborReply
<1>2. PICK S \in SUBSET Cell :
        neighbors' = expire_neighbors(
                       Noted({synth_neighbourcell(c) : c \in S}, lte.signal.pcid, wall), wall)
  BY DEF NeighborReply
<1> DEFINE lines == {synth_neighbourcell(c) : c \in S}
<1>3. \A line \in lines : parse_quectel_neighbor(line).pcid \in Cell
  BY NeighborCell
<1> HIDE DEF lines
<1>4. DOMAIN Noted(lines, lte.signal.pcid, wall) \subseteq Cell
  BY <1>3 DEF Noted, SignalInv
<1>5. DOMAIN neighbors' \subseteq Cell
  BY <1>2, <1>4 DEF expire_neighbors, lines
<1> QED
  BY <1>1, <1>5 DEF SignalInv, Decoded

LEMMA SignalStores ==
  ASSUME SignalInv, LteInv, StoreLte \/ UpdateLte
  PROVE  SignalInv'
<1>1. /\ ltePc \in {"store", "update"} /\ ltePc' = "sleep"
      /\ UNCHANGED <<modem, at_counter, modem_type, neighbors, lteNext>>
  BY DEF StoreLte, UpdateLte
<1>2. lte' = NoLte \/ Decoded(lte'.signal, modem)
  <2>1. CASE StoreLte
    <3>1. lteNext # NoSignal
      BY <2>1 DEF LteInv, StoreLte
    <3>2. lte'.signal = lteNext
      BY <2>1 DEF StoreLte
    <3> QED
      BY <3>1, <3>2 DEF SignalInv
  <2>2. CASE UpdateLte /\ lte # NoLte
    <3>1. lte = [signal |-> lte.signal, neighbors |-> lte.neighbors]
      BY DEF LteInv
    <3>2. lte' = [lte EXCEPT !.neighbors = neighbors]
      BY <2>2 DEF UpdateLte
    <3>3. lte'.signal = lte.signal
      BY <3>1, <3>2
    <3> QED
      BY <2>2, <3>3 DEF SignalInv
  <2>3. CASE UpdateLte /\ lte = NoLte
    BY <2>3 DEF UpdateLte
  <2> QED
    BY <2>1, <2>2, <2>3
<1> QED
  BY <1>1, <1>2 DEF SignalInv, Decoded

LEMMA SignalAlways == Spec => []SignalInv
<1>1. Init => SignalInv
  BY SignalStarts DEF Init
<1>2. SignalInv /\ LteInv /\ [Next]_vars => SignalInv'
  <2> SUFFICES ASSUME SignalInv, LteInv, [Next]_vars PROVE SignalInv'
    OBVIOUS
  <2> QED
    BY LteSteps, SignalIdles, SignalDetects, SignalParses, SignalNeighbors, SignalStores
       DEF LteTask
<1> QED
  BY <1>1, <1>2, LteAlways, PTL DEF Spec

(* The sensor's types, from its two invariants.                             *)
LEMMA LteTypes == LteInv /\ SignalInv => LteTypeOK
<1> SUFFICES ASSUME LteInv, SignalInv PROVE LteTypeOK
  OBVIOUS
<1>1. modem_type \in ModemType \cup {Unknown}
  BY DEF SignalInv, Models, TypeOf, ModemType, FAKE
<1>2. /\ lte = NoLte \/ lte.signal.pcid \in Cell
      /\ lteNext = NoSignal \/ lteNext.pcid \in Cell
  BY DEF SignalInv, Decoded
<1> QED
  BY <1>1, <1>2 DEF LteInv, SignalInv, LteTypeOK

(* The manager's own variables.                                             *)
ManagerTypeOK == waiting \in SUBSET Sensor /\ cancelled \in BOOLEAN /\ held \in SUBSET Sensor

LEMMA ManagerAlways == Spec => []ManagerTypeOK
<1>1. Init => ManagerTypeOK
  BY SensorAssumption DEF Init, ManagerTypeOK
<1>2. ManagerTypeOK /\ [Next]_vars => ManagerTypeOK'
  <2> SUFFICES ASSUME ManagerTypeOK, [Next]_vars PROVE ManagerTypeOK'
    OBVIOUS
  <2>1. waiting' \subseteq waiting
    BY DEF Next, vars, run, PingStep, SystemStep, LteStep, World, Cancel, Keep, Release
  <2>2. UNCHANGED cancelled \/ cancelled' = TRUE
    BY DEF Next, vars, run, Sensing, Sensor, PingStep, SystemStep, LteStep, World, Cancel,
           Keep, Release
  <2>3. UNCHANGED held \/ held' = {} \/ \E s \in Sensor : held' = {s}
    BY DEF Next, vars, run, Sensing, Sensor, PingStep, SystemStep, LteStep, World, Cancel,
           Keep, Release
  <2> QED
    BY <2>1, <2>2, <2>3 DEF ManagerTypeOK
<1> QED
  BY <1>1, <1>2, PTL DEF Spec

-----------------------------------------------------------------------------
(* The abstract sensor task.                                                *)

Known == [s \in Sensor |-> CASE s = "ping" -> ping.kind # "none"
                             [] s = "system" -> system # NoSystem
                             [] s = "lte" -> lte # NoLte]

(* What a sensor may do: its phase goes from p to q and whether it stored a *)
(* reading from k to l.                                                     *)
Moves(s, p, q, k, l) ==
  \/ q = p /\ l = k
  \/ p = "off" /\ q = "work" /\ l = k
  \/ p = "work" /\ q \in {"store", "done"} /\ l = k
  \/ p = "store" /\ q = "work" /\ Writable(s) /\ l \in {k, TRUE}

LEMMA PingMoves ==
  ASSUME PingInv, PingStart \/ PingTask \/ PingProcess \/ UNCHANGED pingVars
  PROVE  Moves("ping", PingPhase, PingPhase', ping.kind # "none", ping'.kind # "none")
<1>1. CASE PingStart \/ PingProcess \/ UNCHANGED pingVars
  BY <1>1 DEF PingStart, PingProcess, SendPacket, ReceiveReply, Quit, ProcessExits,
              processFrame, pingVars, Moves, PingPhase
<1>2. CASE StorePing
  BY <1>2 DEF PingInv, NextInv, StorePing, Moves, PingPhase
<1>3. CASE Spawn \/ SpawnFails \/ ReadLine \/ ReadEof \/ NoticeExit \/ PingKilled \/ PauseEnds
  BY <1>3 DEF Spawn, SpawnFails, ReadLine, ReadEof, NoticeExit, PingKilled, PauseEnds, Moves,
              PingPhase
<1> QED
  BY <1>1, <1>2, <1>3 DEF PingTask

LEMMA SystemMoves ==
  ASSUME SystemInv, SystemStart \/ SystemTask \/ Host \/ UNCHANGED systemVars
  PROVE  Moves("system", SystemPhase, SystemPhase', system # NoSystem, system' # NoSystem)
<1>1. CASE Host \/ UNCHANGED systemVars
  BY <1>1 DEF Host, Tick, Traffic, Plug, sensorFrame, systemVars, Moves, SystemPhase
<1>2. CASE StoreSystem
  <2>1. system # NoSystem => system' # NoSystem
    <3>1. /\ snapshot \in [Interface -> Nat \cup {Absent}]
          /\ system \in [Interface -> Nat \cup {Absent}] \cup {NoSystem}
      BY DEF SystemInv, SystemTypeOK
    <3>2. system # NoSystem => Interface # {}
      BY <3>1 DEF NoSystem
    <3>3. Interface # {} => snapshot # NoSystem
      BY <3>1 DEF NoSystem
    <3> QED
      BY <1>2, <3>2, <3>3 DEF StoreSystem
  <2> QED
    BY <1>2, <2>1 DEF StoreSystem, Moves, SystemPhase
<1>3. CASE SystemStart \/ Stamp \/ Collect \/ SystemCancelled
  BY <1>3 DEF SystemStart, Stamp, Due, Collect, SystemCancelled, Moves, SystemPhase
<1> QED
  BY <1>1, <1>2, <1>3 DEF SystemTask

LEMMA LteMoves ==
  ASSUME LteInv, LteStart \/ LteTask \/ Clock \/ UNCHANGED lteVars
  PROVE  Moves("lte", LtePhase, LtePhase', lte # NoLte, lte' # NoLte)
<1>1. CASE LteStart \/ Clock \/ UNCHANGED lteVars
  BY <1>1 DEF LteStart, Clock, Go, lteVars, Moves, LtePhase
<1>2. CASE StoreLte \/ UpdateLte
  <2>1. lte # NoLte => lte' # NoLte
    <3>1. NoLte.signal = NoSignal
      BY DEF NoLte
    <3>2. CASE StoreLte
      BY <3>1, <3>2 DEF LteInv, StoreLte
    <3>3. CASE UpdateLte
      <4> SUFFICES ASSUME lte # NoLte PROVE lte' # NoLte
        OBVIOUS
      <4>1. lte = [signal |-> lte.signal, neighbors |-> lte.neighbors] /\ lte.signal # NoSignal
        BY DEF LteInv
      <4>2. lte' = [lte EXCEPT !.neighbors = neighbors]
        BY <3>3 DEF UpdateLte
      <4>3. lte'.signal = lte.signal
        BY <4>1, <4>2
      <4> QED
        BY <3>1, <4>1, <4>3
    <3> QED
      BY <1>2, <3>2, <3>3
  <2>2. LtePhase = "store" /\ LtePhase' = "work" /\ Writable("lte")
    BY <1>2 DEF StoreLte, UpdateLte, LtePhase
  <2> QED
    BY <2>1, <2>2 DEF Moves
<1>3. CASE Lookup \/ Detect \/ DetectFails \/ Wake \/ LteCancelled \/ QueryFails
             \/ ServingReply \/ NeighborReply
  BY <1>3 DEF Lookup, Detect, DetectFails, Wake, LteCancelled, QueryFails, ServingReply,
              NeighborReply, Go, Moves, LtePhase
<1> QED
  BY <1>1, <1>2, <1>3 DEF LteTask

LEMMA SensorMaps ==
  /\ Phase = [s \in Sensor |-> Phase[s]]
  /\ Known = [s \in Sensor |-> Known[s]]
<1> DEFINE phaseOf(s) == CASE s = "ping" -> PingPhase
                           [] s = "system" -> SystemPhase
                           [] s = "lte" -> LtePhase
           knownOf(s) == CASE s = "ping" -> ping.kind # "none"
                           [] s = "system" -> system # NoSystem
                           [] s = "lte" -> lte # NoLte
<1>1. Phase = [s \in Sensor |-> phaseOf(s)] /\ Known = [s \in Sensor |-> knownOf(s)]
  BY DEF Phase, Known
<1> HIDE DEF phaseOf, knownOf
<1>2. \A s \in Sensor : Phase[s] = phaseOf(s) /\ Known[s] = knownOf(s)
  BY <1>1
<1> QED
  BY <1>1, <1>2

(* A move of one sensor is a step of the abstract tasks, or none.           *)
LEMMA MoveIsStep ==
  ASSUME NEW s \in Sensor, NEW q, NEW l \in BOOLEAN,
         Phase' = [Phase EXCEPT ![s] = q], Known' = [Known EXCEPT ![s] = l],
         Moves(s, Phase[s], q, Known[s], l)
  PROVE  [Tasks!Step]_<<Phase, Known>>
<1>1. Phase = [t \in Sensor |-> Phase[t]] /\ Known = [t \in Sensor |-> Known[t]]
  BY SensorMaps
<1>2. CASE q = Phase[s] /\ l = Known[s]
  BY <1>1, <1>2
<1>3. CASE Phase[s] = "off" /\ q = "work" /\ l = Known[s]
  <2>1. Tasks!StartTasks({s})
    BY <1>1, <1>3 DEF Tasks!StartTasks, Tasks!Sensor, Sensor, Known
  <2> QED
    BY <2>1 DEF Tasks!Step, Tasks!Sensor, Sensor
<1>4. CASE Phase[s] = "work" /\ q = "store" /\ l = Known[s]
  <2>1. Tasks!Gather(s)
    BY <1>1, <1>4 DEF Tasks!Gather, Known
  <2> QED
    BY <2>1 DEF Tasks!Step, Tasks!Sensor, Sensor
<1>5. CASE Phase[s] = "work" /\ q = "done" /\ l = Known[s]
  <2>1. Tasks!End(s)
    BY <1>1, <1>5 DEF Tasks!End, Known
  <2> QED
    BY <2>1 DEF Tasks!Step, Tasks!Sensor, Sensor
<1>6. CASE Phase[s] = "store" /\ q = "work" /\ Writable(s) /\ l \in {Known[s], TRUE}
  <2>1. Tasks!Store(s)
    BY <1>1, <1>6 DEF Tasks!Store, Tasks!Writable, Writable, Known
  <2> QED
    BY <2>1 DEF Tasks!Step, Tasks!Sensor, Sensor
<1> QED
  BY <1>2, <1>3, <1>4, <1>5, <1>6 DEF Moves

(* One sensor moves at a time.                                              *)
LEMMA OneMoves ==
  ASSUME [Next]_vars
  PROVE  \/ UNCHANGED <<systemVars, lteVars>>
         \/ UNCHANGED <<pingVars, lteVars>>
         \/ UNCHANGED <<pingVars, systemVars>>
BY DEF Next, vars, run, Sensing, Sensor, PingStep, SystemStep, LteStep, World, Cancel,
       Keep, Release

LEMMA PhasesKept ==
  /\ UNCHANGED pingVars => PingPhase' = PingPhase /\ ping' = ping
  /\ UNCHANGED systemVars => SystemPhase' = SystemPhase /\ system' = system
  /\ UNCHANGED lteVars => LtePhase' = LtePhase /\ lte' = lte
BY DEF pingVars, systemVars, lteVars, PingPhase, SystemPhase, LtePhase

LEMMA SensorValues ==
  /\ Phase["ping"] = PingPhase /\ Known["ping"] = (ping.kind # "none")
  /\ Phase["system"] = SystemPhase /\ Known["system"] = (system # NoSystem)
  /\ Phase["lte"] = LtePhase /\ Known["lte"] = (lte # NoLte)
BY DEF Phase, Known, Sensor

LEMMA TasksStep ==
  ASSUME PingInv, SystemInv, LteInv, [Next]_vars
  PROVE  [Tasks!Step]_<<Phase, Known>>
<1>1. CASE UNCHANGED <<systemVars, lteVars>>
  <2>1. Moves("ping", PingPhase, PingPhase', ping.kind # "none", ping'.kind # "none")
    BY PingMoves, PingSteps
  <2>2. /\ Phase' = [Phase EXCEPT !["ping"] = PingPhase']
        /\ Known' = [Known EXCEPT !["ping"] = (ping'.kind # "none")]
    BY <1>1, PhasesKept DEF Phase, Known, Sensor
  <2> QED
    BY <2>1, <2>2, MoveIsStep, SensorValues DEF Sensor
<1>2. CASE UNCHANGED <<pingVars, lteVars>>
  <2>1. Moves("system", SystemPhase, SystemPhase', system # NoSystem, system' # NoSystem)
    BY SystemMoves, SystemSteps
  <2>2. /\ Phase' = [Phase EXCEPT !["system"] = SystemPhase']
        /\ Known' = [Known EXCEPT !["system"] = (system' # NoSystem)]
    BY <1>2, PhasesKept DEF Phase, Known, Sensor
  <2> QED
    BY <2>1, <2>2, MoveIsStep, SensorValues DEF Sensor
<1>3. CASE UNCHANGED <<pingVars, systemVars>>
  <2>1. Moves("lte", LtePhase, LtePhase', lte # NoLte, lte' # NoLte)
    BY LteMoves, LteSteps
  <2>2. /\ Phase' = [Phase EXCEPT !["lte"] = LtePhase']
        /\ Known' = [Known EXCEPT !["lte"] = (lte' # NoLte)]
    BY <1>3, PhasesKept DEF Phase, Known, Sensor
  <2> QED
    BY <2>1, <2>2, MoveIsStep, SensorValues DEF Sensor
<1> QED
  BY <1>1, <1>2, <1>3, OneMoves

LEMMA TasksBegin == Init => Tasks!TasksInit
<1> SUFFICES ASSUME Init PROVE Tasks!TasksInit
  OBVIOUS
<1>1. PingPhase = "off" /\ SystemPhase = "off" /\ LtePhase = "off"
  BY DEF Init, PingInit, SystemInit, LteInit, PingPhase, SystemPhase, LtePhase
<1>2. ping.kind = "none" /\ system = NoSystem /\ lte = NoLte
  BY DEF Init, PingInit, SystemInit, LteInit, NoReading
<1>3. Phase = [s \in Sensor |-> "off"]
  BY <1>1 DEF Phase, Sensor
<1>4. Known = [s \in Sensor |-> FALSE]
  BY <1>2 DEF Known, Sensor
<1> QED
  BY <1>3, <1>4 DEF Tasks!TasksInit, Tasks!Sensor, Sensor, Known

-----------------------------------------------------------------------------
(* Theorems.                                                                *)

(* However many packets a process sends and whenever lines are printed, no  *)
(* packet that was lost at the last line escapes the losses that were       *)
(* reported (ping.rs, calculate_loss_percent and the counts of the last     *)
(* line).                                                                   *)
THEOREM LossAlwaysAccounted == Spec => []LossAccounted
<1>1. PingInv => LossAccounted
  BY DEF PingInv, LossInv
<1> QED
  BY <1>1, PingAlways, PTL

(* A reading that says reachable is from the ping process that runs         *)
(* (ping.rs:150), whatever number of them died before.                      *)
THEOREM ReachableAlwaysCurrent == Spec => []ReachableIsCurrent
<1>1. PingInv => ReachableIsCurrent
  BY DEF PingInv
<1> QED
  BY <1>1, PingAlways, PTL

(* No rate stands for more bytes than passed, for every counter, interval   *)
(* and number of times that an interface vanishes (system.rs, compute_bps). *)
THEOREM TrafficNeverInvented == Spec => []NoInventedTraffic
<1>1. SystemInv => NoInventedTraffic
  BY DEF SystemInv
<1> QED
  BY <1>1, SystemAlways, PTL

(* The interval that a rate divides by is the one between the two readings  *)
(* of the counters up to the duration of a collection, for every interval   *)
(* and every such duration (system.rs:193).                                 *)
THEOREM DenominatorAlwaysClose == Spec => []DenominatorClose
<1>1. SystemInv => DenominatorClose
  BY DEF SystemInv
<1> QED
  BY <1>1, SystemAlways, PTL

(* Types of the three sensors and their manager: every cell that is shown   *)
(* or remembered is one that a modem named, for all modems and cells.       *)
THEOREM SensorsTypeCorrect == Spec => []TypeOK
<1>1. PingInv /\ SystemInv /\ LteInv /\ SignalInv /\ ManagerTypeOK => TypeOK
  BY LteTypes DEF PingInv, SystemInv, ManagerTypeOK, TypeOK
<1> QED
  BY <1>1, PingAlways, SystemAlways, LteAlways, SignalAlways, ManagerAlways, PTL

(* Each quantity of the signal in Context is the field of that name in the  *)
(* reply of the modem that is there, for every reply, with or without       *)
(* service, and every modem, known or not (modem_access/mod.rs:29-49,       *)
(* lte.rs, parse_serving_cell).                                             *)
THEOREM SignalAlwaysDecoded == Spec => []SignalDecoded
<1>1. SignalInv => SignalDecoded
  BY DEF SignalInv, Decoded, SignalDecoded
<1> QED
  BY <1>1, SignalAlways, PTL

(* No cell that Context shows was older than the configured expiry when the *)
(* modem last named its neighbours, for every expiry, every set of cells    *)
(* and every modem (lte.rs, expire_neighbors).                              *)
THEOREM NeighborsAlwaysFresh == Spec => []NeighborsFresh
<1>1. LteInv => NeighborsFresh
  BY DEF LteInv
<1> QED
  BY <1>1, LteAlways, PTL

(* The three sensors implement the abstract sensor task, for every constant *)
(* of theirs: what Agent assumes of them is what they do.                   *)
THEOREM SensorsAreTasks == Spec => ImplementsTasks
<1>1. Init => Tasks!TasksInit
  BY TasksBegin
<1>2. PingInv /\ SystemInv /\ LteInv /\ [Next]_vars => [Tasks!Step]_<<Phase, Known>>
  BY TasksStep
<1>3. [Tasks!Step]_<<Phase, Known>> => [Tasks!Step]_(Tasks!tasks)
  BY DEF Tasks!tasks, Known
<1> QED
  BY <1>1, <1>2, <1>3, PingAlways, SystemAlways, LteAlways, PTL
     DEF Spec, ImplementsTasks, Tasks!TasksSpec
=============================================================================
