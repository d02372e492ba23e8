------------------------------ MODULE LteSensor ------------------------------
(***************************************************************************)
(* The LTE sensor (sensors/lte.rs): which reply of the modem it asks for,  *)
(* what it takes from the reply, and the neighbour cells that it remembers *)
(* and forgets.  How its calls wait, fail and end is in ModemAccess; here  *)
(* a call returns a reply or an error.  The fake modem of the simulation   *)
(* (services/modem_access/fake.rs) is one of the modems.                   *)
(***************************************************************************)
EXTENDS Context, Sequences, SequencesExt

CONSTANTS
  Modem,              (* The model names of the modems that may be there.  *)
  Cell,               (* Physical cell ids.                                *)
  neighbor_expiry_s,  (* Configured expiry of neighbour cells.             *)
  MaxQueries,         (* Bound: queries of the modem.                      *)
  MaxWall             (* Bound: the wall clock.                            *)

ASSUME LteAssumption ==
  /\ Cell # {}
  /\ neighbor_expiry_s \in Nat /\ MaxQueries \in Nat /\ MaxWall \in Nat

VARIABLES
  modem,       (* The one that was found, or NoModem.                      *)
  ltePc,       (* "lookup", "detect", "sleep", "query", "store" (a whole   *)
               (* reading), "update" (its neighbours), "done" or "off".    *)
  modem_type,  (* The type that was detected, or Unknown.                  *)
  at_counter,  (* Numbers the queries.                                     *)
  neighbors,   (* Cells that were seen: their last_seen.                   *)
  lteNext,     (* The signal to be stored.                                 *)
  lte,         (* The reading in Context, or NoLte.                        *)
  wall,        (* The wall clock in seconds; it does not step back.        *)
  heard        (* History: when the modem last named neighbours.           *)

lteVars == <<modem, ltePc, modem_type, at_counter, neighbors, lteNext, lte, wall, heard>>

Nothing == [x \in {} |-> 0]
NotSent == -1                  (* The reply has no such field.             *)
NoSignal == [pcid |-> -1]

SaturatingDiff(a, b) == IF a > b THEN a - b ELSE 0

-----------------------------------------------------------------------------
(* The type.                                                                *)

NoModem == "none"
ModemType == {"Simcom7600", "QuectelEm12", "QuectelEm06GL", "QuectelEm06E"}
Unknown == "unknown"

(* External: the identifiers that a model name contains.  FAKE's is that of *)
(* the fake modem, which calls itself an EM12.                              *)
FAKE == "fake"
Contained(model) ==
  CASE model = "SIMCOM_SIM7600G-H" -> {"SIMCOM_SIM7600G-H"}
    [] model \in {FAKE, "EM12-G"} -> {"EM12"}
    [] model = "EM060K-GL" -> {"EM060K-GL", "EM06"}
    [] model = "EM06-E" -> {"EM06"}
    [] OTHER -> {}

(* The first identifier that the name contains decides: "Order matters".    *)
MODEM_IDENTIFIERS ==
  << <<"SIMCOM_SIM7600G-H", "Simcom7600">>, <<"EM12", "QuectelEm12">>,
     <<"EM060K-GL", "QuectelEm06GL">>, <<"EM06", "QuectelEm06E">> >>

Matches(model) ==
  {i \in DOMAIN MODEM_IDENTIFIERS : MODEM_IDENTIFIERS[i][1] \in Contained(model)}

(* Mutant: the last one does.                                               *)
detect_last_modem_type(model) ==
  IF Matches(model) = {} THEN Unknown ELSE MODEM_IDENTIFIERS[Max(Matches(model))][2]

detect_modem_type(model) ==
  IF Matches(model) = {} THEN Unknown ELSE MODEM_IDENTIFIERS[Min(Matches(model))][2]

-----------------------------------------------------------------------------
(* The replies.                                                             *)

Common == <<"servingcell", "state", "mode", "is_tdd", "mcc", "mnc", "cell_id", "pcid",
            "earfcn", "freq_band", "ul_bw", "dl_bw", "tac", "rsrp", "rsrq", "rssi",
            "rssnr">>

(* The reply that the fake modem puts together.                             *)
synth_servingcell == Common \o <<"cqi", "tx_power", "srxlev">>

(* External: the fields that each modem returns, as the comments name them. *)
Fields(model) ==
  CASE model = "SIMCOM_SIM7600G-H" ->
         <<"mode", "status", "mcc_mnc", "tac", "s_cell_id", "pcid", "band_name",
           "earfcn", "dlbw", "ulbw", "rsrq", "rsrp", "rssi", "rssnr">>
    [] model = "EM12-G" -> Common \o <<"cqi", "tx_power", "srxlev">>
    [] model = "EM060K-GL" -> Common \o <<"tx_power", "srxlev">>
    [] model = "EM06-E" -> Common \o <<"srxlev">>
    [] model = FAKE -> synth_servingcell

(* A serving-cell reply from cell c; without service it is a shorter one,   *)
(* which the fake modem never gives.                                        *)
From(fields, c) == [i \in DOMAIN fields |-> IF fields[i] = "pcid" THEN c ELSE fields[i]]
NoService(model) == SubSeq(Fields(model), 1, 2)
Replies(model) == {From(Fields(model), c) : c \in Cell} \cup
                  (IF model = FAKE THEN {} ELSE {NoService(model)})

(* A line of a neighbour reply about cell c.  The fake modem puts together  *)
(* the same fields, of two cells.                                           *)
synth_neighbourcell(c) ==
  From(<<"neighbourcell intra", "mode", "earfcn", "pcid", "rsrq", "rsrp", "rssi",
         "rssnr">>, c)

(* The indices, from 0, at which the parser of each type looks.             *)
Quectel(tx_power) == [pcid |-> 7, earfcn |-> 8, rsrp |-> 13, rsrq |-> 14, rssi |-> 15,
                      rssnr |-> 16, tx_power |-> tx_power]

Simcom == [pcid |-> 5, earfcn |-> 7, rsrp |-> 11, rsrq |-> 10, rssi |-> 12,
           rssnr |-> 13, tx_power |-> NotSent]

(* Mutant: both Quectel modems with a transmit power have it in one place.  *)
LayoutSharingTxPower(type) ==
  CASE type = "Simcom7600" -> [length |-> 14, at |-> Simcom]
    [] type = "QuectelEm12" -> [length |-> 20, at |-> Quectel(18)]
    [] type = "QuectelEm06GL" -> [length |-> 19, at |-> Quectel(18)]
    [] type = "QuectelEm06E" -> [length |-> 18, at |-> Quectel(NotSent)]

(* What parse_serving_cell requires and where it looks.                     *)
Layout(type) ==
  CASE type = "Simcom7600" -> [length |-> 14, at |-> Simcom]
    [] type = "QuectelEm12" -> [length |-> 20, at |-> Quectel(18)]
    [] type = "QuectelEm06GL" -> [length |-> 19, at |-> Quectel(17)]
    [] type = "QuectelEm06E" -> [length |-> 18, at |-> Quectel(NotSent)]

(* The quantities of a reply, NoSignal if it is too short.  Simcom's are in *)
(* tenths and divided by ten, which is left out.                            *)
parse_serving_cell(type, reply) ==
  LET at == Layout(type).at
  IN  IF Len(reply) < Layout(type).length
        THEN NoSignal
        ELSE [q \in DOMAIN at |-> IF at[q] = NotSent THEN "0" ELSE reply[at[q] + 1]]

parse_quectel_neighbor(line) ==
  [pcid |-> line[4], earfcn |-> line[3], rsrq |-> line[5], rsrp |-> line[6],
   rssi |-> line[7], rssnr |-> line[8]]

supports_neighbor_query(type) == type = "QuectelEm12"

-----------------------------------------------------------------------------
(* A neighbour reply: all cells that its lines name but the serving one are *)
(* noted with the time, and the ones not seen for too long are dropped.     *)

Noted(lines, serving, now) ==
  LET seen == {parse_quectel_neighbor(line).pcid : line \in lines} \ {serving}
  IN  [c \in DOMAIN neighbors \cup seen |-> IF c \in seen THEN now ELSE neighbors[c]]

(* Mutant: no cell expires.                                                 *)
expire_none(cells, now) == cells

expire_neighbors(cells, now) ==
  LET kept == {c \in DOMAIN cells : SaturatingDiff(now, cells[c]) <= neighbor_expiry_s}
  IN  [c \in kept |-> cells[c]]

-----------------------------------------------------------------------------
NoLte == [signal |-> NoSignal, neighbors |-> Nothing]

LteTypeOK ==
  /\ modem \in Modem \cup {NoModem}
  /\ ltePc \in {"lookup", "detect", "sleep", "query", "store", "update", "done", "off"}
  /\ modem_type \in ModemType \cup {Unknown}
  /\ at_counter \in Nat
  /\ DOMAIN neighbors \subseteq Cell /\ \A c \in DOMAIN neighbors : neighbors[c] \in Nat
  /\ lte = NoLte \/ lte.signal.pcid \in Cell
  /\ lteNext = NoSignal \/ lteNext.pcid \in Cell
  /\ wall \in Nat /\ heard \in Nat

LteInit ==
  /\ modem = NoModem
  /\ ltePc = "off" /\ modem_type = Unknown
  /\ at_counter = 1 /\ neighbors = Nothing /\ lteNext = NoSignal /\ lte = NoLte
  /\ wall = 0 /\ heard = 0

Clock ==
  /\ ltePc # "off"
  /\ wall < MaxWall
  /\ wall' = wall + 1
  /\ UNCHANGED <<modem, ltePc, modem_type, at_counter, neighbors, lteNext, lte, heard>>

Go(pc) ==
  /\ ltePc' = pc
  /\ UNCHANGED <<modem_type, neighbors, lte, wall, heard>>

LteStart == ltePc = "off" /\ Go("lookup") /\ UNCHANGED <<modem, at_counter, lteNext>>

(* The modem appears in Context; until then the token is watched.           *)
Lookup ==
  /\ ltePc = "lookup"
  /\ \/ Go("detect") /\ modem' \in Modem
     \/ cancelled /\ Go("done") /\ UNCHANGED modem
  /\ UNCHANGED <<at_counter, lteNext>>

(* Without a model or a type the sensor ends; without an IMSI it goes on.   *)
Detect ==
  /\ ltePc = "detect"
  /\ LET type == detect_modem_type(modem)
     IN  \/ type # Unknown /\ ltePc' = "sleep" /\ modem_type' = type
         \/ type = Unknown /\ ltePc' = "done" /\ UNCHANGED modem_type
  /\ UNCHANGED <<modem, at_counter, neighbors, lteNext, lte, wall, heard>>

Wake ==
  /\ ltePc = "sleep"
  /\ at_counter <= MaxQueries
  /\ Go("query")
  /\ at_counter' = at_counter + 1
  /\ UNCHANGED <<modem, lteNext>>

(* A call to the fake modem fails only when its worker is gone.             *)
CallFails == modem = FAKE => cancelled

DetectFails ==
  /\ ltePc = "detect"
  /\ CallFails
  /\ Go("done")
  /\ UNCHANGED <<modem, at_counter, lteNext>>

LteCancelled ==
  /\ ltePc = "sleep"
  /\ cancelled
  /\ Go("done")
  /\ UNCHANGED <<modem, at_counter, lteNext>>

(* Modems that know their neighbours are asked for them every other time.   *)
is_neighbor_query == supports_neighbor_query(modem_type) /\ at_counter % 2 = 1

QueryFails ==
  /\ ltePc = "query"
  /\ CallFails
  /\ Go("sleep")
  /\ UNCHANGED <<modem, at_counter, lteNext>>

(* A reply that cannot be parsed leaves the reading as it is.               *)
ServingReply ==
  /\ ltePc = "query"
  /\ ~is_neighbor_query
  /\ \E reply \in Replies(modem) :
       LET signal == parse_serving_cell(modem_type, reply)
       IN  IF signal = NoSignal
             THEN Go("sleep") /\ UNCHANGED lteNext
             ELSE Go("store") /\ lteNext' = signal
  /\ UNCHANGED <<modem, at_counter>>

NeighborReply ==
  /\ ltePc = "query"
  /\ is_neighbor_query
  /\ \E S \in SUBSET Cell :
       neighbors' = expire_neighbors(
                      Noted({synth_neighbourcell(c) : c \in S}, lte.signal.pcid, wall), wall)
  /\ heard' = wall
  /\ ltePc' = "update"
  /\ UNCHANGED <<modem, modem_type, at_counter, lteNext, lte, wall>>

(* The whole reading is replaced, with the neighbours known so far.         *)
StoreLte ==
  /\ ltePc = "store"
  /\ Writable("lte")
  /\ lte' = [signal |-> lteNext, neighbors |-> neighbors]
  /\ ltePc' = "sleep"
  /\ UNCHANGED <<modem, modem_type, at_counter, neighbors, lteNext, wall, heard>>

(* Without a reading there is nothing to update.                            *)
UpdateLte ==
  /\ ltePc = "update"
  /\ Writable("lte")
  /\ lte' = IF lte = NoLte THEN lte ELSE [lte EXCEPT !.neighbors = neighbors]
  /\ ltePc' = "sleep"
  /\ UNCHANGED <<modem, modem_type, at_counter, neighbors, lteNext, wall, heard>>

LteTask ==
  \/ Lookup \/ Detect \/ DetectFails \/ Wake \/ LteCancelled \/ QueryFails \/ ServingReply
  \/ NeighborReply \/ StoreLte \/ UpdateLte

-----------------------------------------------------------------------------
(* Properties.                                                              *)

(* "more specific matches come first" (modem_access/mod.rs:30): the signal  *)
(* shows each quantity as the field of that name in the reply of the modem  *)
(* that is there, whichever type it was taken for.                          *)
SignalDecoded ==
  lte # NoLte =>
    \A q \in DOMAIN lte.signal \ {"pcid"} :
      lte.signal[q] = IF q \in ToSet(Fields(modem)) THEN q ELSE "0"

(* README.md:237: "Remove neighbors not seen for this many seconds".  Each  *)
(* cell that Context shows had been seen within that time when the modem    *)
(* last named its neighbours, whichever of the two queries stored it.       *)
NeighborsFresh ==
  ltePc # "update" =>
    \A c \in DOMAIN lte.neighbors : heard - lte.neighbors[c] <= neighbor_expiry_s
=============================================================================
