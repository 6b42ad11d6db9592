------------------------------- MODULE BbdDb -------------------------------
(***************************************************************************)
(* The database of the server (server/src/db/bbd.sql) as its two clients   *)
(* use it: the receiver through the rcv_ functions, the web site through   *)
(* the web_ functions.  Every function is one transaction of one           *)
(* statement, so it is one step.  Devices and valves are seeded and never  *)
(* change; a schedule row is its id.                                       *)
(***************************************************************************)
EXTENDS Integers, FiniteSets

CONSTANTS
  Devices, Valves,
  DeviceOf,    \* bbd.valve.deviceID_f
  Ids,         \* bound: the schedule ids the serial column can hand out
  NoValve      \* an id that has not been handed out

ASSUME DeviceOfAssumption == DeviceOf \in [Valves -> Devices]
ASSUME NoValveAssumption == NoValve \notin Valves

VARIABLES
  valve_of,    \* the valve of each schedule row, NoValve if there is no row
  sent,        \* rows with sent = TRUE
  active,      \* rows with active = TRUE
  stamped      \* rows with deactivated_on set

db_vars == <<valve_of, sent, active, stamped>>

Rows == {id \in Ids : valve_of[id] # NoValve}
RowsOf(d) == {id \in Rows : DeviceOf[valve_of[id]] = d}

DbInit ==
  /\ valve_of = [id \in Ids |-> NoValve]
  /\ sent = {} /\ active = {} /\ stamped = {}

rcv_get_device_valves(d) == {v \in Valves : DeviceOf[v] = d}

\* Mutants: the rows of every device, and the inactive rows too.
rcv_get_active_schedules_of_all(d) == Rows \cap active
rcv_get_all_schedules(d) == RowsOf(d)

rcv_get_active_schedules(d) == RowsOf(d) \cap active

rcv_set_schedule_sent(id) ==
  /\ sent' = sent \cup {id}
  /\ UNCHANGED <<valve_of, active, stamped>>

\* Not restricted to a device: every inactive row gets its time stamp.
deactivation_requests_done_rows == Rows \ active

deactivation_requests_done ==
  /\ stamped' = stamped \cup deactivation_requests_done_rows
  /\ UNCHANGED <<valve_of, sent, active>>

web_create_new_schedule(v) ==
  \E id \in Ids \ Rows :
    /\ valve_of' = [valve_of EXCEPT ![id] = v]
    /\ active' = active \cup {id}
    /\ UNCHANGED <<sent, stamped>>

web_deactivate_schedule_request(id) ==
  /\ active' = active \ {id}
  /\ UNCHANGED <<valve_of, sent, stamped>>
=============================================================================
