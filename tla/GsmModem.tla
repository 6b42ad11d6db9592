------------------------------ MODULE GsmModem ------------------------------
(***************************************************************************)
(* Bringing up the modem: GSM::begin (GSMSHIELD/GSM.cpp) and               *)
(* GSM::CheckRegistration (GSMSHIELD/SIM900.cpp), both with InitParam.     *)
(* begin looks for the modem's baud rate and for its power state by the    *)
(* answers to "AT" alone.  A call of SendATCmdWaitResp (see GsmRx) is one  *)
(* step here.  InetGsm adds the calls that use the modem.                  *)
(***************************************************************************)
EXTENDS Integers, Sequences

CONSTANTS
  Rates,      \* the rates of begin's switch statements, 1200 to 115200
  BaudRate,   \* the argument of begin
  ForceRate,  \* AT+IPR=9600
  MaxNoise    \* bound: exchanges with the modem that fail

\* enum GSM_st_e
Statuses == {"ERROR", "IDLE", "READY", "ATTACHED", "TCPSERVERWAIT", "TCPCONNECTEDSERVER",
             "TCPCONNECTEDCLIENT"}

RateSet == {Rates[k] : k \in DOMAIN Rates}

ASSUME RatesAssumption ==
  /\ Rates \in Seq(RateSet) /\ {BaudRate, ForceRate} \subseteq RateSet
  /\ MaxNoise \in Nat

VARIABLES
  pc, i,             \* where begin is
  turnedON, norep,   \* its locals
  ret,               \* what it returned last
  port,              \* rate of the serial port, _cell.begin
  comm_line_status, module_status, status,
  sms_memory,        \* what InitSMSMemory returned last
  on, baud, net,     \* the modem: powered, its rate, registered in the network
  mode,              \* the modem: "command", or "data" after the prompt for it
  noise,             \* history: exchanges that failed
  checks             \* history: parity of the calls of CheckRegistration

begin_vars == <<pc, i, turnedON, norep, ret>>
modem_vars == <<on, baud, mode>>
vars == <<begin_vars, port, comm_line_status, module_status, status, sms_memory, modem_vars,
          net, noise, checks>>

Init ==
  /\ pc = "idle" /\ i = 1 /\ turnedON = FALSE /\ norep = TRUE /\ ret = 0
  /\ port \in RateSet
  /\ comm_line_status = "FREE" /\ module_status = {} /\ status = "IDLE"
  /\ sms_memory = "none"
  /\ on \in BOOLEAN /\ baud \in RateSet /\ net = FALSE
  /\ mode = "command"
  /\ noise = 0 /\ checks = 0

----------------------------------------------------------------------------
(* The modem.                                                              *)

Talking == on /\ port = baud /\ mode = "command"

Noise == noise < MaxNoise /\ noise' = noise + 1

\* SendATCmdWaitResp("AT", ..., "OK", 5): at a wrong rate the modem may answer
\* with characters that make no sense, or not at all.
SendAT(resp) ==
  \/ Talking /\ resp = "OK" /\ UNCHANGED noise
  \/ ~Talking /\ resp = "NO_RESP" /\ UNCHANGED noise
  \/ on /\ port # baud /\ resp = "DIF_RESP" /\ UNCHANGED noise
  \/ Talking /\ resp \in {"NO_RESP", "DIF_RESP"} /\ Noise

\* print("AT+IPR=") at the port's present rate
SetModemRate(rate) ==
  \/ baud' = (IF Talking THEN rate ELSE baud) /\ UNCHANGED noise
  \/ Talking /\ Noise /\ UNCHANGED baud

\* The modem finds the network, or loses it.
NetworkChanges ==
  /\ on
  /\ net' = ~net
  /\ UNCHANGED <<begin_vars, port, comm_line_status, module_status, status, sms_memory,
                 modem_vars, noise, checks>>

----------------------------------------------------------------------------
(* begin.  Its first loop only waits.                                      *)

\* The software serial port of the UNO does not get to the highest rate.
baud_rate == IF BaudRate = Rates[Len(Rates)] THEN ForceRate ELSE BaudRate

BeginStarts ==
  /\ pc = "idle"
  /\ pc' = "check_power"
  /\ turnedON' = FALSE /\ norep' = TRUE
  /\ comm_line_status' = "ATCMD"
  /\ port' = baud_rate
  /\ status' = "IDLE"
  /\ UNCHANGED <<i, ret, module_status, sms_memory, modem_vars, net, noise, checks>>

CheckPower ==
  /\ pc = "check_power"
  /\ \E resp \in {"OK", "DIF_RESP", "NO_RESP"} :
       /\ SendAT(resp)
       /\ turnedON' = (resp = "OK")
       /\ norep' = (resp # "OK")
  /\ pc' = "check_ok"
  /\ UNCHANGED <<i, ret, port, comm_line_status, module_status, status, sms_memory,
                 modem_vars, net, checks>>

AfterSearch(on_now) == IF norep /\ ~on_now THEN "force" ELSE "finish"

CheckOK ==
  /\ pc = "check_ok"
  /\ \E resp \in {"OK", "DIF_RESP", "NO_RESP"} :
       /\ SendAT(resp)
       /\ pc' = IF resp = "DIF_RESP" /\ ~turnedON THEN "search" ELSE AfterSearch(turnedON)
  /\ i' = 1
  /\ UNCHANGED <<turnedON, norep, ret, port, comm_line_status, module_status, status,
                 sms_memory, modem_vars, net, checks>>

\* Mutant: the next loop begins at an index that its first rate does not have.
SearchSetsPortFromZero ==
  /\ pc = "search"
  /\ \/ /\ i <= Len(Rates)
        /\ port' = Rates[i] /\ pc' = "search_at"
        /\ UNCHANGED <<i, comm_line_status>>
     \/ /\ i > Len(Rates)
        /\ pc' = AfterSearch(FALSE) /\ i' = 0
        /\ comm_line_status' = "FREE"
        /\ UNCHANGED port
  /\ UNCHANGED <<turnedON, norep, ret, module_status, status, sms_memory, modem_vars, net,
                 noise, checks>>

\* for (int i=0;i<8;i++): set the port, then ask
SearchSetsPort ==
  /\ pc = "search"
  /\ \/ /\ i <= Len(Rates)
        /\ port' = Rates[i] /\ pc' = "search_at"
        /\ UNCHANGED <<i, comm_line_status>>
     \/ /\ i > Len(Rates)
        /\ pc' = AfterSearch(FALSE) /\ i' = 1
        /\ comm_line_status' = "FREE"
        /\ UNCHANGED port
  /\ UNCHANGED <<turnedON, norep, ret, module_status, status, sms_memory, modem_vars, net,
                 noise, checks>>

SearchAsks ==
  /\ pc = "search_at"
  /\ \E resp \in {"OK", "DIF_RESP", "NO_RESP"} :
       /\ SendAT(resp)
       /\ IF resp = "OK" THEN pc' = "search_found" /\ UNCHANGED i
                         ELSE pc' = "search" /\ i' = i + 1
  /\ UNCHANGED <<turnedON, norep, ret, port, comm_line_status, module_status, status,
                 sms_memory, modem_vars, net, checks>>

\* Mutant: the port stays at the rate that was found.
SearchFoundKeepsPort ==
  /\ pc = "search_found"
  /\ SetModemRate(baud_rate)
  /\ turnedON' = TRUE
  /\ comm_line_status' = "FREE"
  /\ pc' = AfterSearch(TRUE) /\ i' = 1
  /\ UNCHANGED <<norep, ret, port, module_status, status, sms_memory, on, mode, net,
                 checks>>

\* The answer to the "AT" at the new rate is only reported, not used.
SearchFound ==
  /\ pc = "search_found"
  /\ SetModemRate(baud_rate)
  /\ port' = baud_rate
  /\ turnedON' = TRUE
  /\ comm_line_status' = "FREE"
  /\ pc' = AfterSearch(TRUE) /\ i' = 1
  /\ UNCHANGED <<norep, ret, module_status, status, sms_memory, on, mode, net,
                 checks>>

\* Tell a modem at any rate to use ForceRate; its answer is not looked at.
ForceSetsPort ==
  /\ pc = "force" /\ i <= Len(Rates)
  /\ port' = Rates[i] /\ pc' = "force_ipr"
  /\ UNCHANGED <<i, turnedON, norep, ret, comm_line_status, module_status, status, sms_memory,
                 modem_vars, net, noise, checks>>

ForceSetsModem ==
  /\ pc = "force_ipr"
  /\ SetModemRate(ForceRate)
  /\ port' = ForceRate
  /\ pc' = "force" /\ i' = i + 1
  /\ UNCHANGED <<turnedON, norep, ret, comm_line_status, module_status, status, sms_memory,
                 on, mode, net, checks>>

\* Mutant: return without the pulse.
ForceEndsNoPulse ==
  /\ pc = "force" /\ i > Len(Rates)
  /\ ret' = 0
  /\ pc' = "idle"
  /\ UNCHANGED <<i, turnedON, norep, port, comm_line_status, module_status, status, sms_memory,
                 modem_vars, net, noise, checks>>

\* The pulse on the power key switches the modem on, or off.
ForceEnds ==
  /\ pc = "force" /\ i > Len(Rates)
  /\ on' = ~on /\ net' = FALSE /\ mode' = "command"
  /\ ret' = 0
  /\ pc' = "idle"
  /\ UNCHANGED <<i, turnedON, norep, port, comm_line_status, module_status, status,
                 sms_memory, baud, noise, checks>>

Finish ==
  /\ pc = "finish"
  /\ comm_line_status' = "FREE"
  /\ IF turnedON THEN pc' = "init_param" /\ UNCHANGED <<port, ret>>
                 ELSE pc' = "idle" /\ port' = Rates[Len(Rates)] /\ ret' = 0
  /\ UNCHANGED <<i, turnedON, norep, module_status, status, sms_memory, modem_vars, net,
                 noise, checks>>

\* InitParam up to InitSMSMemory: both parameter sets in begin, the second in
\* CheckRegistration.  The answers are not looked at.
InitParam ==
  /\ pc \in {"init_param", "check_init"}
  /\ comm_line_status' = "FREE"
  /\ pc' = IF pc = "init_param" THEN "sms_memory" ELSE "check_sms"
  /\ UNCHANGED <<i, turnedON, norep, ret, port, module_status, status, sms_memory,
                 modem_vars, net, noise, checks>>

\* InitSMSMemory, which a busy line makes return -1, and what follows: the end
\* of InitParam, in begin also Echo and setStatus.
InitSMSMemory ==
  /\ pc \in {"sms_memory", "check_sms"}
  /\ \/ comm_line_status # "FREE" /\ sms_memory' = "refused" /\ UNCHANGED noise
     \/ /\ comm_line_status = "FREE"
        /\ \E resp \in {"OK", "DIF_RESP", "NO_RESP"} :
             SendAT(resp) /\ sms_memory' = IF resp = "OK" THEN "ready" ELSE "failed"
  /\ comm_line_status' = IF pc = "check_sms" THEN "FREE" ELSE comm_line_status
  /\ pc' = IF pc = "sms_memory" THEN "echo" ELSE "idle"
  /\ UNCHANGED <<i, turnedON, norep, ret, port, module_status, status, modem_vars, net, checks>>

Echo ==
  /\ pc = "echo"
  /\ comm_line_status' = "FREE"
  /\ status' = "READY" /\ ret' = 1
  /\ pc' = "idle"
  /\ UNCHANGED <<i, turnedON, norep, port, module_status, sms_memory, modem_vars, net,
                 noise, checks>>

Begin ==
  \/ CheckPower \/ CheckOK
  \/ SearchSetsPort \/ SearchAsks \/ SearchFound
  \/ ForceSetsPort \/ ForceSetsModem \/ ForceEnds
  \/ Finish \/ InitParam \/ InitSMSMemory \/ Echo

----------------------------------------------------------------------------

\* Mutant: return REG_NO_RESPONSE before the line is released.
CheckRegistrationKeepsLine ==
  /\ pc = "idle"
  /\ \/ comm_line_status # "FREE" /\ UNCHANGED <<pc, comm_line_status, module_status, noise>>
     \/ /\ comm_line_status = "FREE"
        /\ \E resp \in {"OK", "DIF_RESP", "NO_RESP"} :
             /\ SendAT(resp)
             /\ module_status' =
                  CASE resp = "OK" /\ net -> module_status \cup {"REGISTERED", "INITIALIZED"}
                    [] resp = "NO_RESP" -> module_status
                    [] OTHER -> module_status \ {"REGISTERED"}
             /\ comm_line_status' = IF resp = "NO_RESP" THEN "ATCMD" ELSE "FREE"
        /\ pc' = IF "INITIALIZED" \in module_status' \ module_status THEN "check_init" ELSE pc
  /\ checks' = 1 - checks
  /\ UNCHANGED <<i, turnedON, norep, ret, port, status, sms_memory, modem_vars, net>>

\* Busy, or an answer: registered (the first time followed by InitParam), not
\* registered, or none, in which case the flag keeps its value.
CheckRegistration ==
  /\ pc = "idle"
  /\ \/ comm_line_status # "FREE" /\ UNCHANGED <<pc, module_status, noise>>
     \/ /\ comm_line_status = "FREE"
        /\ \E resp \in {"OK", "DIF_RESP", "NO_RESP"} :
             /\ SendAT(resp)
             /\ module_status' =
                  CASE resp = "OK" /\ net -> module_status \cup {"REGISTERED", "INITIALIZED"}
                    [] resp = "NO_RESP" -> module_status
                    [] OTHER -> module_status \ {"REGISTERED"}
        /\ pc' = IF "INITIALIZED" \in module_status' \ module_status THEN "check_init" ELSE pc
  /\ checks' = 1 - checks
  /\ UNCHANGED <<i, turnedON, norep, ret, port, comm_line_status, status, sms_memory,
                 modem_vars, net>>

Program == BeginStarts \/ Begin \/ CheckRegistration

Next == Program \/ NetworkChanges

Spec == Init /\ [][Next]_vars

----------------------------------------------------------------------------
(* Properties.                                                             *)

TypeOK ==
  /\ pc \in {"idle", "check_power", "check_ok", "search", "search_at", "search_found",
             "force", "force_ipr", "finish", "init_param", "sms_memory", "echo", "check_init",
             "check_sms"}
  /\ mode \in {"command", "data"}
  /\ i \in 1..Len(Rates) + 1 /\ {turnedON, norep} \subseteq BOOLEAN /\ ret \in {0, 1}
  /\ {port, baud} \subseteq RateSet /\ {on, net} \subseteq BOOLEAN
  /\ comm_line_status \in {"FREE", "ATCMD"} /\ status \in Statuses
  /\ module_status \subseteq {"REGISTERED", "INITIALIZED"} /\ noise \in 0..MaxNoise
  /\ checks \in {0, 1} /\ sms_memory \in {"none", "ready", "failed", "refused"}
  /\ net => on

\* While no exchange fails, the status is READY only if the modem is on and both
\* sides use one rate, and after a begin that succeeded the rate that was asked
\* for, whatever search led there.  begin never gets to its last branch ("just to
\* try to fix some problems with 115200 baudrate") without an answer.
ReadyMeansTalking ==
  /\ (pc = "idle" /\ status = "READY" /\ noise = 0)
       => on /\ port = baud /\ (ret = 1 => port = baud_rate)
  /\ pc = "finish" => turnedON

\* When no call is in progress the line is free, with one exception: a begin
\* that forced the rate returns without releasing it.  It is also free whenever
\* InitSMSMemory, which gives up without a word if it is not, is called.
LineReleased ==
  /\ (pc = "idle" /\ comm_line_status # "FREE") => norep /\ ~turnedON /\ ret = 0
  /\ sms_memory # "refused"

\* A program that calls begin again and again with the rate that begin forces
\* gets to a modem it can talk to: from any rate, on or off, although the pulse
\* may switch it off and any finite number of exchanges fail.
BeginSucceeds ==
  (baud_rate = ForceRate /\ []<><<BeginStarts>>_vars) =>
    <>(pc = "idle" /\ status = "READY" /\ Talking)

\* After a begin that succeeded, a modem that is up and stays registered is found
\* to be, if the program keeps asking: the line is never left busy by a check
\* that got no answer, nor by a function of inetGSM.cpp.
RegistrationSeen ==
  (/\ <>[](ret = 1 /\ Talking /\ net)
    /\ []<><<CheckRegistration>>_vars)
    => <>("REGISTERED" \in module_status)
=============================================================================
