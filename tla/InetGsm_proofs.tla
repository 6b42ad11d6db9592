--------------------------- MODULE InetGsm_proofs ---------------------------
(***************************************************************************)
(* Theorems about the GSM library's start-up and connections (InetGsm and  *)
(* GsmModem within it), for every list of rates, rate asked for, number of *)
(* failing exchanges and number of attempts to connect.                    *)
(***************************************************************************)
EXTENDS InetGsm, TLAPS

\* No begin is in progress.
Outside == {"idle", "check_init", "check_sms"}

\* From here on begin has found the modem.
Finishing == {"finish", "init_param", "sms_memory", "echo"}

Searching == {"search", "search_at", "search_found"}

\* What begin knows of the modem and of the line.
LineInv ==
  /\ LineReleased
  /\ pc \in {"init_param", "sms_memory", "echo", "check_init", "check_sms"}
       => comm_line_status = "FREE"
  /\ pc \in {"force", "force_ipr"} => norep /\ ~turnedON
  /\ pc = "check_ok" => norep = ~turnedON
  /\ pc \in Searching => norep /\ ~turnedON
  /\ pc = "finish" => turnedON

\* Within the loops the index is that of a rate.
IndexInv == pc \in {"search_at", "force_ipr"} => i \in 1..Len(Rates)

\* While no exchange has failed, what begin knows is true; status is IDLE in it.
TalkInv ==
  /\ pc \notin Outside => status = "IDLE"
  /\ pc \in Finishing \ {"finish"} => port = baud_rate
  /\ (pc = "finish" \/ pc \in {"check_power", "check_ok"}) => port = baud_rate
  /\ (pc \in Outside /\ ret = 1) => port = baud_rate
  /\ noise = 0 =>
       /\ (pc = "check_ok" /\ turnedON) => on /\ port = baud
       /\ pc = "search_found" => Talking
       /\ pc \in Finishing => on /\ port = baud
       /\ (pc \in Outside /\ status = "READY") => on /\ port = baud

\* What each point of a call of inetGSM.cpp knows of the modem's connection.
IpInv ==
  /\ ~on => ip_state = "initial"
  /\ ipc \in {"cfg_shut", "cfg_apn", "cfg_up"} => ~HasIp
  /\ ipc = "cfg_check" => ip_state \notin {"connecting", "tcp"}
  /\ (ipc = "cfg_close" /\ noise = 0 /\ Talking) => HasIp \/ ip_state = "deact"
  /\ ipc = "post_write" => mode = "data" \/ ip_state \notin {"connecting", "tcp"}

IInv == InetTypeOK /\ IndexInv /\ LineInv /\ TalkInv /\ IpInv

----------------------------------------------------------------------------
(* Types.                                                                  *)

LEMMA RatesFacts ==
  /\ Len(Rates) \in Nat \ {0} /\ baud_rate \in RateSet /\ ForceRate \in RateSet
  /\ \A k \in 1..Len(Rates) : Rates[k] \in RateSet
  /\ Rates[Len(Rates)] \in RateSet
<1>1. Rates \in Seq(RateSet) /\ BaudRate \in RateSet /\ ForceRate \in RateSet
  BY RatesAssumption
<1>2. DOMAIN Rates = 1..Len(Rates) /\ Len(Rates) \in Nat
  BY <1>1
<1>3. Len(Rates) # 0
  BY <1>1, <1>2 DEF RateSet
<1>4. \A k \in 1..Len(Rates) : Rates[k] \in RateSet
  BY <1>2 DEF RateSet
<1>5. Rates[Len(Rates)] \in RateSet
  BY <1>2, <1>3, <1>4
<1>6. QED
  BY <1>1, <1>2, <1>3, <1>4, <1>5 DEF baud_rate

LEMMA NoiseTypes ==
  ASSUME noise \in 0..MaxNoise
  PROVE  /\ Noise => noise' \in 0..MaxNoise /\ noise' # 0
         /\ UNCHANGED noise => noise' \in 0..MaxNoise
BY RatesAssumption DEF Noise

\* What the modem does to the exchange: at most one more failure.
LEMMA ExchangeTypes ==
  ASSUME noise \in 0..MaxNoise
  PROVE  /\ \A resp : SendAT(resp) => noise' \in 0..MaxNoise
         /\ \A rate : SetModemRate(rate) => noise' \in 0..MaxNoise /\ baud' \in {baud, rate}
<1>1. ASSUME NEW resp, SendAT(resp) PROVE noise' \in 0..MaxNoise
  BY <1>1, NoiseTypes DEF SendAT
<1>2. ASSUME NEW rate, SetModemRate(rate) PROVE noise' \in 0..MaxNoise /\ baud' \in {baud, rate}
  BY <1>2, NoiseTypes DEF SetModemRate
<1>3. QED
  BY <1>1, <1>2

LEMMA ProgramTypes == ASSUME TypeOK, IndexInv, Program PROVE TypeOK' /\ IndexInv'
<1>1. CASE BeginStarts
  BY <1>1, RatesFacts DEF BeginStarts, TypeOK, IndexInv, Statuses, modem_vars
<1>2. CASE CheckPower
  BY <1>2, ExchangeTypes DEF CheckPower, TypeOK, IndexInv, modem_vars
<1>3. CASE CheckOK
  BY <1>3, ExchangeTypes, RatesFacts DEF CheckOK, AfterSearch, TypeOK, IndexInv, modem_vars
<1>4. CASE SearchSetsPort
  BY <1>4, RatesFacts DEF SearchSetsPort, AfterSearch, TypeOK, IndexInv, modem_vars
<1>5. CASE SearchAsks
  BY <1>5, ExchangeTypes, RatesFacts DEF SearchAsks, TypeOK, IndexInv, modem_vars
<1>6. CASE SearchFound
  BY <1>6, ExchangeTypes, RatesFacts DEF SearchFound, AfterSearch, TypeOK, IndexInv
<1>7. CASE ForceSetsPort
  BY <1>7, RatesFacts DEF ForceSetsPort, TypeOK, IndexInv, modem_vars
<1>8. CASE ForceSetsModem
  BY <1>8, ExchangeTypes, RatesFacts DEF ForceSetsModem, TypeOK, IndexInv
<1>9. CASE ForceEnds
  BY <1>9 DEF ForceEnds, TypeOK, IndexInv
<1>10. CASE Finish
  BY <1>10, RatesFacts DEF Finish, TypeOK, IndexInv, modem_vars
<1>11. CASE InitParam
  BY <1>11 DEF InitParam, TypeOK, IndexInv, modem_vars
<1>12. CASE InitSMSMemory
  BY <1>12, ExchangeTypes DEF InitSMSMemory, TypeOK, IndexInv, modem_vars
<1>13. CASE Echo
  BY <1>13 DEF Echo, TypeOK, IndexInv, Statuses, modem_vars
<1>14. CASE CheckRegistration
  BY <1>14, ExchangeTypes DEF CheckRegistration, TypeOK, IndexInv, modem_vars
<1>15. QED
  BY <1>1, <1>2, <1>3, <1>4, <1>5, <1>6, <1>7, <1>8, <1>9, <1>10, <1>11, <1>12, <1>13, <1>14
  DEF Program, Begin

\* A command to the modem.
LEMMA CommandTypes ==
  ASSUME noise \in 0..MaxNoise, NEW from, NEW to, NEW granted, NEW answer,
         Command(from, to, granted, answer)
  PROVE  noise' \in 0..MaxNoise /\ ip_state' \in {ip_state, to}
BY NoiseTypes DEF Command

LEMMA AskTypes ==
  ASSUME noise \in 0..MaxNoise, NEW answer, AskAddress(answer)
  PROVE  noise' \in 0..MaxNoise /\ ip_state' \in {ip_state, "ip"} /\ (ip_state' # ip_state => ip_state = "up")
BY CommandTypes DEF AskAddress

\* The functions of inetGSM.cpp and the server leave begin's state alone.
LEMMA OthersKept ==
  ASSUME InetCall \/ InetStep \/ PeerActs
  PROVE  UNCHANGED others
<1>1. CASE InetCall
  BY <1>1 DEF InetCall, ConfigureGPRS, AttachGPRS, DettachGPRS, Gatt, DisconnectTCP, ConnectedClient,
     HttpPOST, others, vars, begin_vars, modem_vars
<1>2. CASE InetStep
  BY <1>2 DEF InetStep, Step, CfgAsks, CfgCloses, CfgShuts, CfgSetsApn, CfgBringsUp, CfgChecks,
     TcpStarts, TcpWaits, TcpSends, PostWrites
<1>3. CASE PeerActs
  BY <1>3 DEF PeerActs
<1>4. QED
  BY <1>1, <1>2, <1>3

IpStates == {"initial", "apn", "up", "ip", "connecting", "tcp", "deact"}

\* The part of the types that those functions can disturb.
CallTypes ==
  /\ ipc \in {"idle", "cfg_ip", "cfg_close", "cfg_shut", "cfg_apn", "cfg_up", "cfg_check",
              "tcp_start", "tcp_wait", "tcp_send", "post_write"}
  /\ n_of_at \in 0..MaxAttempts - 1 /\ iret \in -2..1
  /\ ip_state \in IpStates
  /\ noise \in 0..MaxNoise /\ status \in Statuses /\ mode \in {"command", "data"}

LEMMA CallsTyped == ASSUME InetTypeOK, InetCall PROVE CallTypes'
<1> USE DEF InetTypeOK, TypeOK, CallTypes, IpStates
<1>1. CASE ConfigureGPRS
  BY <1>1 DEF ConfigureGPRS, vars, modem_vars
<1>2. ASSUME NEW granted, NEW to \in IpStates, Gatt(granted, to) PROVE CallTypes'
  BY <1>2, CommandTypes DEF Gatt, Return, Statuses
<1>3. CASE DisconnectTCP
  <2>1. noise' \in 0..MaxNoise /\ ip_state' \in {ip_state, "ip"}
    BY <1>3, CommandTypes DEF DisconnectTCP
  <2>2. QED
    BY <1>3, <2>1 DEF DisconnectTCP, Return, Statuses
<1>4. CASE ConnectedClient
  <2>1. noise' \in 0..MaxNoise /\ ip_state' \in {ip_state, "tcp"}
    BY <1>4, CommandTypes DEF ConnectedClient
  <2>2. QED
    BY <1>4, <2>1 DEF ConnectedClient, Return, Statuses
<1>5. CASE HttpPOST
  BY <1>5 DEF HttpPOST, vars, modem_vars
<1>6. QED
  BY <1>1, <1>2, <1>3, <1>4, <1>5 DEF InetCall, AttachGPRS, DettachGPRS

LEMMA AgainTypes ==
  ASSUME n_of_at \in 0..MaxAttempts - 1, iret \in -2..1, Again
  PROVE  /\ n_of_at' \in 0..MaxAttempts - 1 /\ iret' \in -2..1 /\ ipc' \in {"idle", "tcp_start"}
BY AttemptsAssumption DEF Again, Return

LEMMA StepsTyped == ASSUME InetTypeOK, InetStep PROVE CallTypes'
<1> USE DEF InetTypeOK, TypeOK, CallTypes, IpStates
<1>1. CASE CfgAsks
  BY <1>1, AskTypes DEF CfgAsks, Step
<1>2. CASE CfgCloses
  <2>1. noise' \in 0..MaxNoise /\ ip_state' \in {ip_state, "ip"}
    BY <1>2, CommandTypes DEF CfgCloses
  <2>2. QED
    BY <1>2, <2>1 DEF CfgCloses, Step, Return
<1>3. CASE CfgShuts
  <2>1. noise' \in 0..MaxNoise /\ ip_state' \in {ip_state, "initial"}
    BY <1>3, CommandTypes DEF CfgShuts
  <2>2. QED
    BY <1>3, <2>1 DEF CfgShuts, Step, Return
<1>4. CASE CfgSetsApn
  <2>1. noise' \in 0..MaxNoise /\ ip_state' \in {ip_state, "apn"}
    BY <1>4, CommandTypes DEF CfgSetsApn
  <2>2. QED
    BY <1>4, <2>1 DEF CfgSetsApn, Step, Return
<1>5. CASE CfgBringsUp
  BY <1>5, CommandTypes DEF CfgBringsUp, Step, Return
<1>6. CASE CfgChecks
  BY <1>6, AskTypes DEF CfgChecks, Step, Return, Statuses
<1>7. CASE TcpStarts
  BY <1>7, CommandTypes, AgainTypes DEF TcpStarts, Step
<1>8. CASE TcpWaits
  BY <1>8, AgainTypes DEF TcpWaits, Step
<1>9. CASE TcpSends
  <2>1. noise' \in 0..MaxNoise /\ ip_state' \in {ip_state, "tcp"}
    BY <1>9, CommandTypes DEF TcpSends
  <2>2. QED
    BY <1>9, <2>1, AgainTypes, AttemptsAssumption DEF TcpSends, Return
<1>10. CASE PostWrites
  BY <1>10 DEF PostWrites, Return
<1>11. QED
  BY <1>1, <1>2, <1>3, <1>4, <1>5, <1>6, <1>7, <1>8, <1>9, <1>10 DEF InetStep

\* A call begins and goes on only while no begin is in progress.
LEMMA TypeStep ==
  ASSUME InetTypeOK, IndexInv, [InetNext]_inet_vars
  PROVE  InetTypeOK' /\ IndexInv'
<1>1. CASE StartUp
  <2>1. TypeOK' /\ IndexInv'
    BY <1>1, ProgramTypes DEF StartUp, InetTypeOK
  <2>2. QED
    BY <1>1, <2>1 DEF StartUp, InetTypeOK, call_vars
<1>2. CASE InetCall
  <2>1. UNCHANGED others
    BY <1>2, OthersKept
  <2>2. pc = "idle"
    BY <1>2 DEF InetCall, ConfigureGPRS, AttachGPRS, DettachGPRS, Gatt, DisconnectTCP,
       ConnectedClient, HttpPOST, Idle
  <2>3. CallTypes'
    BY <1>2, CallsTyped
  <2>4. QED
    BY <2>1, <2>2, <2>3 DEF InetTypeOK, TypeOK, IndexInv, CallTypes, IpStates, others, begin_vars
<1>3. CASE InetStep
  <2>1. UNCHANGED others
    BY <1>3, OthersKept
  <2>2. pc = "idle"
    BY <1>3 DEF InetTypeOK, InetStep, Step, CfgAsks, CfgCloses, CfgShuts, CfgSetsApn, CfgBringsUp,
       CfgChecks, TcpStarts, TcpWaits, TcpSends, PostWrites
  <2>3. CallTypes'
    BY <1>3, StepsTyped
  <2>4. QED
    BY <2>1, <2>2, <2>3 DEF InetTypeOK, TypeOK, IndexInv, CallTypes, IpStates, others, begin_vars
<1>4. CASE NetworkActs
  BY <1>4 DEF NetworkActs, NetworkChanges, InetTypeOK, TypeOK, IndexInv, call_vars, begin_vars,
     modem_vars
<1>5. CASE PeerActs
  BY <1>5 DEF PeerActs, InetTypeOK, TypeOK, IndexInv, others, call_vars, begin_vars
<1>6. CASE UNCHANGED inet_vars
  BY <1>6 DEF inet_vars, vars, call_vars, begin_vars, modem_vars, InetTypeOK, TypeOK, IndexInv
<1>7. QED
  BY <1>1, <1>2, <1>3, <1>4, <1>5, <1>6 DEF InetNext

----------------------------------------------------------------------------
(* The line.                                                               *)

\* What only begin and CheckRegistration change.
begins == <<begin_vars, port, comm_line_status, module_status, sms_memory, on, baud>>

LEMMA OnlyStartUp ==
  ASSUME InetTypeOK, [InetNext]_inet_vars, ~StartUp
  PROVE  /\ UNCHANGED begins
         /\ pc = "idle" \/ UNCHANGED <<status, noise>>
         /\ pc # "idle" => mode' \in {mode, "command"}
<1>1. CASE InetCall
  BY <1>1, OthersKept DEF others, begins, InetCall, ConfigureGPRS, AttachGPRS, DettachGPRS, Gatt,
     DisconnectTCP, ConnectedClient, HttpPOST, Idle
<1>2. CASE InetStep
  BY <1>2, OthersKept DEF others, begins, InetTypeOK, InetStep, Step, CfgAsks, CfgCloses, CfgShuts,
     CfgSetsApn, CfgBringsUp, CfgChecks, TcpStarts, TcpWaits, TcpSends, PostWrites
<1>3. CASE NetworkActs
  BY <1>3 DEF NetworkActs, NetworkChanges, begins, modem_vars
<1>4. CASE PeerActs
  BY <1>4, OthersKept DEF others, begins, PeerActs
<1>5. CASE UNCHANGED inet_vars
  BY <1>5 DEF inet_vars, vars, begins, modem_vars
<1>6. QED
  BY <1>1, <1>2, <1>3, <1>4, <1>5 DEF InetNext

LEMMA LineProgram == ASSUME TypeOK, LineInv, Program PROVE LineInv'
<1> USE DEF LineInv, LineReleased, Searching
<1>1. CASE BeginStarts
  BY <1>1 DEF BeginStarts
<1>2. CASE CheckPower
  BY <1>2 DEF CheckPower
<1>3. CASE CheckOK
  BY <1>3 DEF CheckOK, AfterSearch, TypeOK
<1>4. CASE SearchSetsPort
  BY <1>4 DEF SearchSetsPort, AfterSearch
<1>5. CASE SearchAsks
  BY <1>5 DEF SearchAsks
<1>6. CASE SearchFound
  BY <1>6 DEF SearchFound, AfterSearch
<1>7. CASE ForceSetsPort
  BY <1>7 DEF ForceSetsPort
<1>8. CASE ForceSetsModem
  BY <1>8 DEF ForceSetsModem
<1>9. CASE ForceEnds
  BY <1>9 DEF ForceEnds
<1>10. CASE Finish
  BY <1>10 DEF Finish
<1>11. CASE InitParam
  BY <1>11 DEF InitParam
<1>12. CASE InitSMSMemory
  BY <1>12 DEF InitSMSMemory
<1>13. CASE Echo
  BY <1>13 DEF Echo
<1>14. CASE CheckRegistration
  BY <1>14 DEF CheckRegistration
<1>15. QED
  BY <1>1, <1>2, <1>3, <1>4, <1>5, <1>6, <1>7, <1>8, <1>9, <1>10, <1>11, <1>12, <1>13, <1>14
  DEF Program, Begin

LEMMA LineStep ==
  ASSUME InetTypeOK, LineInv, [InetNext]_inet_vars
  PROVE  LineInv'
<1>1. CASE StartUp
  BY <1>1, LineProgram DEF StartUp, InetTypeOK
<1>2. CASE ~StartUp
  <2>1. UNCHANGED begins
    BY <1>2, OnlyStartUp
  <2>2. QED
    BY <2>1 DEF begins, begin_vars, LineInv, LineReleased, Searching
<1>3. QED
  BY <1>1, <1>2

----------------------------------------------------------------------------
(* The rate and the power.                                                 *)

\* While nothing fails, OK is the answer of a modem that both sides reach.
LEMMA TrueAnswers ==
  ASSUME noise \in 0..MaxNoise, noise' = 0
  PROVE  /\ \A resp : SendAT(resp) => noise = 0 /\ (resp = "OK" <=> Talking)
         /\ \A rate : SetModemRate(rate) => noise = 0 /\ (Talking => baud' = rate)
<1>1. ~Noise
  BY RatesAssumption DEF Noise
<1>2. QED
  BY <1>1 DEF SendAT, SetModemRate, Talking

LEMMA TalkProgram == ASSUME TypeOK, LineInv, TalkInv, Program PROVE TalkInv'
<1> USE DEF TalkInv, Finishing, Outside, Talking, TypeOK
<1>0. noise \in 0..MaxNoise
  OBVIOUS
<1>1. CASE BeginStarts
  BY <1>1 DEF BeginStarts
<1>2. CASE CheckPower
  BY <1>0, <1>2, TrueAnswers DEF CheckPower, modem_vars
<1>3. CASE CheckOK
  BY <1>0, <1>3, TrueAnswers DEF CheckOK, AfterSearch, modem_vars, LineInv
<1>4. CASE SearchSetsPort
  BY <1>4 DEF SearchSetsPort, AfterSearch, modem_vars, LineInv, Searching
<1>5. CASE SearchAsks
  BY <1>0, <1>5, TrueAnswers DEF SearchAsks, modem_vars
<1>6. CASE SearchFound
  BY <1>0, <1>6, TrueAnswers DEF SearchFound, AfterSearch
<1>7. CASE ForceSetsPort
  BY <1>7 DEF ForceSetsPort
<1>8. CASE ForceSetsModem
  BY <1>8 DEF ForceSetsModem
<1>9. CASE ForceEnds
  BY <1>9 DEF ForceEnds
<1>10. CASE Finish
  BY <1>10 DEF Finish, modem_vars, LineInv
<1>11. CASE InitParam
  BY <1>11 DEF InitParam, modem_vars
<1>12. CASE InitSMSMemory
  BY <1>0, <1>12, TrueAnswers DEF InitSMSMemory, modem_vars, LineInv
<1>13. CASE Echo
  BY <1>13 DEF Echo, modem_vars
<1>14. CASE CheckRegistration
  BY <1>0, <1>14, TrueAnswers DEF CheckRegistration, modem_vars
<1>15. QED
  BY <1>1, <1>2, <1>3, <1>4, <1>5, <1>6, <1>7, <1>8, <1>9, <1>10, <1>11, <1>12, <1>13, <1>14
  DEF Program, Begin

\* A function that sets READY has heard the modem.
LEMMA ReadyHeard ==
  ASSUME InetTypeOK, [InetNext]_inet_vars, ~StartUp
  PROVE  /\ noise' = 0 => noise = 0
         /\ status' = "READY" => status = "READY" \/ Talking
<1>0. noise \in Nat
  BY RatesAssumption DEF InetTypeOK, TypeOK
<1>1. ASSUME NEW from, NEW to, NEW granted, NEW answer, Command(from, to, granted, answer)
      PROVE  /\ noise' = 0 => noise = 0
             /\ answer = "good" => Talking
  BY <1>0, <1>1 DEF Command, Noise
<1>2. ASSUME NEW answer, AskAddress(answer)
      PROVE  noise' = 0 => noise = 0
  BY <1>1, <1>2 DEF AskAddress
<1>3. CASE InetCall
  <2>1. CASE ConfigureGPRS \/ HttpPOST
    BY <2>1 DEF ConfigureGPRS, HttpPOST, vars
  <2>2. ASSUME NEW granted, NEW to, Gatt(granted, to)
        PROVE  (noise' = 0 => noise = 0) /\ (status' = "READY" => Talking)
    BY <1>1, <2>2 DEF Gatt
  <2>3. CASE DisconnectTCP
    <3>1. noise' = 0 => noise = 0
      BY <1>1, <2>3 DEF DisconnectTCP
    <3>2. QED
      BY <2>3, <3>1 DEF DisconnectTCP
  <2>4. CASE ConnectedClient
    <3>1. noise' = 0 => noise = 0
      BY <1>1, <2>4 DEF ConnectedClient
    <3>2. QED
      BY <2>4, <3>1 DEF ConnectedClient
  <2>5. QED
    BY <1>3, <2>1, <2>2, <2>3, <2>4 DEF InetCall, AttachGPRS, DettachGPRS
<1>4. CASE InetStep
  <2>1. noise' = 0 => noise = 0
    BY <1>1, <1>2, <1>4 DEF InetStep, CfgAsks, CfgCloses, CfgShuts, CfgSetsApn, CfgBringsUp,
       CfgChecks, TcpStarts, TcpWaits, TcpSends, PostWrites
  <2>2. status' = "READY" => status = "READY"
    BY <1>4 DEF InetStep, CfgAsks, CfgCloses, CfgShuts, CfgSetsApn, CfgBringsUp,
       CfgChecks, TcpStarts, TcpWaits, TcpSends, PostWrites
  <2>3. QED
    BY <2>1, <2>2
<1>5. CASE NetworkActs
  BY <1>5 DEF NetworkActs, NetworkChanges
<1>6. CASE PeerActs
  BY <1>6 DEF PeerActs
<1>7. CASE UNCHANGED inet_vars
  BY <1>7 DEF inet_vars, vars
<1>8. QED
  BY <1>3, <1>4, <1>5, <1>6, <1>7 DEF InetNext

LEMMA TalkStep ==
  ASSUME InetTypeOK, LineInv, TalkInv, [InetNext]_inet_vars
  PROVE  TalkInv'
<1>1. CASE StartUp
  BY <1>1, TalkProgram DEF StartUp, InetTypeOK
<1>2. CASE ~StartUp
  <2>1. /\ UNCHANGED begins
        /\ pc = "idle" \/ UNCHANGED <<status, noise>>
        /\ pc # "idle" => mode' \in {mode, "command"}
    BY <1>2, OnlyStartUp
  <2>2. /\ noise' = 0 => noise = 0
        /\ status' = "READY" => status = "READY" \/ Talking
    BY <1>2, ReadyHeard
  <2>3. baud_rate' = baud_rate
    BY DEF baud_rate
  <2>4. QED
    BY <2>1, <2>2, <2>3 DEF begins, begin_vars, TalkInv, Talking, Outside, Finishing
<1>3. QED
  BY <1>1, <1>2

----------------------------------------------------------------------------
(* The connection.                                                         *)

\* What a command with an answer says of the connection before it and after it.
LEMMA CommandFacts ==
  ASSUME noise \in 0..MaxNoise, NEW from, NEW to, NEW granted, NEW answer,
         Command(from, to, granted, answer)
  PROVE  /\ ip_state' # ip_state => Talking /\ ip_state \in from /\ ip_state' = to
         /\ answer = "good" => Talking /\ ip_state \in from /\ ip_state' = to /\ granted
         /\ answer = "error" => Talking /\ ~(ip_state \in from /\ granted) /\ ip_state' = ip_state
         /\ noise' = 0 => noise = 0
         /\ (noise' = 0 /\ Talking) => answer \in {"good", "error"}
<1>1. Noise => noise' # 0
  BY NoiseTypes
<1>2. noise \in Nat
  BY RatesAssumption
<1>3. QED
  BY <1>1, <1>2 DEF Command, Talking, Noise

LEMMA AskFacts ==
  ASSUME InetTypeOK, NEW answer, AskAddress(answer)
  PROVE  /\ ip_state' # ip_state => Talking /\ ip_state = "up" /\ ip_state' = "ip"
         /\ answer = "error" => ~HasIp /\ ip_state' = ip_state
         /\ (noise' = 0 /\ Talking /\ answer # "error") => HasIp'
         /\ noise' = 0 => noise = 0
BY ZenonT(40), CommandFacts DEF AskAddress, HasIp, InetTypeOK, TypeOK

\* Every function leaves the modem's power, rate and port alone.
LEMMA StepKeeps ==
  ASSUME InetCall \/ InetStep
  PROVE  /\ UNCHANGED <<on, baud, port, net>>
         /\ ~(ipc = "tcp_send" \/ ipc = "post_write") => UNCHANGED mode
<1>1. UNCHANGED <<on, baud, port, net>>
  BY OthersKept DEF others
<1>2. CASE InetCall
  BY <1>1, <1>2 DEF InetCall, ConfigureGPRS, AttachGPRS, DettachGPRS, Gatt, DisconnectTCP,
     ConnectedClient, HttpPOST, vars, modem_vars
<1>3. CASE InetStep
  BY <1>1, <1>3 DEF InetStep, Step, CfgAsks, CfgCloses, CfgShuts, CfgSetsApn, CfgBringsUp,
     CfgChecks, TcpStarts, TcpWaits, TcpSends, PostWrites
<1>4. QED
  BY <1>2, <1>3

LEMMA IpCalls == ASSUME InetTypeOK, IpInv, InetCall PROVE IpInv'
<1> USE DEF IpInv, HasIp
<1>0. noise \in 0..MaxNoise
  BY DEF InetTypeOK, TypeOK
<1>1. on' = on
  BY StepKeeps
<1>2. CASE ConfigureGPRS \/ HttpPOST
  BY <1>1, <1>2 DEF ConfigureGPRS, HttpPOST
<1>3. ASSUME NEW from, NEW to, NEW granted, NEW answer, Command(from, to, granted, answer)
      PROVE  ~on' => ip_state' = "initial"
  BY <1>0, <1>1, <1>3, CommandFacts DEF Talking
<1>4. ASSUME NEW granted, NEW to, Gatt(granted, to) PROVE IpInv'
  BY <1>1, <1>3, <1>4 DEF Gatt, Return
<1>5. CASE DisconnectTCP
  <2>1. ~on' => ip_state' = "initial"
    BY <1>3, <1>5 DEF DisconnectTCP
  <2>2. QED
    BY <1>5, <2>1 DEF DisconnectTCP, Return
<1>6. CASE ConnectedClient
  <2>1. ~on' => ip_state' = "initial"
    BY <1>3, <1>6 DEF ConnectedClient
  <2>2. ipc' = "idle"
    BY <1>6 DEF ConnectedClient, Return
  <2>3. QED
    BY <2>1, <2>2
<1>7. QED
  BY <1>2, <1>4, <1>5, <1>6 DEF InetCall, AttachGPRS, DettachGPRS

LEMMA IpSteps == ASSUME InetTypeOK, IpInv, InetStep PROVE IpInv'
<1> USE DEF IpInv, HasIp
<1>0. noise \in 0..MaxNoise
  BY DEF InetTypeOK, TypeOK
<1>1. /\ UNCHANGED <<on, baud, port, net>>
      /\ ~(ipc = "tcp_send" \/ ipc = "post_write") => UNCHANGED mode
  BY StepKeeps
<1>2. CASE CfgAsks
  <2>1. PICK answer \in Answers :
          AskAddress(answer) /\ ipc' = IF answer # "error" THEN "cfg_close" ELSE "cfg_shut"
    BY <1>2 DEF CfgAsks
  <2>2. /\ ip_state' # ip_state => Talking /\ ip_state = "up" /\ ip_state' = "ip"
        /\ answer = "error" => ~HasIp /\ ip_state' = ip_state
        /\ (noise' = 0 /\ Talking /\ answer # "error") => HasIp'
    BY <2>1, AskFacts
  <2>3. ipc = "cfg_ip"
    BY <1>2 DEF CfgAsks, Step
  <2>4. QED
    BY <1>1, <2>1, <2>2, <2>3 DEF Talking
<1>3. CASE CfgCloses
  <2>1. ~on => ip_state' = ip_state
    BY <1>0, <1>3, CommandFacts DEF CfgCloses, Talking
  <2>2. QED
    BY <1>1, <1>3, <2>1 DEF CfgCloses, Return
<1>4. CASE CfgShuts
  <2>1. PICK answer \in Answers :
          /\ Command({ip_state}, "initial", TRUE, answer)
          /\ ipc' \in {"cfg_apn", "idle"}
    BY <1>4 DEF CfgShuts, Return
  <2>2. ip_state' \in {ip_state, "initial"}
    BY <1>0, <2>1, CommandTypes
  <2>3. ipc = "cfg_shut"
    BY <1>4 DEF CfgShuts, Step
  <2>4. QED
    BY <1>1, <2>1, <2>2, <2>3
<1>5. CASE CfgSetsApn
  <2>1. PICK answer \in Answers :
          /\ Command({"initial"}, "apn", TRUE, answer)
          /\ ipc' \in {"cfg_up", "idle"}
    BY <1>5 DEF CfgSetsApn, Return
  <2>2. ip_state' # ip_state => Talking /\ ip_state' = "apn"
    BY <1>0, <2>1, CommandFacts
  <2>3. ipc = "cfg_apn"
    BY <1>5 DEF CfgSetsApn, Step
  <2>4. QED
    BY <1>1, <2>1, <2>2, <2>3 DEF Talking
<1>6. CASE CfgBringsUp
  <2>1. PICK answer \in Answers :
          /\ Command({"apn"}, "up", net, answer)
          /\ ipc' \in {"cfg_check", "idle"}
    BY <1>6 DEF CfgBringsUp, Return
  <2>2. ip_state' # ip_state => Talking /\ ip_state' = "up"
    BY <1>0, <2>1, CommandFacts
  <2>3. ipc = "cfg_up"
    BY <1>6 DEF CfgBringsUp, Step
  <2>4. QED
    BY <1>1, <2>1, <2>2, <2>3 DEF Talking
<1>7. CASE CfgChecks
  <2>1. PICK answer \in Answers : AskAddress(answer) /\ ipc' = "idle"
    BY <1>7 DEF CfgChecks, Return
  <2>2. ip_state' # ip_state => Talking
    BY <2>1, AskFacts
  <2>3. QED
    BY <1>1, <2>1, <2>2 DEF Talking
<1>8. CASE TcpStarts
  <2>1. PICK answer \in Answers, to \in {"connecting", "tcp"} :
          Command({"ip"}, to, TRUE, answer)
    BY <1>8 DEF TcpStarts
  <2>2. ip_state' # ip_state => Talking
    BY <1>0, <2>1, CommandFacts
  <2>3. ipc' \in {"tcp_send", "tcp_wait", "tcp_start", "idle"}
    BY <1>8 DEF TcpStarts, Again, Return
  <2>4. QED
    BY <1>1, <2>2, <2>3 DEF Talking
<1>9. CASE TcpWaits
  BY <1>1, <1>9 DEF TcpWaits, Again, Return
<1>10. CASE TcpSends
  <2>1. PICK answer \in Answers :
          /\ Command({"tcp"}, "tcp", TRUE, answer)
          /\ answer = "good" => mode' = "data" /\ ipc' = "post_write"
          /\ answer # "good" => Again
    BY <1>10 DEF TcpSends
  <2>2. ip_state' # ip_state => Talking
    BY <1>0, <2>1, CommandFacts
  <2>3. answer # "good" => ipc' \in {"tcp_start", "idle"}
    BY <2>1 DEF Again, Return
  <2>4. QED
    BY <1>1, <2>1, <2>2, <2>3 DEF Talking
<1>11. CASE PostWrites
  BY <1>1, <1>11 DEF PostWrites, Return
<1>12. QED
  BY <1>2, <1>3, <1>4, <1>5, <1>6, <1>7, <1>8, <1>9, <1>10, <1>11 DEF InetStep

LEMMA IpStep ==
  ASSUME InetTypeOK, IpInv, [InetNext]_inet_vars
  PROVE  IpInv'
<1>1. CASE StartUp
  BY <1>1 DEF StartUp, IpInv, call_vars
<1>2. CASE InetCall
  BY <1>2, IpCalls
<1>3. CASE InetStep
  BY <1>3, IpSteps
<1>4. CASE NetworkActs
  BY <1>4 DEF NetworkActs, NetworkChanges, IpInv, HasIp, Talking, call_vars, modem_vars, InetTypeOK
<1>5. CASE PeerActs
  <2>1. UNCHANGED <<on, baud, port, noise, ipc>>
    BY <1>5 DEF PeerActs, others, call_vars
  <2>2. \/ ip_state = "connecting" /\ ip_state' = "tcp" /\ mode' = mode
        \/ ip_state \in {"connecting", "tcp"} /\ ip_state' = "ip" /\ mode' = "command"
    BY <1>5 DEF PeerActs
  <2>3. QED
    BY <2>1, <2>2 DEF IpInv, HasIp, Talking
<1>6. CASE UNCHANGED inet_vars
  BY <1>6 DEF inet_vars, vars, call_vars, modem_vars, IpInv, HasIp, Talking
<1>7. QED
  BY <1>1, <1>2, <1>3, <1>4, <1>5, <1>6 DEF InetNext

----------------------------------------------------------------------------
(* The invariant, and what it gives.                                       *)

LEMMA InitInv == InetInit => IInv
<1> SUFFICES ASSUME InetInit PROVE IInv
  OBVIOUS
<1>1. InetTypeOK
  <2>1. noise \in 0..MaxNoise /\ n_of_at \in 0..MaxAttempts - 1
    BY RatesAssumption, AttemptsAssumption DEF InetInit, Init
  <2>2. i \in 1..Len(Rates) + 1
    BY RatesFacts DEF InetInit, Init
  <2>3. {on, net, turnedON, norep} \subseteq BOOLEAN /\ {port, baud} \subseteq RateSet
    BY DEF InetInit, Init
  <2>4. TypeOK
    BY <2>1, <2>2, <2>3 DEF InetInit, Init, TypeOK, Statuses
  <2>5. iret \in -2..1
    BY DEF InetInit
  <2>6. QED
    BY <2>1, <2>4, <2>5 DEF InetInit, Init, InetTypeOK
<1>2. IndexInv /\ LineInv /\ TalkInv /\ IpInv
  BY DEF InetInit, Init, IndexInv, LineInv, LineReleased, Searching, TalkInv, Outside, Finishing,
     IpInv, HasIp
<1>3. QED
  BY <1>1, <1>2 DEF IInv

LEMMA Invariance == InetSpec => []IInv
<1>1. IInv /\ [InetNext]_inet_vars => IInv'
  BY TypeStep, LineStep, TalkStep, IpStep DEF IInv
<1>2. QED
  BY InitInv, <1>1, PTL DEF InetSpec

\* Every variable of GSM::begin, GSM::CheckRegistration and the functions of
\* inetGSM.cpp keeps its type; in particular a network is registered in only by a
\* modem that is on, and a call runs only while no begin does.
THEOREM TypeCorrect == InetSpec => []InetTypeOK
<1>1. IInv => InetTypeOK
  BY DEF IInv
<1>2. QED
  BY Invariance, <1>1, PTL

\* Between the calls of the program the line is free unless a begin forced the
\* rate, and InitSMSMemory never finds it busy.
THEOREM LineFree == InetSpec => []LineReleased
<1>1. IInv => LineReleased
  BY DEF IInv, LineInv
<1>2. QED
  BY Invariance, <1>1, PTL

\* A status READY is true as long as no exchange failed, whatever was called
\* before, and GSM::begin reaches its last branch only with a modem that answered.
THEOREM ReadyTalks == InetSpec => []ReadyMeansTalking
<1>1. IInv => ReadyMeansTalking
  BY DEF IInv, LineInv, TalkInv, Outside, ReadyMeansTalking
<1>2. QED
  BY Invariance, <1>1, PTL

\* InetGSM::httpPOST writes its text to a modem that waits for it.
THEOREM PostPrompted == InetSpec => []PostMeetsPrompt
<1>1. IInv => PostMeetsPrompt
  BY DEF IInv, IpInv, PostMeetsPrompt
<1>2. QED
  BY Invariance, <1>1, PTL

\* begin switches the modem off only with the status IDLE.
LEMMA PulseIdle ==
  ASSUME IInv, StartUp, status = "ATTACHED", on
  PROVE  on' /\ pc # "sms_memory"
<1>1. pc \in Outside
  BY DEF IInv, TalkInv
<1>2. on' = on
  BY <1>1 DEF StartUp, Program, Begin, BeginStarts, CheckPower, CheckOK, SearchSetsPort, SearchAsks,
     SearchFound, ForceSetsPort, ForceSetsModem, ForceEnds, Finish, InitParam, InitSMSMemory, Echo,
     CheckRegistration, Outside, modem_vars
<1>3. QED
  BY <1>1, <1>2 DEF Outside

\* A function of inetGSM.cpp that ends the address says so in the status.
LEMMA CallKeepsAddress ==
  ASSUME IInv, InetCall, status = "ATTACHED", status' = "ATTACHED", HasIp
  PROVE  HasIp'
<1> USE DEF HasIp
<1>0. noise \in 0..MaxNoise
  BY DEF IInv, InetTypeOK, TypeOK
<1>1. CASE ConfigureGPRS \/ HttpPOST
  BY <1>1 DEF ConfigureGPRS, HttpPOST
<1>2. CASE AttachGPRS \/ DettachGPRS
  BY <1>2 DEF AttachGPRS, DettachGPRS, Gatt
<1>3. CASE DisconnectTCP
  BY <1>0, <1>3, CommandTypes DEF DisconnectTCP
<1>4. CASE ConnectedClient
  BY <1>0, <1>4, CommandTypes DEF ConnectedClient
<1>5. QED
  BY <1>1, <1>2, <1>3, <1>4 DEF InetCall

LEMMA StepKeepsAddress ==
  ASSUME IInv, InetStep, HasIp
  PROVE  HasIp'
<1> USE DEF HasIp
<1>0. noise \in 0..MaxNoise
  BY DEF IInv, InetTypeOK, TypeOK
<1>1. CASE CfgAsks
  BY <1>0, <1>1, AskTypes DEF CfgAsks
<1>2. CASE CfgCloses
  BY <1>0, <1>2, CommandTypes DEF CfgCloses
<1>3. CASE CfgShuts \/ CfgSetsApn \/ CfgBringsUp
  BY <1>3 DEF IInv, IpInv, CfgShuts, CfgSetsApn, CfgBringsUp, Step
<1>4. CASE CfgChecks
  BY <1>0, <1>4, AskTypes DEF CfgChecks
<1>5. CASE TcpStarts
  BY <1>0, <1>5, CommandTypes DEF TcpStarts
<1>6. CASE TcpWaits \/ PostWrites
  BY <1>6 DEF TcpWaits, PostWrites
<1>7. CASE TcpSends
  BY <1>0, <1>7, CommandTypes DEF TcpSends
<1>8. QED
  BY <1>1, <1>2, <1>3, <1>4, <1>5, <1>6, <1>7 DEF InetStep

\* While the status is ATTACHED only the first CheckRegistration that finds the
\* network takes the address away, by the AT+CIPSHUT of InitParam.
THEOREM AddressStays == InetSpec => AddressKept
<1>1. ASSUME IInv, [InetNext]_inet_vars, status = "ATTACHED", status' = "ATTACHED", HasIp, ~HasIp'
      PROVE  net' # net \/ pc = "check_sms"
  <2>1. on
    BY <1>1 DEF IInv, IpInv, HasIp
  <2>2. CASE StartUp
    <3>1. on' /\ pc # "sms_memory"
      BY <1>1, <2>1, <2>2, PulseIdle
    <3>2. QED
      BY <1>1, <2>2, <3>1 DEF StartUp, HasIp
  <2>3. CASE InetCall
    BY <1>1, <2>3, CallKeepsAddress
  <2>4. CASE InetStep
    BY <1>1, <2>4, StepKeepsAddress
  <2>5. CASE NetworkActs
    BY <1>1, <2>5 DEF NetworkActs, NetworkChanges, IInv, InetTypeOK, TypeOK
  <2>6. CASE PeerActs
    BY <1>1, <2>6 DEF PeerActs, HasIp
  <2>7. CASE UNCHANGED inet_vars
    BY <1>1, <2>7 DEF inet_vars, HasIp
  <2>8. QED
    BY <1>1, <2>2, <2>3, <2>4, <2>5, <2>6, <2>7 DEF InetNext
<1>2. IInv /\ [InetNext]_inet_vars =>
        [(status = "ATTACHED" /\ status' = "ATTACHED" /\ HasIp /\ ~HasIp')
           => net' # net \/ pc = "check_sms"]_inet_vars
  BY <1>1
<1>3. QED
  BY Invariance, <1>2, PTL DEF InetSpec, AddressKept

\* InetGSM::configureGPRS, when it reports success and no exchange failed, leaves
\* an address and no connection of an earlier call.
THEOREM ConfiguredClean == InetSpec => ConfiguredIsClean
<1>1. ASSUME IInv, [InetNext]_inet_vars, ipc \in {"cfg_close", "cfg_check"}, iret' = 1,
             ipc' = "idle", noise' = 0, Talking
      PROVE  ip_state' \in {"ip", "deact"}
  <2>0. noise \in 0..MaxNoise /\ ip_state \in IpStates
    BY <1>1 DEF IInv, InetTypeOK, TypeOK, IpStates
  <2>1. CASE ipc = "cfg_close" /\ CfgCloses
    <3>1. PICK answer \in Answers : Command({"connecting", "tcp"}, "ip", TRUE, answer)
      BY <2>1 DEF CfgCloses
    <3>2. /\ answer = "good" => ip_state' = "ip"
          /\ answer = "error" => ip_state \notin {"connecting", "tcp"} /\ ip_state' = ip_state
          /\ noise = 0 /\ answer \in {"good", "error"}
      BY <1>1, <2>0, <3>1, CommandFacts
    <3>3. HasIp \/ ip_state = "deact"
      BY <1>1, <2>1, <3>2 DEF IInv, IpInv
    <3>4. QED
      BY <3>2, <3>3 DEF HasIp
  <2>2. CASE ipc = "cfg_check" /\ CfgChecks
    <3>1. PICK answer \in Answers :
            AskAddress(answer) /\ (answer = "error" => iret' = 0)
      BY <2>2 DEF CfgChecks, Return
    <3>2. /\ ip_state' # ip_state => ip_state' = "ip"
          /\ HasIp'
      BY <1>1, <3>1, AskFacts DEF IInv
    <3>3. ip_state \notin {"connecting", "tcp"}
      BY <1>1, <2>2 DEF IInv, IpInv
    <3>4. QED
      BY <3>2, <3>3 DEF HasIp
  <2>3. (ipc = "cfg_close" /\ CfgCloses) \/ (ipc = "cfg_check" /\ CfgChecks)
    BY <1>1 DEF InetNext, StartUp, InetCall, ConfigureGPRS, AttachGPRS, DettachGPRS, Gatt,
       DisconnectTCP, ConnectedClient, HttpPOST, Idle, InetStep, Step, CfgAsks, CfgShuts,
       CfgSetsApn, CfgBringsUp, CfgCloses, CfgChecks, TcpStarts, TcpWaits, TcpSends, PostWrites,
       NetworkActs, PeerActs, inet_vars, call_vars
  <2>4. QED
    BY <2>1, <2>2, <2>3
<1>2. IInv /\ [InetNext]_inet_vars =>
        [(ipc \in {"cfg_close", "cfg_check"} /\ iret' = 1 /\ ipc' = "idle" /\ noise' = 0 /\ Talking)
           => ip_state' \in {"ip", "deact"}]_inet_vars
  BY <1>1
<1>3. QED
  BY Invariance, <1>2, PTL DEF InetSpec, ConfiguredIsClean
=============================================================================
