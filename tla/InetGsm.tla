------------------------------ MODULE InetGsm -------------------------------
(***************************************************************************)
(* Internet connections over the modem, GSMSHIELD/inetGSM.cpp, together    *)
(* with the start-up of GsmModem: both use one modem and one status, and   *)
(* the program calls one function at a time, in any order.                 *)
(*                                                                         *)
(* A command with the WaitResp that follows it is one step.  The modem is  *)
(* seen through its answers: to "OK", "ERROR" and the rest.                *)
(***************************************************************************)
EXTENDS GsmModem

CONSTANTS MaxAttempts  \* the bound of n_of_at

ASSUME AttemptsAssumption == MaxAttempts \in Nat \ {0}

VARIABLES
  ipc,       \* where the called function is, "idle" between calls
  n_of_at,   \* its loop counter, 0 outside the loop
  iret,      \* what it returned last
  ip_state   \* the modem: what became of AT+CSTT, AT+CIICR, AT+CIFSR, AT+CIPSTART

call_vars == <<ipc, n_of_at, iret>>
inet_vars == <<vars, call_vars, ip_state>>
\* What no function of inetGSM.cpp changes.
others == <<begin_vars, port, comm_line_status, module_status, sms_memory, on, baud, net, checks>>

HasIp == ip_state \in {"ip", "connecting", "tcp"}

InetInit == Init /\ ipc = "idle" /\ n_of_at = 0 /\ iret = 0 /\ ip_state = "initial"

----------------------------------------------------------------------------
(* The modem.                                                              *)

\* A command that leads from a state in from to the state to, if granted: done,
\* refused, not heard, or done without an answer.
Command(from, to, granted, answer) ==
  LET accepted == Talking /\ ip_state \in from /\ granted
  IN  \/ /\ answer = IF ~Talking THEN "none" ELSE IF accepted THEN "good" ELSE "error"
         /\ ip_state' = IF accepted THEN to ELSE ip_state
         /\ UNCHANGED noise
      \/ on /\ port # baud /\ answer = "garbled" /\ UNCHANGED <<ip_state, noise>>
      \/ /\ Talking /\ Noise /\ answer \in {"none", "garbled"}
         /\ ip_state' \in {ip_state, IF accepted THEN to ELSE ip_state}

Answers == {"good", "error", "none", "garbled"}

\* AT+CIFSR in any state with an address.
AskAddress(answer) ==
  \/ ip_state # "up" /\ Command({"ip", "connecting", "tcp"}, ip_state, TRUE, answer)
  \/ ip_state = "up" /\ Command({"up"}, "ip", TRUE, answer)

\* The attempt to connect ends, or the server closes the connection.
PeerActs ==
  /\ \/ ip_state = "connecting" /\ ip_state' = "tcp" /\ UNCHANGED mode
     \/ ip_state \in {"connecting", "tcp"} /\ ip_state' = "ip" /\ mode' = "command"
  /\ UNCHANGED <<others, status, noise, call_vars>>

\* The loss of the network ends every context.
NetworkActs ==
  /\ NetworkChanges
  /\ ip_state' = IF net /\ ip_state # "initial" THEN "deact" ELSE ip_state
  /\ UNCHANGED call_vars

\* begin and CheckRegistration.  A modem that is switched off forgets, and
\* InitParam ends with AT+CIPSHUT.
StartUp ==
  /\ ipc = "idle"
  /\ Program
  /\ ip_state' = IF ~on' \/ (pc \in {"sms_memory", "check_sms"} /\ Talking)
                 THEN "initial" ELSE ip_state
  /\ UNCHANGED call_vars

----------------------------------------------------------------------------
(* Calls.                                                                  *)

Idle == pc = "idle" /\ ipc = "idle"

Return(value) == ipc' = "idle" /\ iret' = value

\* One step of a call: a command, and what is done after each answer.
Step(at) == ipc = at /\ UNCHANGED <<others, mode>>

ConfigureGPRS ==
  /\ Idle
  /\ ipc' = "cfg_ip"
  /\ UNCHANGED <<vars, n_of_at, iret, ip_state>>

\* Mutant: only an address counts as an address.
CfgAsksStrict ==
  /\ Step("cfg_ip") /\ UNCHANGED <<status, n_of_at, iret>>
  /\ \E answer \in Answers :
       /\ AskAddress(answer)
       /\ ipc' = IF answer = "good" THEN "cfg_close" ELSE "cfg_shut"

\* Anything but ERROR counts as an address.
CfgAsks ==
  /\ Step("cfg_ip") /\ UNCHANGED <<status, n_of_at, iret>>
  /\ \E answer \in Answers :
       /\ AskAddress(answer)
       /\ ipc' = IF answer # "error" THEN "cfg_close" ELSE "cfg_shut"

\* Mutant: the connection is left as it is.
CfgClosesNothing ==
  /\ Step("cfg_close") /\ UNCHANGED <<status, n_of_at, noise, ip_state>>
  /\ Return(1)

\* AT+CIPCLOSE and AT+CIPSERVER=0, whatever is answered
CfgCloses ==
  /\ Step("cfg_close") /\ UNCHANGED <<status, n_of_at>>
  /\ \E answer \in Answers : Command({"connecting", "tcp"}, "ip", TRUE, answer)
  /\ Return(1)

\* Mutant: no AT+CIPSHUT.
CfgShutsNothing ==
  /\ Step("cfg_shut") /\ UNCHANGED <<status, n_of_at, noise, ip_state, iret>>
  /\ ipc' = "cfg_apn"

\* AT+CIPSHUT is granted in every state.
CfgShuts ==
  /\ Step("cfg_shut") /\ UNCHANGED <<status, n_of_at>>
  /\ \E answer \in Answers :
       /\ Command({ip_state}, "initial", TRUE, answer)
       /\ IF answer = "good" THEN ipc' = "cfg_apn" /\ UNCHANGED iret ELSE Return(0)

CfgSetsApn ==
  /\ Step("cfg_apn") /\ UNCHANGED <<status, n_of_at>>
  /\ \E answer \in Answers :
       /\ Command({"initial"}, "apn", TRUE, answer)
       /\ IF answer = "good" THEN ipc' = "cfg_up" /\ UNCHANGED iret ELSE Return(0)

CfgBringsUp ==
  /\ Step("cfg_up") /\ UNCHANGED <<status, n_of_at>>
  /\ \E answer \in Answers :
       /\ Command({"apn"}, "up", net, answer)
       /\ IF answer = "good" THEN ipc' = "cfg_check" /\ UNCHANGED iret ELSE Return(0)

CfgChecks ==
  /\ Step("cfg_check") /\ UNCHANGED n_of_at
  /\ \E answer \in Answers :
       /\ AskAddress(answer)
       /\ IF answer # "error" THEN status' = "ATTACHED" /\ Return(1)
                              ELSE UNCHANGED status /\ Return(0)

\* AT+CGATT=1, AT+CGATT=0: a context does not survive the latter.
Gatt(granted, to) ==
  /\ Idle /\ UNCHANGED <<others, mode, n_of_at>>
  /\ \/ status = "IDLE" /\ Return(-1) /\ UNCHANGED <<status, noise, ip_state>>
     \/ /\ status # "IDLE"
        /\ \E answer \in Answers :
             /\ Command({ip_state}, to, granted, answer)
             /\ IF answer = "good" THEN status' = "READY" /\ Return(1)
                                   ELSE status' = "ERROR" /\ Return(-2)

AttachGPRS == Gatt(net, ip_state)
DettachGPRS == Gatt(TRUE, IF ip_state = "initial" THEN "initial" ELSE "deact")

DisconnectTCP ==
  /\ Idle /\ UNCHANGED <<others, mode, n_of_at>>
  /\ \E answer \in Answers : Command({"connecting", "tcp"}, "ip", TRUE, answer)
  /\ status' = IF status = "TCPCONNECTEDCLIENT" THEN "ATTACHED" ELSE "TCPSERVERWAIT"
  /\ Return(1)

\* AT+CIPSTATUS: any answer but CONNECT OK
ConnectedClient ==
  /\ Idle /\ UNCHANGED <<others, mode, n_of_at>>
  /\ \E answer \in Answers :
       /\ Command({"tcp"}, "tcp", TRUE, answer)
       /\ IF answer # "good" THEN status' = "TCPCONNECTEDSERVER" /\ Return(1)
                             ELSE UNCHANGED status /\ Return(0)

HttpPOST ==
  /\ Idle
  /\ ipc' = "tcp_start"
  /\ UNCHANGED <<vars, n_of_at, iret, ip_state>>

\* connectTCP returned 0: once more, or give up.
Again ==
  \/ n_of_at + 1 < MaxAttempts /\ n_of_at' = n_of_at + 1 /\ ipc' = "tcp_start" /\ UNCHANGED iret
  \/ n_of_at + 1 >= MaxAttempts /\ n_of_at' = 0 /\ Return(0)

\* AT+CIPSTART, and CONNECT OK if it comes together with the OK
TcpStarts ==
  /\ Step("tcp_start") /\ UNCHANGED status
  /\ \E answer \in Answers, to \in {"connecting", "tcp"} :
       /\ Command({"ip"}, to, TRUE, answer)
       /\ IF answer = "good"
          THEN ipc' = (IF to = "tcp" THEN "tcp_send" ELSE "tcp_wait") /\ UNCHANGED <<n_of_at, iret>>
          ELSE Again

\* CONNECT OK, CONNECT FAIL, or nothing within 15 seconds
TcpWaits ==
  /\ Step("tcp_wait") /\ UNCHANGED <<status, ip_state, noise>>
  /\ \/ ip_state = "tcp" /\ ipc' = "tcp_send" /\ UNCHANGED <<n_of_at, iret>>
     \/ ip_state # "tcp" /\ Again

\* Mutant: the prompt is not waited for.
TcpSendsBlindly ==
  /\ ipc = "tcp_send" /\ n_of_at' = 0 /\ UNCHANGED <<others, status, iret>>
  /\ \E answer \in Answers :
       /\ Command({"tcp"}, "tcp", TRUE, answer)
       /\ mode' = IF answer = "good" THEN "data" ELSE mode
       /\ ipc' = "post_write"

\* AT+CIPSEND and its prompt, which may be lost
TcpSends ==
  /\ ipc = "tcp_send" /\ UNCHANGED <<others, status>>
  /\ \E answer \in Answers :
       /\ Command({"tcp"}, "tcp", TRUE, answer)
       /\ mode' \in (IF answer = "good" THEN {"data"}
                     ELSE IF Talking /\ ip_state = "tcp" THEN {mode, "data"} ELSE {mode})
       /\ IF answer = "good" THEN ipc' = "post_write" /\ n_of_at' = 0 /\ UNCHANGED iret ELSE Again

\* The text with its end character, SEND OK, and what read makes of the rest
PostWrites ==
  /\ ipc = "post_write" /\ UNCHANGED <<others, status, noise, n_of_at, ip_state>>
  /\ mode' = "command"
  /\ \E result \in {0, 1} : Return(result)

InetStep ==
  \/ CfgAsks \/ CfgCloses \/ CfgShuts \/ CfgSetsApn \/ CfgBringsUp \/ CfgChecks
  \/ TcpStarts \/ TcpWaits \/ TcpSends \/ PostWrites

InetCall ==
  ConfigureGPRS \/ AttachGPRS \/ DettachGPRS \/ DisconnectTCP \/ ConnectedClient \/ HttpPOST

InetNext == StartUp \/ InetCall \/ InetStep \/ NetworkActs \/ PeerActs

InetSpec == InetInit /\ [][InetNext]_inet_vars

\* A call that was begun goes on; nobody has to call anything.
InetFairSpec ==
  InetSpec /\ WF_inet_vars(StartUp /\ Begin) /\ WF_inet_vars(InetStep)

----------------------------------------------------------------------------
(* Properties.                                                             *)

InetTypeOK ==
  /\ TypeOK
  /\ ipc \in {"idle", "cfg_ip", "cfg_close", "cfg_shut", "cfg_apn", "cfg_up", "cfg_check",
              "tcp_start", "tcp_wait", "tcp_send", "post_write"}
  /\ n_of_at \in 0..MaxAttempts - 1 /\ iret \in -2..1
  /\ ip_state \in {"initial", "apn", "up", "ip", "connecting", "tcp", "deact"}
  /\ ipc # "idle" => pc = "idle"

\* httpPOST writes its text only to a modem that takes it for data of an open
\* connection, unless server or network ended that meanwhile: otherwise the
\* text would be read as commands.
PostMeetsPrompt == ipc = "post_write" => mode = "data" \/ ip_state # "tcp"

\* While no exchange fails, a configureGPRS that reports success leaves a modem
\* with an address and without a connection of an earlier call, unless the
\* network is lost in the middle of it.
ConfiguredIsClean ==
  [][(ipc \in {"cfg_close", "cfg_check"} /\ iret' = 1 /\ ipc' = "idle" /\ noise' = 0 /\ Talking)
      => ip_state' \in {"ip", "deact"}]_inet_vars

\* While the status is ATTACHED no function takes the address away without
\* changing the status, except one: the first CheckRegistration that finds the
\* network, whose InitParam ends with AT+CIPSHUT.
AddressKept ==
  [][(status = "ATTACHED" /\ status' = "ATTACHED" /\ HasIp /\ ~HasIp')
      => net' # net \/ pc = "check_sms"]_inet_vars

\* A program that keeps calling configureGPRS gets an address once the modem
\* listens and the network is there, whatever state earlier calls, losses of
\* the network and lost answers left the modem in.
AddressComes ==
  (<>[](Talking /\ net) /\ []<><<ConfigureGPRS>>_inet_vars) => []<>HasIp
=============================================================================
