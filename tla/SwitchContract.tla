--------------------------- MODULE SwitchContract ---------------------------
(***************************************************************************)
(* What switching promises whatever actuator carries it out (the contract   *)
(* SwitchActuator states, src/src/dmf_cms/switch_source.py): a receiver is  *)
(* switched by one command at a time, a command is taken up once and        *)
(* decided once.  A restart of the console forgets commands under way and   *)
(* decided alike, and takes none of them up again.                          *)
(***************************************************************************)
CONSTANTS Receiver, \* viewers
          Command   \* the switch commands there may be

VARIABLES
  switching, \* per receiver, the commands under way
  verdict    \* per command: none yet, active, failed, or forgotten

ContractInit == /\ switching = [r \in Receiver |-> {}]
                /\ verdict = [c \in Command |-> "none"]

UnderWay(c) == \E r \in Receiver : c \in switching[r]

Take(r, c) ==
  /\ switching[r] = {}
  /\ verdict[c] = "none" /\ ~UnderWay(c)
  /\ switching' = [switching EXCEPT ![r] = {c}]
  /\ UNCHANGED verdict

Decide(r, c, v) ==
  /\ switching[r] = {c}
  /\ switching' = [switching EXCEPT ![r] = {}]
  /\ verdict' = [verdict EXCEPT ![c] = v]

Forget ==
  /\ switching' = [r \in Receiver |-> {}]
  /\ verdict' = [c \in Command |->
                   IF UnderWay(c) \/ verdict[c] # "none" THEN "forgotten"
                   ELSE "none"]

ContractNext ==
  \/ \E r \in Receiver, c \in Command :
       Take(r, c) \/ (\E v \in {"active", "failed"} : Decide(r, c, v))
  \/ Forget

ContractSpec == ContractInit /\ [][ContractNext]_<<switching, verdict>>
=============================================================================
