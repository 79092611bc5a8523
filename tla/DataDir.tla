-------------------------------- MODULE DataDir --------------------------------
(***************************************************************************)
(* config.rs: validate_data_dir, by which every command that needs /data   *)
(* proves that it can write there: it creates .write-probe.<pid> and       *)
(* removes it. The directory is there, and writable for everyone. A        *)
(* container has a volume of its processes' files but its own process      *)
(* numbers, and its process may be killed and started again in it.         *)
(***************************************************************************)
EXTENDS Naturals

CONSTANTS
  Container,
  Pid,          \* the process number of each container's process
  MaxStarts     \* bound on how often each is started

VARIABLES
  doing,     \* "down", "probe", "remove", "up" or "refused"
  starts,
  probes     \* the process numbers that a probe file is named after

dirVars == <<doing, starts, probes>>

Does(c, from, to) == doing[c] = from /\ doing' = [doing EXCEPT ![c] = to]

StartProcess(c) ==
  /\ starts[c] < MaxStarts
  /\ Does(c, "down", "probe")
  /\ starts' = [starts EXCEPT ![c] = @ + 1]
  /\ UNCHANGED probes

\* open with create_new, which fails on a name that exists.
CreateProbe(c) ==
  /\ Pid[c] \notin probes
  /\ Does(c, "probe", "remove")
  /\ probes' = probes \cup {Pid[c]}
  /\ UNCHANGED starts

ProbeExists(c) ==
  /\ Pid[c] \in probes
  /\ Does(c, "probe", "refused")
  /\ UNCHANGED <<starts, probes>>

RemoveProbe(c) ==
  /\ Does(c, "remove", "up")
  /\ probes' = probes \ {Pid[c]}
  /\ UNCHANGED starts

\* A signal during the boot ends `serve` at once, a refusal by itself.
ProcessEnds(c) ==
  /\ doing[c] # "down"
  /\ doing' = [doing EXCEPT ![c] = "down"]
  /\ UNCHANGED <<starts, probes>>

DirInit ==
  /\ doing = [c \in Container |-> "down"] /\ starts = [c \in Container |-> 0]
  /\ probes = {}

DirNext ==
  \E c \in Container :
    StartProcess(c) \/ CreateProbe(c) \/ ProbeExists(c) \/ RemoveProbe(c) \/ ProcessEnds(c)

DirSpec == DirInit /\ [][DirNext]_dirVars

--------------------------------------------------------------------------------
(***************************************************************************)
(* A refusal says that the directory "is not writable by this process".    *)
(* Here it always is. The property fails: a process that ended between the *)
(* two calls leaves its probe, and the next one of the same number, as     *)
(* every start of a container is, is refused for good; and so is the one   *)
(* of a second container whose probe meets the first one's.                *)
(***************************************************************************)
RefusedCannotWrite == \A c \in Container : doing[c] # "refused"
================================================================================
