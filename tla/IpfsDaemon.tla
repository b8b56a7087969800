----------------------------- MODULE IpfsDaemon -----------------------------
(***************************************************************************)
(* ensure_daemon and find_or_download_kubo of src/ipfs.rs, which           *)
(* client_main runs before every connection: use the daemon that answers,  *)
(* else start a local one, with a kubo that is fetched if there is none.   *)
(* Every failure is only logged.  The daemon is a process of its own, that *)
(* outlives the miner and may die under it; the archive is a temporary     *)
(* file and left out.                                                      *)
(***************************************************************************)

VARIABLES
  kubo,    \* the binary next to the miner: "absent", "partial" or "whole"
  daemon,  \* the daemon answers
  ipfs     \* where ensure_daemon is: "none", "check", "fetch", "unpack", "start"

ipfsVars == <<kubo, daemon, ipfs>>

IpfsTypeOK ==
  /\ kubo \in {"absent", "partial", "whole"} /\ daemon \in BOOLEAN
  /\ ipfs \in {"none", "check", "fetch", "unpack", "start"}

\* Whether a remote daemon answers makes no difference here.
IpfsInit(local, inPath) ==
  /\ kubo \in IF local /\ ~inPath THEN {"absent", "whole"} ELSE {"absent"}
  /\ daemon \in IF local THEN BOOLEAN ELSE {FALSE}
  /\ ipfs = "none"

To(place) == ipfs' = place

\* ensure_daemon returns, whatever became of the daemon.
GiveUpIpfs == To("none") /\ UNCHANGED <<kubo, daemon>>

\* A remote daemon is nobody's to start.  Of the binary only the existence is looked at.
CheckDaemon(local, inPath) ==
  /\ ipfs = "check"
  /\ IF daemon \/ ~local THEN GiveUpIpfs
     ELSE /\ To(IF inPath \/ kubo # "absent" THEN "start" ELSE "fetch")
          /\ UNCHANGED <<kubo, daemon>>

\* The archive is there, and the binary begins to be unpacked from it.
FetchKubo ==
  /\ ipfs = "fetch"
  /\ kubo' = "partial" /\ To("unpack")
  /\ UNCHANGED daemon

UnpackEnds ==
  /\ ipfs = "unpack"
  /\ kubo' = "whole" /\ To("start")
  /\ UNCHANGED daemon

\* No network, an archive that ends early, a full disk.
KuboFails == ipfs \in {"fetch", "unpack"} /\ GiveUpIpfs

\* spawn() fails on a binary that is not whole.
StartDaemon(inPath) ==
  /\ ipfs = "start"
  /\ daemon' = (inPath \/ kubo = "whole") /\ To("none")
  /\ UNCHANGED kubo

DaemonDies(local) == local /\ daemon /\ daemon' = FALSE /\ UNCHANGED <<kubo, ipfs>>

IpfsStep(local, inPath) ==
  \/ CheckDaemon(local, inPath) \/ FetchKubo \/ UnpackEnds \/ KuboFails
  \/ StartDaemon(inPath)
=============================================================================
