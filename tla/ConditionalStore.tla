--------------------------- MODULE ConditionalStore ---------------------------
(***************************************************************************)
(* What etags promise the devices of a user: a file is created when there  *)
(* is none, replaced only by a device that was told the version it         *)
(* replaces, and deleted at any time.  A version names the device that     *)
(* wrote it.                                                               *)
(***************************************************************************)
CONSTANTS
    Devices, Files, Versions,
    Absent  \* there is no file

VARIABLES
    file,  \* the version of each file
    known  \* the versions of each file a device was told of

Init ==
    /\ file = [f \in Files |-> Absent]
    /\ known = [d \in Devices |-> [f \in Files |-> {}]]

\* A device reads a file, or is told its write succeeded.
Learn(d, f) ==
    /\ \E v \in Versions : known' = [known EXCEPT ![d][f] = @ \cup {v}]
    /\ UNCHANGED file

Write(d, f) ==
    /\ file[f] = Absent \/ file[f] \in known[d][f]
    /\ \E v \in {w \in Versions : w.by = d} : file' = [file EXCEPT ![f] = v]
    /\ UNCHANGED known

Delete(f) ==
    /\ file' = [file EXCEPT ![f] = Absent]
    /\ UNCHANGED known

Next == \E f \in Files : Delete(f) \/ \E d \in Devices : Learn(d, f) \/ Write(d, f)

Spec == Init /\ [][Next]_<<file, known>>
=============================================================================
