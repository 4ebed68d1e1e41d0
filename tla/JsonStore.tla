------------------------------ MODULE JsonStore ------------------------------
(***************************************************************************)
(* storage/engine.py: the state file, the temporary file beside it, and the*)
(* system calls that save_state and load_state make on them, as operators  *)
(* from file system to file system. fd[s] says which of the two names the  *)
(* file that session s has open for writing goes by now.                   *)
(*                                                                         *)
(* The calls of one session take effect in their order: a session may be   *)
(* killed between any two, the machine does not lose what it has written.  *)
(***************************************************************************)
EXTENDS Naturals

NoChannels == [k \in {} |-> {}]

File(kind, channels) == [kind |-> kind, channels |-> channels]

Absent == File("absent", NoChannels)
Empty == File("empty", NoChannels)
Torn == File("torn", NoChannels)
Whole(channels) == File("whole", channels)

Exists(f) == f.kind # "absent"

EmptyStore(sessions) ==
    [file |-> Absent, tmp |-> Absent, fd |-> [s \in sessions |-> "none"]]

(* A mutation: save_state opens the state file itself.                     *)
OpenInPlace(fs, s) == [fs EXCEPT !.file = Empty, !.fd[s] = "file"]

(***************************************************************************)
(* save_state: open(temp_path, "w") truncates the file of that name, which *)
(* another session may be writing; write and close put the text at its     *)
(* start, so over the text of another session a longer tail may remain;    *)
(* replace moves whatever the name stands for by then.                     *)
(***************************************************************************)
OpenTemp(fs, s) == [fs EXCEPT !.tmp = Empty, !.fd[s] = "tmp"]

Target(fs, s) == IF fs.fd[s] = "tmp" THEN fs.tmp ELSE fs.file

Put(fs, s, content) ==
    CASE fs.fd[s] = "tmp" -> [fs EXCEPT !.tmp = content, !.fd[s] = "none"]
      [] fs.fd[s] = "file" -> [fs EXCEPT !.file = content, !.fd[s] = "none"]
      [] OTHER -> [fs EXCEPT !.fd[s] = "none"]

Written(fs, s, channels) ==
    {Put(fs, s, Whole(channels))} \cup
    (IF Target(fs, s) = Empty THEN {} ELSE {Put(fs, s, Torn)})

(* A session that is killed has written nothing, or a part.                *)
Killed(fs, s) ==
    IF fs.fd[s] = "none" THEN {fs}
    ELSE {Put(fs, s, Target(fs, s)), Put(fs, s, Torn)}

Unnamed(fs, s) == IF fs.fd[s] = "file" THEN "gone" ELSE fs.fd[s]

ReplaceFile(fs) ==
    [file |-> fs.tmp, tmp |-> Absent,
     fd |-> [s \in DOMAIN fs.fd |->
                IF fs.fd[s] = "tmp" THEN "file" ELSE Unnamed(fs, s)]]

(***************************************************************************)
(* load_state: a text that does not parse is renamed to a backup, or rather*)
(* whatever the state file is by the time of the rename.                   *)
(***************************************************************************)
Parses(f) == f.kind \in {"absent", "whole"}

Backup(fs) ==
    [fs EXCEPT !.file = Absent, !.fd = [s \in DOMAIN @ |-> Unnamed(fs, s)]]
=============================================================================
