---------------------------- MODULE RemoteContents ----------------------------
(***************************************************************************)
(* What a caller of repack/Remote.h may rely on, whatever the network      *)
(* does: a call is answered with an error, after which the install gives   *)
(* up, or with the very bytes or names it asked for.  A file fetched whole *)
(* is the exception: HttpClient::get compares nothing with Content-Length, *)
(* so the answer may be any beginning of it.                               *)
(***************************************************************************)
EXTENDS Integers, Sequences

CONSTANTS Size,     \* bytes of the file, as the repository listed it
          Pending, Failed

VARIABLES call,     \* the call being made
          answer,   \* what it was answered
          served,   \* bytes the server has, which may be fewer
          names     \* of the files in the repository

vars == <<call, answer, served, names>>

(* The byte at an offset is that offset, so that a byte tells where it is from. *)
Bytes(offset, length) == [i \in 1 .. length |-> offset + i - 1]

Calls == [name : {"open", "list", "fetch"}, offset : {0}, length : {0}]
         \cup [name : {"read"}, offset : 0 .. Size, length : 0 .. Size]

Contents(c) ==
    CASE c.name = "open"  -> {<<>>}
      [] c.name = "list"  -> {names}
      [] c.name = "fetch" -> {Bytes(0, length) : length \in 0 .. served}
      [] OTHER            -> {Bytes(c.offset, c.length)}

Init ==
    /\ call = [name |-> "open", offset |-> 0, length |-> 0]
    /\ answer = Pending
    /\ served \in 0 .. Size

Ask ==
    /\ answer \notin {Pending, Failed}
    /\ call' \in Calls
    /\ answer' = Pending
    /\ UNCHANGED <<served, names>>

Answer ==
    /\ answer = Pending
    /\ answer' \in Contents(call) \cup {Failed}
    /\ UNCHANGED <<call, served, names>>

Next == Ask \/ Answer

Spec == Init /\ [][Next]_vars /\ WF_vars(Answer)
=============================================================================
