------------------------------ MODULE MCRemoteFile ------------------------------
(* An instance of RemoteFile. *)
EXTENDS RemoteFile

Entry(type, path) == [type |-> type, path |-> path]

(* A repository with a directory, an entry of no type and one of no path, and one *)
(* that lists no file at all.                                                     *)
MCEntries ==
    { <<Entry("directory", "d"), Entry("file", "a"), Entry("absent", "b"),
        Entry("file", "absent")>>,
      <<Entry("directory", "d")>> }
=============================================================================
