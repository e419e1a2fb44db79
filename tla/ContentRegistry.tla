--------------------------- MODULE ContentRegistry ---------------------------
(***************************************************************************)
(* What duplicate detection promises, whatever statements it is made of: a *)
(* content has one version at a time that is worked on, beside such as were *)
(* retired and came back; every further upload of it is entered as a copy  *)
(* of one of these; and an entry never changes but by being retired, or    *)
(* restored by work that was under way when it was.                        *)
(***************************************************************************)

CONSTANTS
    Versions,      \* ids of versions
    Hashes,        \* contents
    None           \* no version

VARIABLE entries   \* what is on record of the versions known so far

Known == DOMAIN entries

Enter(v, e) ==
    entries' = [u \in Known \cup {v} |-> IF u = v THEN e ELSE entries[u]]

RegistryInit == Known = {}

(* find_version_by_hash found nothing, though what was retired then may be  *)
(* restored by now: the version is the content's own.                      *)
Adopt(v, c) ==
    /\ v \notin Known
    /\ \A u \in Known :
          entries[u].content = c /\ entries[u].copyOf = None
             => entries[u].retired \/ entries[u].restored
    /\ Enter(v, [content |-> c, copyOf |-> None, retired |-> FALSE, restored |-> FALSE])

(* It found u, which may have been retired by the time it is pointed at. *)
Copy(v, u) ==
    /\ v \notin Known
    /\ u \in Known
    /\ entries[u].copyOf = None
    /\ Enter(v, [content |-> entries[u].content, copyOf |-> u, retired |-> FALSE,
                 restored |-> FALSE])

(* purge_version_artifacts. *)
Retire(v) ==
    /\ v \in Known
    /\ Enter(v, [content |-> entries[v].content, copyOf |-> entries[v].copyOf,
                 retired |-> TRUE, restored |-> entries[v].restored])

(* A status is written over the tombstone's.  No copy is ever worked on. *)
Restore(v) ==
    /\ v \in Known
    /\ entries[v].copyOf = None
    /\ entries[v].retired
    /\ Enter(v, [content |-> entries[v].content, copyOf |-> None,
                 retired |-> FALSE, restored |-> TRUE])

RegistryNext ==
    \E v \in Versions :
       \/ \E c \in Hashes : Adopt(v, c)
       \/ \E u \in Versions : Copy(v, u)
       \/ Retire(v) \/ Restore(v)

RegistrySpec == RegistryInit /\ [][RegistryNext]_entries

=============================================================================
