------------------------------ MODULE ReadDir ------------------------------
(***************************************************************************)
(* Listing a directory in several replies: the directory handle of         *)
(* sqlfuse.c (opendir, readdir, releasedir) and the cursor of sqlfs.c      *)
(* (sqlfs_dir_open, _next, _close), while other requests add and remove    *)
(* entries between two calls. Entry names are numbers, in the order of     *)
(* ORDER BY entry_name; ".." is stored as "" and comes first.              *)
(***************************************************************************)
EXTENDS Integers, Sequences, SequencesExt

CONSTANTS
    MaxName,        \* the regular names are 1..MaxName
    Capacities,     \* how many entries the buffer of one call may hold
    ReadErrors      \* may a step of the cursor fail?

ASSUME MaxNameAssumption == MaxName \in Nat
ASSUME CapacitiesAssumption == Capacities \subseteq Nat \ {0}
ASSUME ReadErrorsAssumption == ReadErrors \in BOOLEAN

Names == 1..MaxName
Dot == -1
DotDot == 0
NoName == -2        \* next_name == NULL

VARIABLES
    present,    \* the rows of the directory; none when it was removed
    handle,     \* dir_handle: next_name and at_end
    status,     \* of the reader: closed, open, done, refused, aborted
    reply,      \* the names in the last reply
    before,     \* the names in the replies before that one
    stable,     \* the rows present ever since opendir
    cut         \* did a read error end the listing?

vars == <<present, handle, status, reply, before, stable, cut>>

Fresh == [next |-> NoName, atEnd |-> FALSE]

Init ==
    /\ present = {DotDot}
    /\ handle = Fresh
    /\ status = "closed"
    /\ reply = <<>>
    /\ before = {} /\ stable = {}
    /\ cut = FALSE

-----------------------------------------------------------------------------
(* Other requests *)

Add(n) ==
    /\ DotDot \in present /\ n \notin present
    /\ present' = present \cup {n}
    /\ UNCHANGED <<handle, status, reply, before, stable, cut>>

Delete(n) ==
    /\ n \in present
    /\ present' = present \ {n}
    /\ stable' = stable \ {n}
    /\ UNCHANGED <<handle, status, reply, before, cut>>

RemoveDir ==
    /\ present = {DotDot}
    /\ present' = {}
    /\ stable' = {}
    /\ UNCHANGED <<handle, status, reply, before, cut>>

-----------------------------------------------------------------------------
(* The handlers *)

Opendir ==
    /\ status = "closed"
    /\ status' = "open"
    /\ handle' = Fresh
    /\ reply' = <<>>
    /\ before' = {}
    /\ stable' = present
    /\ cut' = FALSE
    /\ UNCHANGED present

\* ORDER BY entry_name: the k-th name is the one with k names up to it.
Rank(S, n) == Cardinality({x \in S : x <= n})
Ordered(S) == [k \in 1..Cardinality(S) |-> CHOOSE n \in S : Rank(S, n) = k]

\* Variant: the cursor starts behind the saved name.
CursorRows_After(next) == Ordered({n \in present : n > next})

\* The rows sqlfs_dir_next() yields after sqlfs_dir_open(next): with no name, or
\* "..", all of them; otherwise those from the name on.
CursorRows(next) == Ordered({n \in present : n >= next})

\* Variant: the last name that did fit is saved.
NextName_LastSent(found, room) ==
    IF Len(found) > room /\ room > 0 THEN found[room] ELSE NoName

\* The name saved for the next call: the first that does not fit.
NextName(found, room) ==
    IF Len(found) > room THEN found[room + 1] ELSE NoName

Prefix(s, k) == SubSeq(s, 1, IF k < Len(s) THEN k ELSE Len(s))

\* Variants: the end is missed when the last name just fits; it is reported
\* although one name did not fit.
ReachedEnd_NotWhenFull(found, room) == Len(found) < room
ReachedEnd_OneEarly(found, room) == Len(found) <= room + 1

ReachedEnd(found, room) == Len(found) <= room

\* One call of sqlfuse_readdir with a buffer for cap entries. A failing cursor
\* looks like its end. CHECK(pos > 0) aborts the daemon.
Readdir(cap) ==
    /\ status = "open" /\ ~handle.atEnd
    /\ LET all == CursorRows(handle.next)
           atBeginning == handle.next = NoName
           room == IF atBeginning THEN cap - 1 ELSE cap
       IN \E k \in (IF ReadErrors THEN 0..Len(all) ELSE {Len(all)}) :
            LET found == Prefix(all, k)
                names == (IF atBeginning THEN <<Dot>> ELSE <<>>)
                            \o Prefix(found, room)
            IN  /\ handle' = [next |-> NextName(found, room),
                              atEnd |-> ReachedEnd(found, room)]
                /\ cut' = (cut \/ (k < Len(all) /\ k <= room))
                /\ \/ /\ atBeginning /\ found = <<>>
                      /\ status' = "refused"        \* ENOTDIR
                      /\ UNCHANGED <<reply, before>>
                   \/ /\ ~atBeginning /\ names = <<>>
                      /\ status' = "aborted"
                      /\ UNCHANGED <<reply, before>>
                   \/ /\ (atBeginning => found # <<>>) /\ names # <<>>
                      /\ reply' = names
                      /\ before' = before \cup ToSet(reply)
                      /\ UNCHANGED status
    /\ UNCHANGED <<present, stable>>

\* The call after the last entry: an empty reply.
ReaddirEnd ==
    /\ status = "open" /\ handle.atEnd
    /\ status' = "done"
    /\ UNCHANGED <<present, handle, reply, before, stable, cut>>

\* Also what is left of the handle when the daemon has aborted.
Releasedir ==
    /\ status # "closed"
    /\ status' = "closed"
    /\ handle' = Fresh
    /\ reply' = <<>>
    /\ before' = {} /\ stable' = {}
    /\ cut' = FALSE
    /\ UNCHANGED present

ReadOn == ReaddirEnd \/ \E cap \in Capacities : Readdir(cap)

Next ==
    \/ \E n \in Names : Add(n) \/ Delete(n)
    \/ RemoveDir
    \/ Opendir
    \/ ReadOn
    \/ Releasedir

\* A reader calls readdir until it gets an empty reply, or closes the handle.
Spec == Init /\ [][Next]_vars /\ WF_vars(ReadOn)

-----------------------------------------------------------------------------
(* Properties *)

\* The three states of a handle that the comment on dir_handle lists.
TypeOK ==
    /\ present \subseteq Names \cup {DotDot}
    /\ handle \in [next : Names \cup {DotDot, NoName}, atEnd : BOOLEAN]
    /\ handle.atEnd => handle.next = NoName
    /\ status \in {"closed", "open", "done", "refused", "aborted"}
    /\ ToSet(reply) \cup before \subseteq Names \cup {Dot, DotDot}
    /\ stable \subseteq present
    /\ cut \in BOOLEAN

\* No name is listed twice through one handle, whatever the buffer sizes, even
\* if it is removed and made again between two calls.
NoEntryTwice ==
    /\ ToSet(reply) \cap before = {}
    /\ \A j, k \in 1..Len(reply) : j < k => reply[j] < reply[k]

\* What was there all along is in the listing once the end is reported, also
\* when the saved name or its neighbours were removed between two calls.
StableEntriesListed ==
    status = "done" /\ ~cut => stable \subseteq ToSet(reply) \cup before

\* A reader that keeps calling comes to an end.
ListingEnds == (status = "open") ~> (status # "open")

\* "The only reason why we wouldn't have filled in any entries here, is if the
\* buffer size was too small to fit the next entry" (above the CHECK in
\* sqlfuse_readdir): with buffers that are large enough it does not fail.
ReaddirNeverAborts == status # "aborted"
=============================================================================
