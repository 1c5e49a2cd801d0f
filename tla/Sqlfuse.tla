------------------------------ MODULE Sqlfuse ------------------------------
(***************************************************************************)
(* The daemon of sqlfuse.c over the tables of Sqlfs: one FUSE request at a *)
(* time (fuse_session_loop), the lookup counts in an intmap, and the purge *)
(* of unlinked inodes once the kernel has forgotten them. The kernel is    *)
(* external: it holds references to inodes, sends requests for the inodes  *)
(* it holds, and forgets them when it likes. The process may die at any    *)
(* point, which loses the counts and keeps the tables.                     *)
(***************************************************************************)
EXTENDS Sqlfs

CONSTANT MaxLookups     \* bound on the references the kernel takes to an inode

ASSUME MaxLookupsAssumption == MaxLookups \in Nat \ {0}

VARIABLES
    pc,          \* what the daemon is doing, between two transactions
    cur,         \* the inode that step is about
    lookups,     \* the intmap: inode number -> lookup count, no zeros
    held,        \* kernel: references it holds to each inode
    pending,     \* kernel: references given up by FORGETs not yet served
    purgeFailed  \* the inodes whose purge failed, as logged in this session

fuseVars == <<pc, cur, lookups, held, pending, purgeFailed>>
allVars == <<vars, fuseVars>>
dbVars == vars

NoCounts == [i \in Ino |-> 0]

\* The daemon runs and is connected to the kernel.
Mounted == pc \in {"idle", "reply", "purge"}

-----------------------------------------------------------------------------
(* intmap.c *)

Get(m, i) == IF i \in DOMAIN m THEN m[i] ELSE 0

\* Variant: zero counts stay in the map.
Update_KeepZero(m, i, add) ==
    [j \in DOMAIN m \cup {i} |-> IF j = i THEN Get(m, i) + add ELSE m[j]]

\* intmap_update(): an entry that becomes zero is deleted.
Update(m, i, add) ==
    LET v == Get(m, i) + add
    IN  IF add = 0 THEN m
        ELSE [j \in (DOMAIN m \ {i}) \cup (IF v # 0 THEN {i} ELSE {}) |->
                IF j = i THEN v ELSE m[j]]

-----------------------------------------------------------------------------
(* Lookup accounting *)

\* Variants of Forget: it purges while one reference is left; it never purges; it
\* keeps the count of what it cannot purge.
Forget_Early(i, n) ==
    /\ lookups' = Update(lookups, i, -n)
    /\ \/ Get(lookups', i) > 1 /\ UNCHANGED <<dbVars, purgeFailed>>
       \/ Get(lookups', i) <= 1 /\ Purge(i) /\ UNCHANGED purgeFailed
Forget_Never(i, n) ==
    /\ lookups' = Update(lookups, i, -n)
    /\ UNCHANGED <<dbVars, purgeFailed>>
Forget_KeepOnError(i, n) ==
    /\ Purge(i)
    /\ lookups' = IF res'.err = "OK" THEN Update(lookups, i, -n) ELSE lookups
    /\ UNCHANGED purgeFailed

\* forget(): n references fewer; at zero the inode is purged if it is unlinked.
Forget(i, n) ==
    /\ lookups' = Update(lookups, i, -n)
    /\ \/ /\ Get(lookups', i) > 0
          /\ UNCHANGED <<dbVars, purgeFailed>>
       \/ /\ Get(lookups', i) <= 0
          /\ Purge(i)
          /\ purgeFailed' = IF res'.err = "OK" THEN purgeFailed
                                               ELSE purgeFailed \cup {i}

\* Variant: the reference is counted before the reply is known to arrive.
ReplyEntry_CountUndelivered ==
    /\ pc = "reply"
    /\ lookups' = Update(lookups, cur, 1)
    /\ \E k \in {0, 1} : held' = [held EXCEPT ![cur] = @ + k]
    /\ pc' = "idle" /\ cur' = NoIno
    /\ UNCHANGED <<dbVars, pending, purgeFailed>>

\* reply_entry(): the reply may not reach the kernel (an interrupted request),
\* and then counts on neither side.
ReplyEntry ==
    /\ pc = "reply"
    /\ \/ /\ lookups' = Update(lookups, cur, 1)
          /\ held' = [held EXCEPT ![cur] = @ + 1]
       \/ UNCHANGED <<lookups, held>>
    /\ pc' = "idle"
    /\ cur' = NoIno
    /\ UNCHANGED <<dbVars, pending, purgeFailed>>

\* maybe_purge() after an entry was removed
MaybePurge ==
    /\ pc = "purge"
    /\ Forget(cur, 0)
    /\ pc' = "idle"
    /\ cur' = NoIno
    /\ UNCHANGED <<held, pending>>

-----------------------------------------------------------------------------
(* Requests. The kernel names directories it holds. *)

\* The call that was made is followed by step next, if it succeeded.
Then(next) ==
    /\ IF res'.err = "OK" /\ res'.ino # NoIno
       THEN pc' = next /\ cur' = res'.ino
       ELSE UNCHANGED <<pc, cur>>
    /\ UNCHANGED <<lookups, held, pending, purgeFailed>>

Request(i) == pc = "idle" /\ held[i] > 0

FuseLookup(p, n) ==
    /\ Request(p)
    /\ \E r \in Joined(p, n) :
         /\ Get(lookups, r.ino) < MaxLookups
         /\ pc' = "reply"
         /\ cur' = r.ino
    /\ UNCHANGED <<dbVars, lookups, held, pending, purgeFailed>>

FuseMknod(p, n) == Request(p) /\ NotRemoved(p) /\ Mknod(p, n) /\ Then("reply")
FuseMkdir(p, n) == Request(p) /\ NotRemoved(p) /\ Mkdir(p, n) /\ Then("reply")
FuseUnlink(p, n) == Request(p) /\ Unlink(p, n) /\ Then("purge")
FuseRmdir(p, n) == Request(p) /\ Rmdir(p, n) /\ Then("purge")

FuseRename(p, n, q, m) ==
    /\ Request(p) /\ Request(q)
    /\ NotRemoved(q)
    /\ MakesNoCycle(p, n, q)
    /\ Rename(p, n, q, m)
    /\ Then("purge")

\* sqlfuse_write and sqlfuse_setattr
FuseSetSize(i, nonEmpty) ==
    /\ Request(i)
    /\ SetSize(i, nonEmpty)
    /\ UNCHANGED fuseVars

\* The kernel evicts inode i, and queues a FORGET for all it holds.
KernelForget(i) ==
    /\ Mounted
    /\ i # Root /\ held[i] > 0
    /\ pending' = [pending EXCEPT ![i] = @ + held[i]]
    /\ held' = [held EXCEPT ![i] = 0]
    /\ UNCHANGED <<dbVars, pc, cur, lookups, purgeFailed>>

\* sqlfuse_forget: a FORGET may carry part of what the kernel gave up.
FuseForget(i) ==
    /\ pc = "idle"
    /\ \E n \in 1..pending[i] :
         /\ pending' = [pending EXCEPT ![i] = @ - n]
         /\ Forget(i, n)
    /\ UNCHANGED <<pc, cur, held>>

-----------------------------------------------------------------------------
(* The life of the process *)

\* Variant: the file system is served without purging what a crash left over.
Mount_NoPurge ==
    /\ pc \in {"down", "stopped"}
    /\ pc' = "idle"
    /\ lookups' = [i \in {Root} |-> 1]
    /\ held' = [NoCounts EXCEPT ![Root] = 1]
    /\ purgeFailed' = {}
    /\ UNCHANGED <<dbVars, cur, pending>>

\* sqlfuse_main() up to sqlfuse_init(): a failing purge fails the mount.
Mount ==
    /\ pc \in {"down", "stopped"}
    /\ PurgeAll
    /\ IF res'.err = "OK"
       THEN /\ pc' = "idle"
            /\ lookups' = [i \in {Root} |-> 1]
            /\ held' = [NoCounts EXCEPT ![Root] = 1]
            /\ purgeFailed' = {}
       ELSE UNCHANGED <<pc, lookups, held, purgeFailed>>
    /\ UNCHANGED <<cur, pending>>

\* The kernel lets go of everything; FORGETs still queued are not served.
Unmount ==
    /\ pc = "idle"
    /\ pc' = "destroy"
    /\ held' = NoCounts
    /\ pending' = NoCounts
    /\ UNCHANGED <<dbVars, cur, lookups, purgeFailed>>

\* sqlfuse_destroy(): one turn of the loop over the intmap, and its end.
DestroyOne ==
    /\ pc = "destroy"
    /\ \E i \in DOMAIN lookups : Forget(i, lookups[i])
    /\ UNCHANGED <<pc, cur, held, pending>>

DestroyDone ==
    /\ pc = "destroy"
    /\ DOMAIN lookups = {}
    /\ pc' = "stopped"
    /\ UNCHANGED <<dbVars, cur, lookups, held, pending, purgeFailed>>

\* The process dies. SQLite keeps what was committed.
Crash ==
    /\ pc \notin {"down", "stopped"}
    /\ pc' = "down"
    /\ cur' = NoIno
    /\ lookups' = [i \in {} |-> 0]
    /\ held' = NoCounts
    /\ pending' = NoCounts
    /\ purgeFailed' = {}
    /\ UNCHANGED dbVars

FuseInit ==
    /\ Init
    /\ pc = "stopped"
    /\ cur = NoIno
    /\ lookups = [i \in {} |-> 0]
    /\ held = NoCounts
    /\ pending = NoCounts
    /\ purgeFailed = {}

Serve ==
    \/ \E p \in Ino, n \in Names : FuseLookup(p, n)
    \/ \E p \in Ino, n \in Names : FuseMknod(p, n)
    \/ \E p \in Ino, n \in Names : FuseMkdir(p, n)
    \/ \E p \in Ino, n \in Names : FuseUnlink(p, n)
    \/ \E p \in Ino, n \in Names : FuseRmdir(p, n)
    \/ \E p, q \in Ino, n, m \in Names : FuseRename(p, n, q, m)
    \/ \E i \in Ino, b \in BOOLEAN : FuseSetSize(i, b)
    \/ \E i \in Ino : FuseForget(i)

FuseNext ==
    \/ Serve
    \/ ReplyEntry
    \/ MaybePurge
    \/ \E i \in Ino : KernelForget(i)
    \/ Mount
    \/ Unmount
    \/ DestroyOne
    \/ DestroyDone
    \/ Crash

\* The daemon's own steps are taken, and the kernel's queue of FORGETs is served
\* however many other requests there are. Nothing makes the kernel forget, mount
\* or unmount.
FuseFairness ==
    /\ WF_allVars(ReplyEntry)
    /\ WF_allVars(MaybePurge)
    /\ WF_allVars(DestroyOne)
    /\ WF_allVars(DestroyDone)
    /\ \A i \in Ino : SF_allVars(FuseForget(i))

FuseSpec == FuseInit /\ [][FuseNext]_allVars
FuseLiveSpec == FuseSpec /\ FuseFairness

-----------------------------------------------------------------------------
(* Properties *)

FuseTypeOK ==
    /\ pc \in {"down", "stopped", "idle", "reply", "purge", "destroy"}
    /\ cur \in Ino \cup {NoIno}
    /\ DOMAIN lookups \subseteq Ino
    /\ \A i \in DOMAIN lookups : lookups[i] \in Nat \ {0}
    /\ held \in [Ino -> Nat]
    /\ pending \in [Ino -> Nat]
    /\ purgeFailed \subseteq Ino

\* The daemon counts the references the kernel holds and those whose FORGET is
\* on its way, whatever replies were interrupted: never more (the inode would
\* not be purged before the next mount), never fewer (it would be purged while
\* in use, and destroy would abort on a negative count).
LookupBalance ==
    Mounted => \A i \in Ino : Get(lookups, i) = held[i] + pending[i]

\* An inode the kernel holds is in the metadata table, unlinked or not: an open
\* file survives its unlink, and its number is not given to a new file.
HeldInodesExist == \A i \in Ino : held[i] + pending[i] > 0 => i \in DOMAIN meta

\* Between requests, an unlinked inode is one the kernel still refers to or one
\* whose purge failed; after a clean unmount only the latter are left. What a
\* crash leaves behind is gone once the file system is mounted again.
UnlinkedIsAccountedFor ==
    /\ pc = "idle" => Unlinked \subseteq DOMAIN lookups \cup purgeFailed
    /\ pc = "stopped" => Unlinked \subseteq purgeFailed

\* An unlinked inode whose last reference the kernel gave up is purged, unless
\* the purge fails or the session ends first.
ForgottenIsPurged ==
    \A i \in Ino :
        (Mounted /\ i \in Unlinked /\ held[i] = 0)
            ~> (~Mounted \/ i \notin Unlinked \/ i \in purgeFailed)

\* sqlfuse_destroy ends, although its loop ignores purges that fail.
UnmountEnds == (pc = "destroy") ~> (pc \in {"stopped", "down"})
=============================================================================
