----------------------------- MODULE EmojiStore -----------------------------
(***************************************************************************)
(* The custom emoji of the workspace and their copies on Matrix: emoji.rs  *)
(* and the table emoji_mappings of the three back ends of db/.  Slack      *)
(* reports what happens to an emoji (emoji_changed), the socket loop       *)
(* handles one report at a time, with a download, an upload and a query to *)
(* await.  What a report has to say is up to Slack: the handler stores     *)
(* nothing for an add of an alias or without a value, and can do nothing   *)
(* about a report without a name.  The table has                           *)
(* slack_emoji_id UNIQUE, the handler stores the name there, too, and a    *)
(* rename changes only the other column.  The back ends then part when the *)
(* freed name is used again: SQLite looks for the name and its INSERT is   *)
(* refused, PostgreSQL and MySQL let the conflict on the id overwrite the  *)
(* row of the renamed emoji.                                               *)
(***************************************************************************)
EXTENDS Integers, Sequences, FiniteSets

CONSTANTS
    Names,
    LongNames,      \* names beyond the 64 characters of MySQL's slack_emoji_id
    MaxEvents,      \* bound on what happens to emoji on Slack
    MaxFaults       \* bound on failed awaits and on reports that say too little

BackEnds == {"sqlite", "postgres", "mysql"}
Images == 1..MaxEvents          \* image of the n-th event, and its mxc URL
NoImage == 0
Row == [id : Names, name : Names, mxc : Images]

VARIABLES
    backend,    \* the back end of this deployment
    slack,      \* image of each name on Slack
    count,      \* events on Slack so far
    feed,       \* events on their way to the handler
    step,       \* await of the handler: "idle", "download", "upload", "write", "lookup", "delete"
    job,        \* the event in hand
    found,      \* the row get_emoji_by_name has returned, as a set
    table,      \* emoji_mappings
    faults,     \* awaits that failed, removes and renames that say too little
    lost        \* history: names on Slack without a row: not stored, or lost to a clash of ids

vars == <<backend, slack, count, feed, step, job, found, table, faults, lost>>
-----------------------------------------------------------------------------
\* usable: with the name, the new name of a rename, the URL of an add.
Event == [kind : {"add", "remove", "rename"}, name : Names, to : Names, image : 0..MaxEvents,
          usable : BOOLEAN]
Steps == {"idle", "download", "upload", "write", "lookup", "delete"}

TypeOK ==
    /\ backend \in BackEnds
    /\ slack \in [Names -> 0..MaxEvents]
    /\ count \in 0..MaxEvents
    /\ feed \in Seq(Event)
    /\ step \in Steps
    /\ step # "idle" => job \in Event
    /\ found \subseteq Row
    /\ table \subseteq Row
    /\ faults \in 0..MaxFaults
    /\ lost \subseteq Names

Init ==
    /\ backend \in BackEnds
    /\ slack = [n \in Names |-> NoImage] /\ count = 0 /\ feed = <<>>
    /\ step = "idle" /\ job = <<>> /\ found = {} /\ table = {}
    /\ faults = 0 /\ lost = {}
-----------------------------------------------------------------------------
(* What happens on Slack. *)

Happens(kind, n, to, image, usable) ==
    /\ count < MaxEvents
    /\ count' = count + 1
    /\ feed' = Append(feed, [kind |-> kind, name |-> n, to |-> to, image |-> image,
                             usable |-> usable])
    /\ UNCHANGED <<backend, step, job, found, table, lost>>

\* An alias is added like an image.
Adds(n, usable) ==
    /\ slack[n] = NoImage
    /\ slack' = [slack EXCEPT ![n] = count + 1]
    /\ Happens("add", n, n, count + 1, usable)
    /\ UNCHANGED faults

SaysTooLittle == faults < MaxFaults /\ faults' = faults + 1

Removes(n, usable) ==
    /\ slack[n] # NoImage
    /\ slack' = [slack EXCEPT ![n] = NoImage]
    /\ Happens("remove", n, n, NoImage, usable)
    /\ IF usable THEN UNCHANGED faults ELSE SaysTooLittle

Renames(n, to, usable) ==
    /\ slack[n] # NoImage /\ slack[to] = NoImage
    /\ slack' = [slack EXCEPT ![n] = NoImage, ![to] = slack[n]]
    /\ Happens("rename", n, to, NoImage, usable)
    /\ IF usable THEN UNCHANGED faults ELSE SaysTooLittle
-----------------------------------------------------------------------------
(* The table. *)

WithId(n) == {r \in table : r.id = n}
WithName(n) == {r \in table : r.name = n}

\* The UNIQUE column of the three schemas, and MySQL's VARCHAR(64).
Fits(n) == ~(backend = "mysql" /\ n \in LongNames)

Insert(n, mxc) == table' = table \cup {[id |-> n, name |-> n, mxc |-> mxc]}

\* SQLite: SELECT by name, then UPDATE by name or INSERT.
UpsertSqlite(n, mxc) ==
    \/ /\ WithName(n) # {}
       /\ table' = (table \ WithName(n)) \cup {[r EXCEPT !.mxc = mxc] : r \in WithName(n)}
       /\ lost' = lost \ {n}
    \/ /\ WithName(n) = {} /\ WithId(n) = {}
       /\ Insert(n, mxc) /\ lost' = lost \ {n}
    \/ /\ WithName(n) = {} /\ WithId(n) # {}        \* the INSERT is refused
       /\ lost' = lost \cup {n} /\ UNCHANGED table

\* PostgreSQL: INSERT .. ON CONFLICT (slack_emoji_id) DO UPDATE name and URL.
UpsertPostgres(n, mxc) ==
    /\ table' = (table \ WithId(n)) \cup {[id |-> n, name |-> n, mxc |-> mxc]}
    /\ lost' = (lost \ {n}) \cup {r.name : r \in {w \in WithId(n) : w.name # n}}

\* MySQL: INSERT .. ON DUPLICATE KEY UPDATE, if the id fits its column.
UpsertMysql(n, mxc) ==
    IF Fits(n) THEN UpsertPostgres(n, mxc) ELSE lost' = lost \cup {n} /\ UNCHANGED table

UpsertEmojiMapping(n, mxc) ==
    CASE backend = "sqlite"   -> UpsertSqlite(n, mxc)
      [] backend = "postgres" -> UpsertPostgres(n, mxc)
      [] backend = "mysql"    -> UpsertMysql(n, mxc)

\* rename_emoji: UPDATE the name WHERE emoji_name is the old one.
RenameEmoji(n, to) ==
    /\ table' = (table \ WithName(n)) \cup {[r EXCEPT !.name = to] : r \in WithName(n)}
    /\ lost' = IF n \in lost THEN (lost \ {n}) \cup {to} ELSE lost

\* delete_emoji: DELETE WHERE slack_emoji_id is that of the row found.
DeleteEmoji(ids) == table' = {r \in table : r.id \notin ids}
-----------------------------------------------------------------------------
(* The handler. *)

\* handle_slack_emoji_changed, handle_emoji_change: the subtype selects the way
\* of the event.  One that is not usable ends here: without a name it is
\* ignored (a remove looks for the empty name and finds no row), without a
\* value there is nothing to do, and an alias gets a line in the log.
Take ==
    /\ step = "idle" /\ feed # <<>>
    /\ feed' = Tail(feed)
    /\ LET e == Head(feed) IN
       IF e.usable
       THEN /\ job' = e
            /\ step' = CASE e.kind = "add"    -> "download"
                         [] e.kind = "remove" -> "lookup"
                         [] e.kind = "rename" -> "write"
            /\ UNCHANGED lost
       ELSE /\ lost' = IF e.kind = "add" THEN lost \cup {e.name} ELSE lost
            /\ UNCHANGED <<step, job>>
    /\ UNCHANGED <<backend, slack, count, found, table, faults>>

Finish == step' = "idle" /\ job' = <<>> /\ found' = {}

\* download_from_url has the image.
Downloaded ==
    /\ step = "download" /\ step' = "upload"
    /\ UNCHANGED <<backend, slack, count, feed, job, found, table, faults, lost>>

\* upload_emoji_to_matrix has a content_uri.
Uploaded ==
    /\ step = "upload" /\ step' = "write"
    /\ UNCHANGED <<backend, slack, count, feed, job, found, table, faults, lost>>

\* upsert_emoji_mapping or rename_emoji: an error ends the handler, too.
Write ==
    /\ step = "write"
    /\ IF job.kind = "add" THEN UpsertEmojiMapping(job.name, job.image)
                           ELSE RenameEmoji(job.name, job.to)
    /\ Finish
    /\ UNCHANGED <<backend, slack, count, feed, faults>>

\* delete_emoji_by_name: get_emoji_by_name comes first.
LookedUp ==
    /\ step = "lookup"
    /\ IF WithName(job.name) = {} THEN Finish /\ lost' = lost \ {job.name}
       ELSE /\ \E r \in WithName(job.name) : found' = {r}
            /\ step' = "delete" /\ UNCHANGED <<job, lost>>
    /\ UNCHANGED <<backend, slack, count, feed, table, faults>>

DeletesName ==      \* a fault: the name is passed as the id
    /\ step = "delete"
    /\ DeleteEmoji({job.name})
    /\ Finish
    /\ UNCHANGED <<backend, slack, count, feed, faults, lost>>

Deleted ==
    /\ step = "delete"
    /\ DeleteEmoji({r.id : r \in found})
    /\ Finish
    /\ UNCHANGED <<backend, slack, count, feed, faults, lost>>

\* Any await can fail: the error is logged and the event is gone.
Fails ==
    /\ step # "idle" /\ faults < MaxFaults
    /\ faults' = faults + 1
    /\ Finish
    /\ UNCHANGED <<backend, slack, count, feed, table, lost>>

Next ==
    \/ \E n \in Names, usable \in BOOLEAN :
          \/ Adds(n, usable) \/ Removes(n, usable)
          \/ \E to \in Names : Renames(n, to, usable)
    \/ Take \/ Downloaded \/ Uploaded \/ Write \/ LookedUp \/ Deleted \/ Fails

Spec == Init /\ [][Next]_vars
-----------------------------------------------------------------------------
\* With every event handled, no await failed and every remove and rename
\* reported in full, a name has the image Slack shows for it and nothing else,
\* on each back end, unless the emoji was an alias or came without a value, or
\* a name was used again after a rename: then SQLite has lost the new emoji,
\* PostgreSQL and MySQL the renamed one (and MySQL every name that is too long
\* for it).  Those names have no row, however often they are renamed since.
EmojiFollowsSlack ==
    step = "idle" /\ feed = <<>> /\ faults = 0 => \A n \in Names :
        {r.mxc : r \in WithName(n)} =
            IF slack[n] = NoImage \/ n \in lost THEN {} ELSE {slack[n]}
=============================================================================
