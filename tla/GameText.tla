------------------------------ MODULE GameText ------------------------------
(***************************************************************************)
(* The text of a game and the contributions that change it.  Names and     *)
(* release years are kept per region; the game's own name and year, which  *)
(* every list shows and the unique constraint is on, repeat those of the   *)
(* first region that has any.                                              *)
(*                                                                         *)
(* An approval runs one SQL statement after the other and no transaction:  *)
(* it may stop after any of them, leave the contribution pending and be    *)
(* tried again from the start.                                             *)
(*                                                                         *)
(* One system; all fields that are single columns (description, genre,     *)
(* rating...) are one; release months go with the years and are left out.  *)
(* Media, history and points are in MetadataReview.                        *)
(***************************************************************************)
EXTENDS Naturals, Sequences, FiniteSets, SequencesExt

CONSTANTS
    None,
    Games,
    Catalogue,    \* the games an import made: text, or None
    RegionOrder,  \* the catalog of regions, the first one first
    Names, Years, Texts, Hashes,
    Dumps,        \* ids of ROM dumps
    Subs,         \* contributions
    Payloads,     \* bound: what contributors send
    Procs         \* approvals at a time

Regions == {RegionOrder[i] : i \in DOMAIN RegionOrder}

RegionRows == [name : Names \cup {None}, year : Years \cup {None}]
GameRows == [name : Names, year : Years \cup {None}, column : Texts \cup {None},
             regions : [Regions -> RegionRows \cup {None}]]

\* One entry of the list of regions in a payload: values to set, regions to
\* move them from, values to delete.
Entries == [region : Regions, name : Names \cup {None}, year : Years \cup {None},
            name_from : Regions \cup {None}, release_from : Regions \cup {None},
            delete_name : BOOLEAN, delete_release : BOOLEAN]

Entry(r) ==
    [region |-> r, name |-> None, year |-> None, name_from |-> None, release_from |-> None,
     delete_name |-> FALSE, delete_release |-> FALSE]

RomChange == [action : {"add", "edit", "delete"}, id : Dumps \cup {None}, sha1 : Hashes \cup {None}]

\* Next to the list a payload may name one region for its name and year.
PayloadShapes ==
    [kind : {"edit", "new_game"}, game : Games \cup {None}, regions : Seq(Entries),
     region : Regions \cup {None}, region_from : Regions \cup {None},
     name : Names \cup {None}, year : Years \cup {None},
     delete : {None, "name", "release"}, column : Texts \cup {None}, roms : Seq(RomChange)]

ASSUME GameTextAssumption ==
    /\ None \notin Games \cup Subs \cup Regions \cup Names \cup Years \cup Texts \cup Hashes \cup Dumps
    /\ None \notin RegionRows \cup GameRows
                      \cup {"pending", "approved", "rejected", "name", "release"}
    /\ RegionOrder \in Seq(Regions)
    /\ Catalogue \in [Games -> GameRows \cup {None}]
    /\ \A p \in Payloads :
          /\ p \in PayloadShapes
          /\ p.kind = "edit" => p.game # None
          /\ p.kind = "new_game" => p.game = None /\ p.name # None

VARIABLES
    text,      \* games with their game_regions, None where there is no game
    roms,      \* rows of roms
    status,    \* of contributions, None before they are made
    payload,   \* what they ask for
    target,    \* the game they are about, None for one that is not there yet
    req,       \* approvals: contribution and game, statements left, what was read
    started,   \* history: contributions that an approval began to apply
    clean      \* history: no two approvals overlapped

vars == <<text, roms, status, payload, target, req, started, clean>>

Ops == {"insert", "attach", "upsert", "clear", "drop", "refresh", "save",
        "name", "year", "column", "rom", "approve"}

Idle == [sub |-> None, game |-> None, todo |-> <<>>, primary |-> None, before |-> None]

TypeOK ==
    /\ text \in [Games -> GameRows \cup {None}]
    /\ \A x \in roms : x \in [id : Dumps, game : Games, sha1 : Hashes \cup {None}]
    /\ \A x, y \in roms : x.id = y.id \/ (x.game = y.game /\ x.sha1 = y.sha1 /\ x.sha1 # None) => x = y
    /\ status \in [Subs -> {None, "pending", "approved", "rejected"}]
    /\ payload \in [Subs -> Payloads \cup {None}]
    /\ target \in [Subs -> Games \cup {None}]
    /\ \A p \in Procs :
          /\ req[p].sub \in Subs \cup {None} /\ req[p].game \in Games \cup {None}
          /\ \A i \in DOMAIN req[p].todo : req[p].todo[i].op \in Ops
          /\ req[p].primary \in RegionRows \cup {None}
          /\ req[p].before \in GameRows \cup {None}
    /\ started \subseteq Subs
    /\ clean \in BOOLEAN

Init ==
    /\ text = Catalogue
    /\ roms = {}
    /\ status = [s \in Subs |-> None]
    /\ payload = [s \in Subs |-> None]
    /\ target = [s \in Subs |-> None]
    /\ req = [p \in Procs |-> Idle]
    /\ started = {}
    /\ clean = TRUE

AllIdle == \A p \in Procs : req[p] = Idle

NameTaken(n, g) == \E h \in Games \ {g} : text[h] # None /\ text[h].name = n

-----------------------------------------------------------------------------
\* The value of a field in the first region that has one, in the order of the
\* catalog, and the game's own name and year following them.
RegionValue(t, r, f) == IF t.regions[r] = None THEN None ELSE t.regions[r][f]

First(t, f) ==
    LET having == {i \in DOMAIN RegionOrder : RegionValue(t, RegionOrder[i], f) # None}
    IN IF having = {} THEN None ELSE RegionValue(t, RegionOrder[Min(having)], f)

FollowsRegions(t) == First(t, "name") \in {None, t.name} /\ First(t, "year") \in {None, t.year}

\* The migration that made regions gave a game at most one, with its own name and
\* release; the importer, which is not in the repository, is taken to do no less.
ASSUME CatalogueAssumption == \A g \in Games : Catalogue[g] # None => FollowsRegions(Catalogue[g])

-----------------------------------------------------------------------------
(***************************************************************************)
(* From a payload to the statements of an approval.                        *)
(***************************************************************************)

When(c, s) == IF c THEN s ELSE <<>>
Op(o) == <<[op |-> o]>>

\* ClearGameRegion: an update, then the row goes if nothing is left in it.
Clear(r, f) == <<[op |-> "clear", region |-> r, field |-> f], [op |-> "drop", region |-> r]>>

Upsert(e) == When(e.name # None \/ e.year # None, <<[op |-> "upsert", entry |-> e]>>)

EntryOpsUpsertFirst(e) ==
    Upsert(e)
    \o When(e.delete_name, Clear(e.region, "name"))
    \o When(e.delete_release, Clear(e.region, "year"))
    \o When(e.name_from \notin {None, e.region}, Clear(e.name_from, "name"))
    \o When(e.release_from \notin {None, e.region}, Clear(e.release_from, "year"))

\* Deletes first, then moves, then the values.
EntryOps(e) ==
    When(e.delete_name, Clear(e.region, "name"))
    \o When(e.delete_release, Clear(e.region, "year"))
    \o When(e.name_from \notin {None, e.region}, Clear(e.name_from, "name"))
    \o When(e.release_from \notin {None, e.region}, Clear(e.release_from, "year"))
    \o Upsert(e)

EntriesOps(p) ==
    When(p.regions # <<>>,
         FlattenSeq([i \in DOMAIN p.regions |-> EntryOps(p.regions[i])]) \o Op("refresh"))

DeleteOpsUnrefreshed(p) ==
    When(p.delete # None /\ p.region # None,
         EntryOps([Entry(p.region) EXCEPT !.delete_name = p.delete = "name",
                                          !.delete_release = p.delete = "release"]))

DeleteOps(p) ==
    When(p.delete # None /\ p.region # None,
         EntryOps([Entry(p.region) EXCEPT !.delete_name = p.delete = "name",
                                          !.delete_release = p.delete = "release"])
         \o Op("refresh"))

\* A payload with a list of regions has its names and years there.
NameOps(p) ==
    When(p.name # None /\ p.regions = <<>>,
         IF p.region = None THEN <<[op |-> "name", name |-> p.name]>>
         ELSE EntryOps([Entry(p.region) EXCEPT !.name = p.name, !.name_from = p.region_from])
              \o Op("refresh"))

ReleaseOps(p) ==
    When(p.year # None /\ p.regions = <<>>,
         IF p.region = None THEN <<[op |-> "year", year |-> p.year]>>
         ELSE EntryOps([Entry(p.region) EXCEPT !.year = p.year, !.release_from = p.region_from])
              \o Op("refresh"))

ColumnOps(p) == When(p.column # None, <<[op |-> "column", column |-> p.column]>>)
RomOps(p) == [i \in DOMAIN p.roms |-> [op |-> "rom", change |-> p.roms[i]]]

\* CreateGameFromPayload inserts nothing it will not apply again.
CreateOps(p) ==
    LET regions ==
          IF p.regions # <<>>
          THEN [i \in DOMAIN p.regions |-> [op |-> "upsert", entry |-> p.regions[i]]] \o Op("refresh")
          ELSE When(p.region # None,
                 <<[op |-> "upsert", entry |-> [Entry(p.region) EXCEPT !.name = p.name, !.year = p.year]]>>)
    IN Op("insert") \o regions \o Op("attach")

ApplyOps(p) ==
    EntriesOps(p) \o DeleteOps(p) \o NameOps(p) \o ColumnOps(p) \o ReleaseOps(p) \o RomOps(p)

Plan(p) == When(p.kind = "new_game", CreateOps(p)) \o ApplyOps(p) \o Op("approve")

-----------------------------------------------------------------------------
(***************************************************************************)
(* Contributions.                                                          *)
(***************************************************************************)

RomSHA1Exists(g, h, id) == \E x \in roms : x.game = g /\ x.sha1 = h /\ x.id # id

\* A hash may occur once in a payload, and in no other dump of the game.
RomsFit(p) ==
    \A i \in DOMAIN p.roms : LET c == p.roms[i] IN
       c.action # "delete" /\ c.sha1 # None =>
          /\ \A j \in DOMAIN p.roms : p.roms[j].action # "delete" /\ p.roms[j].sha1 = c.sha1 => j = i
          /\ ~RomSHA1Exists(p.game, c.sha1, IF c.action = "edit" THEN c.id ELSE None)

\* Duplicates of what the contributor has pending are in MetadataReview.
CreateMetadataSubmission(s, p) ==
    /\ status[s] = None
    /\ p.kind = "edit" => text[p.game] # None
    /\ p.name # None => ~NameTaken(p.name, p.game)
    /\ RomsFit(p)
    /\ status' = [status EXCEPT ![s] = "pending"]
    /\ payload' = [payload EXCEPT ![s] = p]
    /\ target' = [target EXCEPT ![s] = p.game]
    /\ UNCHANGED <<text, roms, req, started, clean>>

RejectMetadataSubmission(s) ==
    /\ status[s] = "pending"
    /\ \A p \in Procs : req[p].sub # s
    /\ status' = [status EXCEPT ![s] = "rejected"]
    /\ UNCHANGED <<text, roms, payload, target, req, started, clean>>

\* Any name in a payload may become the game's own.
NamesIn(p) == ({p.name} \cup {p.regions[i].name : i \in DOMAIN p.regions}) \ {None}

ensureGameNameAvailable(s) ==
    target[s] # None => \A n \in NamesIn(payload[s]) : ~NameTaken(n, target[s])

\* A new game that an earlier attempt attached has lost its system: it is refused.
ApproveMetadataSubmission(p, s) ==
    LET pl == payload[s] IN
    /\ req[p] = Idle
    /\ status[s] = "pending"
    /\ ensureGameNameAvailable(s)
    /\ pl.kind = "new_game" => target[s] = None
    /\ req' = [req EXCEPT ![p] =
                 [sub |-> s, game |-> target[s], primary |-> None, todo |-> Plan(pl),
                  before |-> IF target[s] = None THEN None ELSE text[target[s]]]]
    /\ started' = started \cup {s}
    /\ clean' = (clean /\ AllIdle)
    /\ UNCHANGED <<text, roms, status, payload, target>>

-----------------------------------------------------------------------------
(***************************************************************************)
(* The statements.                                                         *)
(***************************************************************************)

At(p, o) == req[p].todo # <<>> /\ Head(req[p].todo).op = o
This(p) == Head(req[p].todo)
Done(p) == req' = [req EXCEPT ![p].todo = Tail(@)]
Store(p, t) == text' = [text EXCEPT ![req[p].game] = t]
Rest == <<status, payload, started, clean>>

Or(a, b) == IF a = None THEN b ELSE a

InsertGame(p) ==
    LET pl == payload[req[p].sub]
        new == [name |-> pl.name, year |-> pl.year, column |-> pl.column,
                regions |-> [r \in Regions |-> None]]
    IN
    /\ At(p, "insert") /\ ~NameTaken(pl.name, None)
    /\ \E g \in Games :
          /\ text[g] = None
          /\ text' = [text EXCEPT ![g] = new]
          /\ req' = [req EXCEPT ![p].todo = Tail(@), ![p].game = g, ![p].before = new]
    /\ UNCHANGED <<Rest, roms, target>>

SetMetadataSubmissionGame(p) ==
    /\ At(p, "attach")
    /\ target' = [target EXCEPT ![req[p].sub] = req[p].game]
    /\ Done(p)
    /\ UNCHANGED <<Rest, text, roms>>

\* Only the values that are given overwrite.
UpsertGameRegion(p) ==
    LET t == text[req[p].game]
        e == This(p).entry
        old == IF t.regions[e.region] = None THEN [name |-> None, year |-> None] ELSE t.regions[e.region]
    IN
    /\ At(p, "upsert")
    /\ Store(p, [t EXCEPT !.regions[e.region] =
                    [name |-> Or(e.name, old.name), year |-> Or(e.year, old.year)]])
    /\ Done(p)
    /\ UNCHANGED <<Rest, roms, target>>

ClearGameRegion(p) ==
    LET t == text[req[p].game] r == This(p).region IN
    /\ At(p, "clear")
    /\ Store(p, IF t.regions[r] = None THEN t ELSE [t EXCEPT !.regions[r][This(p).field] = None])
    /\ Done(p)
    /\ UNCHANGED <<Rest, roms, target>>

DropEmptyRegion(p) ==
    LET t == text[req[p].game] r == This(p).region IN
    /\ At(p, "drop")
    /\ Store(p, IF t.regions[r] = [name |-> None, year |-> None] THEN [t EXCEPT !.regions[r] = None] ELSE t)
    /\ Done(p)
    /\ UNCHANGED <<Rest, roms, target>>

\* refreshGamePrimary: one statement reads ...
ListGameRegions(p) ==
    LET t == text[req[p].game] IN
    /\ At(p, "refresh")
    /\ req' = [req EXCEPT ![p].primary = [name |-> First(t, "name"), year |-> First(t, "year")],
                          ![p].todo = Op("save") \o Tail(@)]
    /\ UNCHANGED <<Rest, text, roms, target>>

\* ... and another one writes; what no region has stays.
SaveGamePrimary(p) ==
    LET t == text[req[p].game] found == req[p].primary IN
    /\ At(p, "save") /\ ~NameTaken(Or(found.name, t.name), req[p].game)
    /\ Store(p, [t EXCEPT !.name = Or(found.name, @), !.year = Or(found.year, @)])
    /\ req' = [req EXCEPT ![p].primary = None, ![p].todo = Tail(@)]
    /\ UNCHANGED <<Rest, roms, target>>

SetGameName(p) ==
    /\ At(p, "name") /\ ~NameTaken(This(p).name, req[p].game)
    /\ Store(p, [text[req[p].game] EXCEPT !.name = This(p).name])
    /\ Done(p)
    /\ UNCHANGED <<Rest, roms, target>>

SetGameRelease(p) ==
    /\ At(p, "year")
    /\ Store(p, [text[req[p].game] EXCEPT !.year = This(p).year])
    /\ Done(p)
    /\ UNCHANGED <<Rest, roms, target>>

SetGameColumn(p) ==
    /\ At(p, "column")
    /\ Store(p, [text[req[p].game] EXCEPT !.column = This(p).column])
    /\ Done(p)
    /\ UNCHANGED <<Rest, roms, target>>

RomChangeDone(p, rows) ==
    /\ roms' = rows
    /\ Done(p)
    /\ UNCHANGED <<Rest, text, target>>

\* The unique index on the hashes of a game.
HashFree(g, h, others) == h = None \/ \A x \in others : ~(x.game = g /\ x.sha1 = h)

AddRomUnchecked(p) ==
    LET g == req[p].game c == This(p).change IN
    /\ At(p, "rom") /\ c.action = "add"
    /\ \E i \in Dumps \ {x.id : x \in roms} :
          RomChangeDone(p, roms \cup {[id |-> i, game |-> g, sha1 |-> c.sha1]})

AddRom(p) ==
    LET g == req[p].game c == This(p).change IN
    /\ At(p, "rom") /\ c.action = "add"
    /\ HashFree(g, c.sha1, roms)
    /\ \E i \in Dumps \ {x.id : x \in roms} :
          RomChangeDone(p, roms \cup {[id |-> i, game |-> g, sha1 |-> c.sha1]})

\* Nothing happens to a dump that is gone.
UpdateRom(p) ==
    LET g == req[p].game c == This(p).change
        old == {x \in roms : x.id = c.id /\ x.game = g}
    IN
    /\ At(p, "rom") /\ c.action = "edit"
    /\ old # {} => HashFree(g, c.sha1, roms \ old)
    /\ RomChangeDone(p, (roms \ old) \cup {[x EXCEPT !.sha1 = c.sha1] : x \in old})

DeleteRom(p) ==
    LET c == This(p).change IN
    /\ At(p, "rom") /\ c.action = "delete"
    /\ RomChangeDone(p, {x \in roms : ~(x.id = c.id /\ x.game = req[p].game)})

SetMetadataStatus(p) ==
    /\ At(p, "approve")
    /\ status' = [status EXCEPT ![req[p].sub] = "approved"]
    /\ req' = [req EXCEPT ![p] = Idle]
    /\ UNCHANGED <<text, roms, payload, target, started, clean>>

\* The database fails, or refuses a second game of a name or dump of a hash.
Abort(p) ==
    /\ req[p] # Idle
    /\ req' = [req EXCEPT ![p] = Idle]
    /\ UNCHANGED <<text, roms, status, payload, target, started, clean>>

-----------------------------------------------------------------------------
Statement(p) ==
    \/ InsertGame(p) \/ SetMetadataSubmissionGame(p)
    \/ UpsertGameRegion(p) \/ ClearGameRegion(p) \/ DropEmptyRegion(p)
    \/ ListGameRegions(p) \/ SaveGamePrimary(p)
    \/ SetGameName(p) \/ SetGameRelease(p) \/ SetGameColumn(p)
    \/ AddRom(p) \/ UpdateRom(p) \/ DeleteRom(p)
    \/ SetMetadataStatus(p)

Next ==
    \/ \E s \in Subs : RejectMetadataSubmission(s) \/ \E p \in Payloads : CreateMetadataSubmission(s, p)
    \/ \E p \in Procs : Statement(p) \/ Abort(p) \/ \E s \in Subs : ApproveMetadataSubmission(p, s)

Spec == Init /\ [][Next]_vars

-----------------------------------------------------------------------------
\* Values without a region are for the game alone; the next regional change
\* overrides them.
Direct(p) == p.regions = <<>> /\ p.region = None /\ (p.name # None \/ p.year # None)

\* "The game's canonical name is recomputed by region priority": once every
\* contribution that was begun on a game is approved, after however many
\* attempts, the game shows the name and the year of its first region that has
\* one (refreshGamePrimary, ApplyMetadataSubmission).  Overlapping approvals,
\* and values given without a region, are left out.
CanonicalFollowsRegions ==
    clean /\ AllIdle =>
       \A g \in Games :
          /\ text[g] # None
          /\ \A s \in started : target[s] \in {g, None} =>
                status[s] = "approved" /\ ~Direct(payload[s])
          => FollowsRegions(text[g])

\* What a payload says of the name or the year of each region, entry by entry:
\* its list, then what it deletes and what it sets in the region it names.
Changes(p) ==
    p.regions
    \o When(p.region # None,
            <<[Entry(p.region) EXCEPT !.delete_name = p.delete = "name",
                                      !.delete_release = p.delete = "release"]>>)
    \o When(p.region # None /\ p.regions = <<>>,
            <<[Entry(p.region) EXCEPT !.name = p.name, !.year = p.year,
                                      !.name_from = IF p.name = None THEN None ELSE p.region_from,
                                      !.release_from = IF p.year = None THEN None ELSE p.region_from]>>)

Value(e, f) == IF f = "name" THEN e.name ELSE e.year
From(e, f) == IF f = "name" THEN e.name_from ELSE e.release_from
Deletes(e, f) == IF f = "name" THEN e.delete_name ELSE e.delete_release
Sets(e, r, f) == e.region = r /\ Value(e, f) # None
Touches(e, r, f) ==
    Sets(e, r, f) \/ (From(e, f) = r /\ e.region # r) \/ (e.region = r /\ Deletes(e, f))

\* The last entry about a value decides it; what no entry is about stays.
Expected(before, p, r, f) ==
    LET es == Changes(p)
        about == {i \in DOMAIN es : Touches(es[i], r, f)}
    IN IF about = {} THEN RegionValue(before, r, f)
       ELSE LET e == es[Max(about)] IN IF Sets(e, r, f) THEN Value(e, f) ELSE None

\* An approval that ends has done what its payload says and nothing else,
\* whatever earlier attempts left behind ("a single-field submission never
\* clobbers the other columns", ApplyMetadataSubmission).
AppliedAsWritten ==
    [][clean /\ clean' => \A p \in Procs :
         LET s == req[p].sub g == req[p].game t == text[g] IN
         s # None /\ status'[s] # status[s] =>
            /\ \A r \in Regions, f \in {"name", "year"} :
                  RegionValue(t, r, f) = Expected(req[p].before, payload[s], r, f)
            /\ t.column = Or(payload[s].column, req[p].before.column)
            /\ Direct(payload[s]) => t.name = Or(payload[s].name, req[p].before.name)]_vars
=============================================================================
