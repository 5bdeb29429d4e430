----------------------------- MODULE MCGameText -----------------------------
(***************************************************************************)
(* Two regions, one imported game and payloads of every shape: values,     *)
(* moves and deletions of regions, alone or in lists, direct values, dumps *)
(* and new games.                                                          *)
(***************************************************************************)
EXTENDS GameText

CONSTANTS usa, japan, g1, g2, g3, n1, n2, n3, x1, h1, d1, d2

MCRegionOrder == <<usa, japan>>
MCNames == {n1, n2, n3}
MCCatalogue ==
    [g \in Games |->
       IF g = g1 THEN [name |-> n1, year |-> 1990, column |-> None,
                       regions |-> [r \in Regions |-> IF r = usa THEN [name |-> n1, year |-> 1990]
                                                                ELSE [name |-> n3, year |-> None]]]
       ELSE None]

Blank ==
    [kind |-> "edit", game |-> g1, regions |-> <<>>, region |-> None, region_from |-> None,
     name |-> None, year |-> None, delete |-> None, column |-> None, roms |-> <<>>]
New == [Blank EXCEPT !.kind = "new_game", !.game = None]
Rom(action, id, hash) == [action |-> action, id |-> id, sha1 |-> hash]

MCPayloads == {
    [Blank EXCEPT !.regions = <<[Entry(japan) EXCEPT !.name = n2, !.name_from = usa],
                                [Entry(usa) EXCEPT !.name = n3, !.delete_name = TRUE, !.year = 1991]>>,
                  !.region = japan, !.delete = "name"],
    [Blank EXCEPT !.regions = <<[Entry(usa) EXCEPT !.delete_name = TRUE, !.delete_release = TRUE],
                                [Entry(japan) EXCEPT !.year = 1991, !.release_from = usa, !.name_from = japan]>>,
                  !.roms = <<Rom("add", None, h1)>>],
    [Blank EXCEPT !.region = usa, !.delete = "name"],
    [Blank EXCEPT !.region = japan, !.region_from = usa, !.year = 1991, !.column = x1],
    [Blank EXCEPT !.region = usa, !.name = n2],
    [Blank EXCEPT !.name = n2, !.year = 1991],
    [Blank EXCEPT !.roms = <<Rom("edit", d1, h1), Rom("add", None, None), Rom("delete", d2, None)>>],
    [New EXCEPT !.name = n2, !.region = japan, !.year = 1991],
    [New EXCEPT !.name = n3, !.regions = <<[Entry(japan) EXCEPT !.name = n3], [Entry(usa) EXCEPT !.name = n2]>>]}
=============================================================================
