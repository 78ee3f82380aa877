----------------------------- MODULE PhyTables -----------------------------
(***************************************************************************)
(* The tables of rtw8812a_table.c and how they are read: those of register *)
(* values have blocks of which one branch is for this board                *)
(* (rtw_parse_tbl_phy_cond); those of powers name by the address of a      *)
(* register the four rates that a word of powers is for                    *)
(* (rtw_parse_tbl_bb_pg).                                                  *)
(***************************************************************************)
EXTENDS Integers, Sequences, SequencesExt

----------------------------------------------------------------------------
(* The board: rtw_phy_setup_phy_cond.  ext are the external amplifiers of  *)
(* the efuse, type their kinds.                                            *)
AMPLIFIERS == {"lna_2g", "pa_2g", "lna_5g", "pa_5g"}

SetupPhyCond(board) ==
  [intf |-> board.intf, type |-> board.type,
   rfe |-> board.ext \cup (IF board.btcoex THEN {"btcoex"} ELSE {})]

(* A condition; the tables of this chip name neither cut nor package.      *)
Cond(rfe, intf, type) == [rfe |-> rfe, intf |-> intf, type |-> type]

CheckPositive(cond, drv) ==
  /\ cond.intf \in {"any", drv.intf}
  /\ \/ cond.rfe \cap AMPLIFIERS = {}
     \/ /\ cond.rfe \subseteq drv.rfe
        /\ \A a \in cond.rfe \cap AMPLIFIERS : cond.type[a] = drv.type[a]

(* rtw_parse_tbl_phy_cond.  A condition stands before the tile "then",     *)
(* where it is looked at; "else" and "endif" stand alone.                  *)
Tile(kind, arg) == [kind |-> kind, arg |-> arg]

(* Mutant: a branch after the one that was taken is looked at, too.        *)
NextAlways(s, tile, drv) ==
  CASE tile.kind = "endif" -> [s EXCEPT !.matched = TRUE, !.skipped = FALSE]
    [] tile.kind = "else" -> [s EXCEPT !.matched = ~s.skipped]
    [] tile.kind \in {"if", "elif"} -> [s EXCEPT !.cond = <<tile.arg>>]
    [] tile.kind = "then" -> LET yes == CheckPositive(s.cond[1], drv)
                             IN  [s EXCEPT !.matched = yes, !.skipped = yes]
    [] tile.kind = "cfg" -> IF s.matched THEN [s EXCEPT !.written = Append(@, tile.arg)] ELSE s

NextTile(s, tile, drv) ==
  CASE tile.kind = "endif" -> [s EXCEPT !.matched = TRUE, !.skipped = FALSE]
    [] tile.kind = "else" -> [s EXCEPT !.matched = ~s.skipped]
    [] tile.kind \in {"if", "elif"} -> [s EXCEPT !.cond = <<tile.arg>>]
    [] tile.kind = "then" /\ s.skipped -> [s EXCEPT !.matched = FALSE]
    [] tile.kind = "then" /\ ~s.skipped ->
         LET yes == CheckPositive(s.cond[1], drv)
         IN  [s EXCEPT !.matched = yes, !.skipped = yes]
    [] tile.kind = "cfg" -> IF s.matched THEN [s EXCEPT !.written = Append(@, tile.arg)] ELSE s

Parse(tiles, drv) ==
  FoldLeft(LAMBDA s, tile : NextTile(s, tile, drv),
           [matched |-> TRUE, skipped |-> FALSE, cond |-> <<>>, written |-> <<>>],
           tiles).written

----------------------------------------------------------------------------
(* Powers by rate.  DESC_RATE_*, as <<section, number in it>>.             *)
Ascending(section, first, n) == [i \in 1..n |-> <<section, first + i - 1>>]

(* rtw_phy_get_rate_values_of_txpwr_by_rate, by the last byte of the       *)
(* address: the registers of all paths have the same rates.                *)
LegacyRates(low) ==
  CASE low = 32 -> Ascending("CCK", 0, 4)
    [] low = 36 -> Ascending("OFDM", 0, 4)
    [] low = 40 -> Ascending("OFDM", 4, 4)

HtRates(low) ==
  CASE low = 44 -> Ascending("HT_1S", 0, 4)
    [] low = 48 -> Ascending("HT_1S", 4, 4)
    [] low = 52 -> Ascending("HT_2S", 0, 4)
    [] low = 56 -> Ascending("HT_2S", 4, 4)

VhtRates(low) ==
  CASE low = 60 -> Ascending("VHT_1S", 0, 4)
    [] low = 64 -> Ascending("VHT_1S", 4, 4)
    [] low = 68 -> Ascending("VHT_1S", 8, 2) \o Ascending("VHT_2S", 0, 2)
    [] low = 72 -> Ascending("VHT_2S", 2, 4)
    [] low = 76 -> Ascending("VHT_2S", 6, 4)

RatesAt(low) ==
  IF low <= 40 THEN LegacyRates(low) ELSE IF low <= 56 THEN HtRates(low) ELSE VhtRates(low)

(* rtw8812a_bb_pg and rtw8812a_bb_pg_rfe3: for each address the powers of  *)
(* its rates in dBm times two, of byte 0 first, which is the lowest rate.  *)
(* What the tables say of path A (0xc20 on) they say of path B, too.       *)
BbPg(band) ==
  << <<36, <<44, 44, 42, 42>> >>,
     <<40, IF band = "2G" THEN <<38, 36, 32, 30>> ELSE <<40, 36, 32, 30>> >>,
     <<44, <<44, 44, 42, 40>> >>, <<48, <<36, 32, 30, 28>> >>,
     <<52, <<42, 42, 40, 38>> >>, <<56, <<34, 30, 28, 26>> >>,
     <<60, <<44, 44, 42, 40>> >>, <<64, <<36, 32, 30, 28>> >>,
     <<68, <<26, 24, 42, 42>> >>, <<72, <<40, 38, 34, 30>> >>, <<76, <<28, 26, 24, 22>> >> >>
  \o IF band = "2G" THEN << <<32, <<40, 38, 36, 34>> >> >> ELSE <<>>

BbPgRfe3(band) ==
  LET flat == <<32, 32, 32, 32>>
      falling == IF band = "2G" THEN <<32, 32, 30, 28>> ELSE <<30, 28, 26, 24>>
  IN  << <<36, flat>>, <<40, <<32, 32, 30, 28>> >>, <<44, flat>>, <<48, falling>>, <<52, flat>>,
         <<56, IF band = "2G" THEN <<32, 30, 28, 26>> ELSE <<30, 28, 26, 24>> >>,
         <<60, flat>>, <<64, falling>>,
         <<68, IF band = "2G" THEN <<26, 24, 32, 32>> ELSE <<22, 22, 32, 32>> >>,
         <<72, IF band = "2G" THEN flat ELSE <<32, 32, 30, 28>> >>,
         <<76, IF band = "2G" THEN <<30, 28, 26, 24>> ELSE <<26, 24, 22, 22>> >> >>
      \o IF band = "2G" THEN << <<32, <<34, 34, 34, 34>> >> >> ELSE <<>>

(* rtw_parse_tbl_bb_pg: the words that say something of a rate             *)
Entries(tbl) ==
  {<<RatesAt(tbl[k][1])[i], tbl[k][2][i]>> : k \in DOMAIN tbl, i \in 1..4}

ByRate(tbl, rate) == CHOOSE p \in 0..63 : <<rate, p>> \in Entries(tbl)

(* The blocks of the tables, all but their values: by an external amplifier *)
(* and its kind (5 is the one the other kinds are not), or by the bus.      *)
Block(branches, otherwise) == [branches |-> branches, otherwise |-> otherwise]

With(amplifier, kind) ==
  [cond |-> Cond({amplifier}, "any", [a \in AMPLIFIERS |-> IF a = amplifier THEN kind ELSE 0]),
   value |-> <<amplifier, kind>>]
OnUsb == [cond |-> Cond({}, "usb", [a \in AMPLIFIERS |-> 0]), value |-> "usb"]

MacBlocks == {Block(<<OnUsb>>, "else")}
AgcBlocks == {Block(<<With("lna_2g", 0), With("lna_2g", 5)>>, "else"),
              Block(<<With("lna_5g", 0)>>, "else")}
BbBlocks == {Block(<<With("pa_5g", 0), With("pa_5g", 5), With("pa_2g", 0), With("lna_5g", 0),
                     With("lna_2g", 0), With("lna_2g", 5)>>, "else")}
RfBlocks == {Block(<<With("pa_2g", 0)>>, "else"), Block(<<With("pa_5g", 0), With("pa_5g", 5)>>, "else"),
             Block(<<With("pa_5g", 0), With("pa_5g", 5), With("pa_2g", 0)>>, "else")}
ChipBlocks == MacBlocks \cup AgcBlocks \cup BbBlocks \cup RfBlocks

----------------------------------------------------------------------------
(* A table as it is meant: values for every board, and blocks, of which    *)
(* the first branch whose condition the board fulfils counts, else the     *)
(* branch without one.  (phy.c:1196)                                       *)
Tiles(block) ==
  LET Branch(k) == <<Tile(IF k = 1 THEN "if" ELSE "elif", block.branches[k].cond),
                     Tile("then", ""), Tile("cfg", block.branches[k].value)>>
      rest == <<Tile("else", ""), Tile("cfg", block.otherwise), Tile("endif", "")>>
  IN  FlattenSeq([k \in DOMAIN block.branches |-> Branch(k)]) \o rest

Meant(block, drv) ==
  LET holds == {k \in DOMAIN block.branches : CheckPositive(block.branches[k].cond, drv)}
  IN  IF holds = {} THEN block.otherwise
      ELSE block.branches[CHOOSE k \in holds : \A j \in holds : k <= j].value

(* Reading two blocks with values around them writes for every board what  *)
(* is meant for it, in order, whatever the first block left behind.        *)
TablesRead(blocks, boards) ==
  \A one \in blocks, two \in blocks, board \in boards :
    LET drv == SetupPhyCond(board)
        plain == <<Tile("cfg", "plain")>>
    IN  Parse(plain \o Tiles(one) \o Tiles(two) \o plain, drv) =
          <<"plain", Meant(one, drv), Meant(two, drv), "plain">>

(* Every rate that the chip sends with in a band is given its power, by    *)
(* one word only, and within a section a faster rate is never sent         *)
(* stronger (phy.c:1256).                                                  *)
Sections(band) ==
  [s \in (IF band = "2G" THEN {"CCK"} ELSE {}) \cup {"OFDM", "HT_1S", "HT_2S", "VHT_1S", "VHT_2S"} |->
     CASE s = "CCK" -> 4 [] s \in {"VHT_1S", "VHT_2S"} -> 10 [] OTHER -> 8]

PowersComplete(tbl, band) ==
  LET rates == UNION {{<<s, n>> : n \in 0..Sections(band)[s] - 1} : s \in DOMAIN Sections(band)}
      entries == Entries(tbl)
  IN  /\ {e[1] : e \in entries} = rates
      /\ \A e, f \in entries :
           e[1][1] = f[1][1] =>
             /\ e[1] = f[1] => e = f
             /\ e[1][2] < f[1][2] => e[2] >= f[2]

============================================================================
