---------------------------- MODULE OptionTables ----------------------------
\* How the tables of options are written.

\* Tables are joined as TLC's @@ joins functions; that one has no definition that a
\* proof could expand.
f ++ g == [x \in DOMAIN f \cup DOMAIN g |-> IF x \in DOMAIN f THEN f[x] ELSE g[x]]

\* Most properties are made of one option, and a required option has no alternative.
Single(lines) == [key \in DOMAIN lines |-> {lines[key]}]
All(options) == {{o} : o \in options}

OptionTable(offers, requires, lines) ==
    [offers |-> offers, requires |-> requires, lines |-> lines,
     given |-> {}, calls |-> {}, turn |-> <<>>]

\* A table whose lines, or some of them, are maps of named entries: a program chooses
\* the names in some of the options that it gives a constructor, and when it calls
\* some of the methods of the object.  Options write their entries in turn, and an
\* entry replaces one of the same name.
Merging(table, given, calls, turn) ==
    [table EXCEPT !.given = given, !.calls = calls, !.turn = turn]
=============================================================================
