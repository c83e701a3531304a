------------------------------- MODULE MCStartup -------------------------------
EXTENDS Startup

AreaOf(file, start, size, fill) == [file |-> file, start |-> start, size |-> size, fill |-> fill]
Plain(a) == [load |-> a, run |-> a, bss |-> FALSE, overwrite |-> FALSE,
             align |-> 0, alignLoad |-> 0, at |-> "next", addr |-> 0]
Bss(a)   == [Plain(a) EXCEPT !.bss = TRUE]
Sect(s, size, align) == [seg |-> s, size |-> size, align |-> align]

\* The memory areas of the cartridge configs: the zero page, header and
\* directory, and main; the ones of a fixed size have main filled, and a filler.
Cart(fill, startup, data, bss, once) ==
    [areas |-> <<AreaOf(0, 0, 2, FALSE), AreaOf(1, 0, 1, FALSE), AreaOf(1, 2, 9, fill)>>
               \o (IF fill THEN <<AreaOf(1, 0, 2, TRUE)>> ELSE <<>>),
     segs  |-> <<Bss(1), Plain(2), Plain(3), Plain(3), Bss(3), Plain(3)>>,
     sections |-> <<Sect(1, 1, 1), Sect(2, 1, 1), Sect(3, startup, 1), Sect(4, data, 1), Sect(6, 0, 1),
                    Sect(4, 1, 2), Sect(5, bss, 1), Sect(6, once, 1)>>,
     boot |-> [main |-> 3, bss |-> 5, once |-> 6, inPlace |-> fill, offs |-> 1]]

Carts == {Cart(fill, startup, data, bss, once) :
            fill \in BOOLEAN, startup \in 1 .. 2, data \in 0 .. 1, bss \in 0 .. 3, once \in 0 .. 4}

(* Other config files: two areas and two segments with every combination of *)
(* attributes that matters, between segments that have none.                *)
Desc(load, run, bss, overwrite, align, alignLoad, at, fixed) ==
    [load |-> load, run |-> run, bss |-> bss, overwrite |-> overwrite,
     align |-> align, alignLoad |-> alignLoad, at |-> at, addr |-> fixed]

Placements == {<<0, "next", 0>>, <<2, "next", 0>>, <<0, "offset", 4>>, <<0, "start", 7>>}
Descs == {Desc(2, 2, bss, FALSE, p[1], 0, p[2], p[3]) : bss \in BOOLEAN, p \in Placements}
   \cup {Desc(load, 5 - load, FALSE, FALSE, p[1], al, p[2], p[3]) :
            load \in {2, 3}, al \in {0, 2}, p \in Placements}
   \cup {Desc(2, 2, FALSE, TRUE, 0, 0, at[1], at[2]) :
            at \in {<<"offset", 1>>, <<"start", 5>>, <<"start", 0>>, <<"next", 0>>}}
   \cup {Desc(2, 3, FALSE, TRUE, 0, 0, "offset", 1), Desc(0, 0, FALSE, FALSE, 0, 0, "next", 0)}

Linked(fill, file, d, e, align) ==
    [areas |-> <<AreaOf(1, 0, 1, FALSE), AreaOf(1, 1, 9, fill), AreaOf(file, 2, 4, FALSE), AreaOf(1, 0, 2, FALSE)>>,
     segs  |-> <<Plain(1), Plain(2), d, e, Plain(4)>>,
     sections |-> <<Sect(1, 1, 1), Sect(2, 1, 1), Sect(3, 1, align), Sect(4, 1, 1), Sect(3, 1, 2),
                    Sect(5, 1, 1), Sect(3, 1, align)>>,
     boot |-> [main |-> 0, bss |-> 0, once |-> 0, inPlace |-> FALSE, offs |-> 0]]

Others == {Linked(fill, file, d, e, 1) : fill \in BOOLEAN, file \in {0, 1}, d, e \in Descs}
     \cup {Linked(FALSE, 1, d, Plain(2), align) : d \in Descs, align \in {2, 3, 5}}

MCConfigs == Carts \cup Others

(* A filled area in which a segment runs that is loaded elsewhere.          *)
FillConfigs == {Linked(TRUE, 1, Desc(3, 2, FALSE, FALSE, 0, 0, "next", 0), Plain(2), 1)}
================================================================================
