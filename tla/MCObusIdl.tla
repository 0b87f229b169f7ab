----------------------------- MODULE MCObusIdl -----------------------------
EXTENDS ObusIdl

CONSTANTS pa, pb, mx, ev, ew, a1, a2, bz

P(n, u) == [name |-> n, uid |-> u, type |-> <<"uint8">>]
T(n, u, t) == [name |-> n, uid |-> u, type |-> t]
M(n, u, args) == [name |-> n, uid |-> u, args |-> args]
U(p, m) == [property |-> p, method |-> m]
E(n, u, ups) == [name |-> n, uid |-> u, updates |-> ups]
L(n, v) == [name |-> n, value |-> v]
N(n, ls, d) == [name |-> n, labels |-> ls, default |-> d]

(* Properties: valid, a zero uid, a repeated uid, a repeated name. *)
MCProps == {<<>>, <<P(pa, 1)>>, <<P(pa, 1), P(pb, 2)>>, <<P(pa, 0)>>,
            <<P(pa, 1), P(pb, 1)>>, <<P(pa, 1), P(pa, 2)>>}

(* One method: valid, its uid on a property's, arguments repeating a    *)
(* uid or a name, an argument of uid 0.                                  *)
MCMethods == {<<>>, <<M(mx, 3, <<>>)>>, <<M(mx, 1, <<>>)>>,
              <<M(mx, 3, <<P(a1, 1), P(a2, 2)>>)>>, <<M(mx, 3, <<P(a1, 1), P(a2, 1)>>)>>,
              <<M(mx, 3, <<P(a1, 1), P(a1, 2)>>)>>, <<M(mx, 3, <<P(a1, 0)>>)>>}

(* Events and their updates: a property, a method, a name the object   *)
(* lacks, both, neither, the same update twice; a zero and a repeated   *)
(* event uid.                                                             *)
MCEvents == {<<>>, <<E(ev, 1, <<>>)>>, <<E(ev, 1, <<U(pa, None)>>)>>,
             <<E(ev, 1, <<U(None, mx)>>)>>, <<E(ev, 1, <<U(pb, None), U(None, mx)>>)>>,
             <<E(ev, 1, <<U(pa, mx)>>)>>, <<E(ev, 1, <<U(None, None)>>)>>,
             <<E(ev, 1, <<U(pa, None), U(pa, None)>>)>>, <<E(ev, 0, <<>>)>>,
             <<E(ev, 1, <<>>), E(ew, 1, <<>>)>>}

MCObject(ns, ps, ms, es) ==
    [name |-> ev, uid |-> 1, enums |-> ns, props |-> ps, methods |-> ms, events |-> es]

(* Bus events: none, one of uid 10, one below the reserved range. *)
MCBusEvents == {<<>>, <<P(bz, 10)>>, <<P(bz, 5)>>}

(* Types: scalars, a handle, arrays, an enum and an array of it, an enum  *)
(* the object lacks, a trailing part, a bare "array" or "enum", an unknown *)
(* name, and "enum:" before a base type name.                             *)
MCTypes == {<<"uint8">>, <<"handle">>, <<"array", "string">>, <<"enum", "color">>,
            <<"array", "enum", "color">>, <<"enum", "shade">>, <<"uint8", "junk">>,
            <<"array", "uint8", "junk">>, <<"enum", "color", "junk">>, <<"array">>,
            <<"enum">>, <<"junk">>, <<"enum", "uint8">>}

Color == N("color", <<L("red", 0), L("blue", 1)>>, "red")

(* Enums: none; valid; a repeated label; no label; a default that is no  *)
(* label; two enums of one name; two labels of one value; one named      *)
(* after a base type.                                                     *)
MCEnumsCommon ==
    {<<>>, <<Color>>, <<N("color", <<L("red", 0), L("red", 1)>>, "red")>>,
     <<N("color", <<>>, "red")>>, <<N("color", <<L("blue", 1)>>, "red")>>,
     <<Color, N("color", <<L("red", 2)>>, "red")>>,
     <<N("color", <<L("red", 0), L("blue", 0)>>, "red")>>}

MCEnumBaseNamed == <<N("uint8", <<L("red", 0)>>, "red")>>

(* Descriptions over uids and names, and over types and enums. *)
UidIdls ==
    {[objects |-> <<MCObject(<<>>, ps, ms, es)>>, events |-> bes] :
        ps \in MCProps, ms \in MCMethods, es \in MCEvents, bes \in MCBusEvents}
    \cup {[objects |-> <<MCObject(<<>>, <<P(pa, 1)>>, <<>>, <<>>), MCObject(<<>>, <<>>, <<>>, <<>>)>>,
           events |-> <<>>]}

TypeIdls(enums) ==
    {[objects |-> <<MCObject(ns, <<T(pa, 1, t)>>, <<>>, <<>>)>>, events |-> <<>>] :
        ns \in enums, t \in MCTypes}
    \cup {[objects |-> <<MCObject(ns, <<>>, <<M(mx, 3, <<T(a1, 1, t)>>)>>, <<>>)>>, events |-> <<>>] :
        ns \in enums, t \in MCTypes}

(* No enum is named after a base type. *)
MCIdls == UidIdls \cup TypeIdls(MCEnumsCommon)

MCIdlsAll == UidIdls \cup TypeIdls(MCEnumsCommon \cup {MCEnumBaseNamed})
=============================================================================
