------------------------------ MODULE ObusIdl ------------------------------
(***************************************************************************)
(* The two readers of a bus description (the XML IDL): the parser of the  *)
(* code generators (src/src/obusgen/obusparser.py, class ObusBus and the  *)
(* classes it builds) with the descriptor tables the C generator writes    *)
(* from it (c/obus_c*.py), and the runtime loader of the Python client     *)
(* (src/python/obus/xmlbus.py, loadBus, with the add* checks of            *)
(* descriptors.py).  A description is reduced to what their checks and    *)
(* the descriptors they build depend on: names and uids of objects,        *)
(* enums with their labels, values and default, properties and method     *)
(* arguments with their types, methods, object events with their <update>  *)
(* children, and bus events.  A type is the sequence of its ':'-separated  *)
(* parts.  Names are model values, or strings where a type names them,     *)
(* all lower case and one word, so that both readers' spellings            *)
(* (to_underscored in the parser, title() / upper() in the loader) keep    *)
(* them distinct.  Descriptions (desc attributes) are left out.            *)
(*                                                                         *)
(* Each reader ends with the descriptor it built or with the exception it  *)
(* raised; the descriptor is compared at the level of uids: each object    *)
(* struct's fields, the fields each event updates, the arguments of each   *)
(* method, the bus event uids.                                              *)
(***************************************************************************)
EXTENDS Naturals, Sequences, FiniteSets, Functions, TLC

CONSTANTS
    Idls,        \* the bus descriptions to read
    None         \* an absent XML attribute

VARIABLES
    idl,         \* the description both readers are given
    gen,         \* obus_c main(xmlFile): None before, then [ok, desc]
    load,        \* loadBus(xmlFile): None before, then [ok, desc]
    jgen         \* obus_java main(xmlFile): None before, then [ok, compiles, desc]

vars == <<idl, gen, load, jgen>>

-----------------------------------------------------------------------------
(* Helpers. *)

Uids(s) == [i \in DOMAIN s |-> s[i].uid]
Names(s) == [i \in DOMAIN s |-> s[i].name]
UidSet(s) == {s[i].uid : i \in DOMAIN s}

(* No two children share the key: every "already used" test of the code  *)
(* passes as each child is added after the earlier ones.                 *)
Distinct(f) == IsInjective(f)

-----------------------------------------------------------------------------
(* obusparser.py *)

INVALID_UID == 0
BUS_EVENT_UID_MIN_VALUE == 10

(* ObusType.__init__: the parts of the type split at ':'.  "array" first *)
(* takes the base type from the second part; an enum base needs the next  *)
(* part to name one of the object's enums; any later part is ignored.     *)
BaseTypes == {"int8", "uint8", "int16", "uint16", "int32", "uint32", "int64",
              "uint64", "string", "handle", "enum", "bool", "float", "double"}

GenBaseAt(t) == IF t[1] = "array" THEN 2 ELSE 1

GenTypeOk(o, t) ==
    LET i == GenBaseAt(t) IN
    /\ i <= Len(t)
    /\ t[i] \in BaseTypes
    /\ t[i] = "enum" => i + 1 <= Len(t) /\ t[i + 1] \in Range(Names(o.enums))

(* ObusEnum.__init__: labels, none repeated, and a default among them. *)
GenEnumOk(e) ==
    /\ Len(e.labels) > 0
    /\ Distinct(Names(e.labels))
    /\ e.default \in Range(Names(e.labels))

(* ObusMethodArg.__init__ and ObusProperty.__init__: uid not 0, a type. *)
GenArgOk(o, a) == a.uid # INVALID_UID /\ GenTypeOk(o, a.type)

(* ObusMethod.__init__: uid not 0; every argument parsed, no two with the *)
(* same name (argument uids are not compared).                            *)
GenMethodOk(o, m) ==
    /\ m.uid # INVALID_UID
    /\ \A i \in DOMAIN m.args : GenArgOk(o, m.args[i])
    /\ Distinct(Names(m.args))

(* One <update> of ObusEvent.__init__: property or method, not both, not  *)
(* neither, and one the object has.                                       *)
GenUpdateOk(o, up) ==
    CASE up.property # None /\ up.method # None -> FALSE
      [] up.property # None -> up.property \in Range(Names(o.props))
      [] up.method # None   -> up.method \in Range(Names(o.methods))
      [] OTHER              -> FALSE

(* ObusEvent.__init__: uid not 0, updates valid and none added twice. *)
GenEventOk(o, e) ==
    /\ e.uid # INVALID_UID
    /\ \A i \in DOMAIN e.updates : GenUpdateOk(o, e.updates[i])
    /\ Distinct(SelectSeq(e.updates, LAMBDA up : up.method = None))
    /\ Distinct(SelectSeq(e.updates, LAMBDA up : up.property = None))

(* ObusObject.__init__: uid not 0; enums valid and unique by name;        *)
(* properties and methods each unique by name, and __isUidUsed over        *)
(* properties and methods together; events unique by name and by uid.    *)
GenObjectOk(o) ==
    /\ o.uid # INVALID_UID
    /\ \A i \in DOMAIN o.enums : GenEnumOk(o.enums[i])
    /\ Distinct(Names(o.enums))
    /\ \A i \in DOMAIN o.props : GenArgOk(o, o.props[i])
    /\ Distinct(Names(o.props))
    /\ \A i \in DOMAIN o.methods : GenMethodOk(o, o.methods[i])
    /\ Distinct(Names(o.methods))
    /\ Distinct(Uids(o.props) \o Uids(o.methods))
    /\ \A i \in DOMAIN o.events : GenEventOk(o, o.events[i])
    /\ Distinct(Names(o.events))
    /\ Distinct(Uids(o.events))

(* ObusBusEvent.__init__: uid at least 10 (1..3 are the internal ones). *)
GenBusEventOk(be) == be.uid >= BUS_EVENT_UID_MIN_VALUE

(* ObusBus.__init__. *)
GenBusOk(d) ==
    /\ \A i \in DOMAIN d.objects : GenObjectOk(d.objects[i])
    /\ Distinct(Names(d.objects))
    /\ Distinct(Uids(d.objects))
    /\ \A i \in DOMAIN d.events : GenBusEventOk(d.events[i])
    /\ Distinct(Names(d.events))
    /\ Distinct(Uids(d.events))

(* The uid of the property or method an accepted update names. *)
GenUpdateUid(o, up) ==
    IF up.property # None
    THEN (CHOOSE p \in Range(o.props) : p.name = up.property).uid
    ELSE (CHOOSE m \in Range(o.methods) : m.name = up.method).uid

-----------------------------------------------------------------------------
(* The descriptor tables the C generator (c/obus_c*.py) writes for a bus   *)
(* ObusBus accepted.  A field entry is [role, type, array, driver]: its    *)
(* .role, .type (getLibobusType, "| OBUS_FIELD_ARRAY" as array) and        *)
(* .enum_drv.                                                              *)

(* getLibobusType and _ObusType: a handle travels as a u16. *)
FieldType(b) == IF b = "handle" THEN "uint16" ELSE b

(* ObusEnumWriter.writeDriver: <name>_is_valid accepts the label values,  *)
(* .default_value is the default label's value.                            *)
CEnumDriver(e) ==
    [values  |-> {e.labels[i].value : i \in DOMAIN e.labels},
     default |-> (CHOOSE l \in Range(e.labels) : l.name = e.default).value]

CFieldDesc(o, role, t) ==
    LET i == GenBaseAt(t) IN
    [role   |-> role,
     type   |-> FieldType(t[i]),
     array  |-> t[1] = "array",
     driver |-> IF t[i] = "enum"
                THEN CEnumDriver(CHOOSE e \in Range(o.enums) : e.name = t[i + 1])
                ELSE None]

(* A method state: OBUS_FIELD_ENUM with the method state driver, whose   *)
(* values are NOT_SUPPORTED 0, ENABLED 1, DISABLED 2 and whose default is *)
(* NOT_SUPPORTED (obus MethodState, FIELD_DRIVER_METHOD_STATE).           *)
MethodStateDriver == [values |-> {0, 1, 2}, default |-> 0]

MethodStateDesc == [role |-> "METHOD", type |-> "enum", array |-> FALSE, driver |-> MethodStateDriver]

(* genObjectStruct: <obj>_info_fields, one entry per property, then one   *)
(* per method state, each at its enum index and with its .uid.            *)
CInfoFields(o) ==
    [u \in UidSet(o.props) |-> CFieldDesc(o, "PROPERTY", (CHOOSE p \in Range(o.props) : p.uid = u).type)]
    @@ [u \in UidSet(o.methods) |-> MethodStateDesc]

(* ObusEventsWriter.writeEventsDesc: per event its .uid and the update    *)
(* entries, each a pointer to the info_fields entry of the property or     *)
(* method it names.                                                        *)
CEventsDesc(o) ==
    [u \in UidSet(o.events) |->
        LET e == CHOOSE e \in Range(o.events) : e.uid = u
        IN  {GenUpdateUid(o, e.updates[i]) : i \in DOMAIN e.updates}]

(* ObusMethodsWriter.writeMethodsDesc and writeMethodArgsDesc: per method *)
(* its .uid and an OBUS_ARGUMENT entry per argument.                       *)
CMethodsDesc(o) ==
    [u \in UidSet(o.methods) |->
        LET m == CHOOSE m \in Range(o.methods) : m.uid = u
        IN  [a \in UidSet(m.args) |-> CFieldDesc(o, "ARGUMENT", (CHOOSE x \in Range(m.args) : x.uid = a).type)]]

(* genObjectDesc: <obj>_desc with the object uid and the three tables. *)
CObjectDesc(o) == [fields |-> CInfoFields(o), events |-> CEventsDesc(o), methods |-> CMethodsDesc(o)]

(* ObusBus.__init__ adds the internal connected, disconnected and         *)
(* connection_refused events (uids 1..3) to bus.events, and                *)
(* ObusBusEventsWriter.writeEventsDesc writes them with the others.        *)
InternalBusEvents == {1, 2, 3}

(* writeEventsDesc: one obus_bus_event_desc per bus.events entry. *)
CBusEventsDesc(d) == InternalBusEvents \cup UidSet(d.events)

(* genBus: the objects array and <bus>_desc. *)
CBusDesc(d) ==
    [objects |-> [u \in UidSet(d.objects) |-> CObjectDesc(CHOOSE o \in Range(d.objects) : o.uid = u)],
     events  |-> CBusEventsDesc(d)]

(* obus_c.main: ObusBus(xmlFile), exit(1) on an ObusException, else genBus *)
(* and genObject for every object.                                          *)
CMain(d) ==
    IF GenBusOk(d)
    THEN [ok |-> TRUE, desc |-> CBusDesc(d)]
    ELSE [ok |-> FALSE, desc |-> None]

-----------------------------------------------------------------------------
(* The descriptors the Java generator (java/obus_java.py) writes into the *)
(* bus class and the object classes of the client binding.                 *)

(* _typeMap: the FieldType constant of each base type, a handle as U16. *)
JTypeMap(b) == IF b = "handle" THEN "uint16" ELSE b

(* genObjEnum: <Enum>Driver with init() returning the default label and   *)
(* fromInt a switch with one "case <value>:" per label; javac rejects the  *)
(* class when two labels share a value (duplicate case label).             *)
JEnumDriver(e) ==
    [values  |-> {e.labels[i].value : i \in DOMAIN e.labels},
     default |-> (CHOOSE l \in Range(e.labels) : l.name = e.default).value]

JEnumCompiles(e) == IsInjective([i \in DOMAIN e.labels |-> e.labels[i].value])

(* MyObusType and genStructFieldsDesc: new FieldDesc(name, uid, fieldType, *)
(* role, driver), fieldType OBUS_FIELD_ENUM with <Enum>Driver for an enum  *)
(* and "| OBUS_FIELD_ARRAY" for an array.                                  *)
JFieldDesc(o, role, t) ==
    LET i == GenBaseAt(t)
        isEnum == t[i] = "enum"
    IN  [role   |-> role,
         type   |-> IF isEnum THEN "enum" ELSE JTypeMap(t[i]),
         array  |-> t[1] = "array",
         driver |-> IF isEnum
                    THEN JEnumDriver(CHOOSE e \in Range(o.enums) : e.name = t[i + 1])
                    ELSE None]

(* MethodStateType: OBUS_FIELD_ENUM with Descriptor.FIELD_DRIVER_METHOD_STATE. *)
JMethodStateDesc == [role |-> "METHOD", type |-> "enum", array |-> FALSE, driver |-> MethodStateDriver]

(* genStructDesc(objClassName, obj): addField of every property, then of   *)
(* every method state.                                                      *)
JStructDesc(o) ==
    [u \in UidSet(o.props) |-> JFieldDesc(o, "PROPERTY", (CHOOSE p \in Range(o.props) : p.uid = u).type)]
    @@ [u \in UidSet(o.methods) |-> JMethodStateDesc]

(* genObjCallClass: per method a structDesc of OBUS_ARGUMENT fields and a   *)
(* MethodDesc(name, uid, structDesc, creator).                              *)
JMethodsDesc(o) ==
    [u \in UidSet(o.methods) |->
        LET m == CHOOSE m \in Range(o.methods) : m.uid = u
        IN  [a \in UidSet(m.args) |-> JFieldDesc(o, "ARGUMENT", (CHOOSE x \in Range(m.args) : x.uid = a).type)]]

(* genObj: per event an EventDesc and an addEventUpdateDesc for each of    *)
(* evt.properties and evt.methods; objectDesc.addEvent and addMethod.       *)
JObjectDesc(o) ==
    [fields  |-> JStructDesc(o),
     events  |-> [u \in UidSet(o.events) |->
                    LET e == CHOOSE e \in Range(o.events) : e.uid = u
                    IN  {GenUpdateUid(o, e.updates[i]) : i \in DOMAIN e.updates}],
     methods |-> JMethodsDesc(o)]

(* genBus: a BusEventDesc for every bus.events entry, the internal ones     *)
(* included, and busDesc.addObject for every object.                        *)
JBusDesc(d) ==
    [objects |-> [u \in UidSet(d.objects) |-> JObjectDesc(CHOOSE o \in Range(d.objects) : o.uid = u)],
     events  |-> InternalBusEvents \cup UidSet(d.events)]

(* obus_java.main with --client: ObusBus(xmlFile), which logs an           *)
(* ObusException and returns, else genBus and genObj for every object; the *)
(* binding then compiles unless an enum class has a duplicate case label.  *)
JMain(d) ==
    IF GenBusOk(d)
    THEN [ok |-> TRUE,
          compiles |-> \A i \in DOMAIN d.objects : \A k \in DOMAIN d.objects[i].enums :
                          JEnumCompiles(d.objects[i].enums[k]),
          desc |-> JBusDesc(d)]
    ELSE [ok |-> FALSE, compiles |-> FALSE, desc |-> None]

-----------------------------------------------------------------------------
(* xmlbus.py and descriptors.py *)

(* _ObusType.__init__: strip an "array:" prefix, then an "enum:" prefix; *)
(* the rest is the raw type.                                               *)
LoadArray(t) == Len(t) >= 2 /\ t[1] = "array"

LoadRest(t) == IF LoadArray(t) THEN Tail(t) ELSE t

LoadEnum(t) == Len(LoadRest(t)) >= 2 /\ LoadRest(t)[1] = "enum"

LoadRaw(t) == IF LoadEnum(t) THEN Tail(LoadRest(t)) ELSE LoadRest(t)

(* The if-chain on rawType tests the base type names before isEnum, so a  *)
(* raw type naming a base type gives that type even after "enum:"; else   *)
(* the enum prefix gives OBUS_FIELD_ENUM; anything else raises "Unknown    *)
(* type".                                                                  *)
LoadScalar(t) == Len(LoadRaw(t)) = 1 /\ LoadRaw(t)[1] \in BaseTypes \ {"enum"}

LoadFieldType(t) == IF LoadScalar(t) THEN FieldType(LoadRaw(t)[1]) ELSE "enum"

(* _genStructDesc: with isEnum, the driver is                              *)
(* getattr(objClass, "_driver_" + rawType.title()), an AttributeError      *)
(* unless an enum of that name was set on the class.                       *)
LoadTypeOk(o, t) ==
    /\ LoadScalar(t) \/ LoadEnum(t)
    /\ LoadEnum(t) => Len(LoadRaw(t)) = 1 /\ LoadRaw(t)[1] \in Range(Names(o.enums))

(* The index of the last element of s named n. *)
LastNamed(s, n) == CHOOSE i \in DOMAIN s : s[i].name = n /\ \A j \in DOMAIN s : s[j].name = n => j <= i

(* The enum loop of loadBus: items[label.upper()] = value, a later label  *)
(* of a name replacing an earlier one; the default is taken with getattr, *)
(* an AttributeError when it is no label.  setattr(objClass, "_driver_"   *)
(* + enumName.title(), ...) leaves the last enum of a name on the class.  *)
LoadEnumOk(e) == e.default \in Range(Names(e.labels))

LoadEnumItems(e) == [n \in Range(Names(e.labels)) |-> e.labels[LastNamed(e.labels, n)].value]

LoadEnumDriver(o, n) ==
    LET e == o.enums[LastNamed(o.enums, n)]
    IN  [values |-> Range(LoadEnumItems(e)), default |-> LoadEnumItems(e)[e.default]]

(* obus.FieldDesc(name, uid, obusType.type, role, obusType.driver). *)
LoadFieldDesc(o, role, t) ==
    [role   |-> role,
     type   |-> LoadFieldType(t),
     array  |-> LoadArray(t),
     driver |-> IF LoadEnum(t) THEN LoadEnumDriver(o, LoadRaw(t)[1]) ELSE None]

(* _genStructDesc(xmlObj): properties, then one "method_state_<name>"    *)
(* field per method with the method's uid; a method state's name is      *)
(* <<"method_state", m>>.  A field is [name, uid, desc].             *)
StructFields(o) ==
    [i \in DOMAIN o.props |-> [name |-> o.props[i].name, uid |-> o.props[i].uid,
                               desc |-> LoadFieldDesc(o, "PROPERTY", o.props[i].type)]]
    \o [i \in DOMAIN o.methods |-> [name |-> <<"method_state", o.methods[i].name>>,
                                   uid |-> o.methods[i].uid, desc |-> MethodStateDesc]]

(* _genStructDesc(xmlMtd): the arguments of a method. *)
ArgFields(o, m) ==
    [i \in DOMAIN m.args |-> [name |-> m.args[i].name, uid |-> m.args[i].uid,
                              desc |-> LoadFieldDesc(o, "ARGUMENT", m.args[i].type)]]

(* StructDesc.addField raises KeyError on a uid already present. *)
AddFieldsOk(fs) == Distinct(Uids(fs))

(* EventDesc.addUpdateDesc raises KeyError on a field uid already present. *)
AddUpdatesOk(us) == Distinct(us)

(* ObjectDesc.addEvent and addMethod, BusDesc.addObject and addEvent:    *)
(* KeyError on a uid already present.                                     *)
AddDescsOk(s) == Distinct(Uids(s))

(* StructDesc.findField: the first of fieldsDesc.values(), a dict keyed by *)
(* small int uids, which Python 2 iterates in ascending uid order.         *)
FindField(fs, n) ==
    LET us == {fs[i].uid : i \in {i \in DOMAIN fs : fs[i].name = n}}
    IN  IF us = {} THEN None ELSE CHOOSE u \in us : \A v \in us : u <= v

(* name = update.get('property'), else "method_state_" + update.get('method'), *)
(* which raises TypeError when the update has neither.                     *)
UpdateNameOk(up) == up.property # None \/ up.method # None

UpdateFieldNoPrefix(fs, up) ==
    FindField(fs, IF up.property # None THEN up.property ELSE up.method)

UpdateField(fs, up) ==
    FindField(fs, IF up.property # None THEN up.property ELSE <<"method_state", up.method>>)

(* The fields found, in order; an update naming no field is left out. *)
UpdateFieldsNoCheck(fs, e) == [i \in DOMAIN e.updates |-> UpdateField(fs, e.updates[i])]

UpdateFields(fs, e) == SelectSeq(UpdateFieldsNoCheck(fs, e), LAMBDA u : u # None)

(* The loop over the <object> nodes of loadBus: addField for the struct  *)
(* and for each method's arguments, addUpdateDesc and addEvent, addMethod. *)
LoadObjectOk(o) ==
    LET fs == StructFields(o) IN
    /\ \A i \in DOMAIN o.enums : LoadEnumOk(o.enums[i])
    /\ \A i \in DOMAIN o.props : LoadTypeOk(o, o.props[i].type)
    /\ AddFieldsOk(fs)
    /\ \A i \in DOMAIN o.events :
          /\ \A k \in DOMAIN o.events[i].updates : UpdateNameOk(o.events[i].updates[k])
          /\ AddUpdatesOk(UpdateFields(fs, o.events[i]))
    /\ AddDescsOk(o.events)
    /\ \A i \in DOMAIN o.methods :
          /\ \A k \in DOMAIN o.methods[i].args : LoadTypeOk(o, o.methods[i].args[k].type)
          /\ AddFieldsOk(ArgFields(o, o.methods[i]))
    /\ AddDescsOk(o.methods)

(* loadBus: objects, then BusDesc.addObject and addEvent. *)
LoadBusOk(d) ==
    /\ \A i \in DOMAIN d.objects : LoadObjectOk(d.objects[i])
    /\ AddDescsOk(d.objects)
    /\ AddDescsOk(d.events)

LoadObjDesc(o) ==
    LET fs == StructFields(o) IN
    [fields  |-> [u \in Range(Uids(fs)) |-> (CHOOSE f \in Range(fs) : f.uid = u).desc],
     events  |-> [u \in UidSet(o.events) |->
                    Range(UpdateFields(fs, CHOOSE e \in Range(o.events) : e.uid = u))],
     methods |-> [u \in UidSet(o.methods) |->
                    LET as == ArgFields(o, CHOOSE m \in Range(o.methods) : m.uid = u)
                    IN  [a \in Range(Uids(as)) |-> (CHOOSE f \in Range(as) : f.uid = a).desc]]]

LoadBus(d) ==
    IF LoadBusOk(d)
    THEN [ok |-> TRUE,
          desc |-> [objects |-> [u \in UidSet(d.objects) |->
                                   LoadObjDesc(CHOOSE o \in Range(d.objects) : o.uid = u)],
                    events |-> UidSet(d.events)]]
    ELSE [ok |-> FALSE, desc |-> None]

-----------------------------------------------------------------------------
Init ==
    /\ idl \in Idls
    /\ gen = None
    /\ load = None
    /\ jgen = None

(* obusgen reads the description to generate the server's bindings. *)
generate ==
    /\ gen = None
    /\ gen' = CMain(idl)
    /\ UNCHANGED <<idl, load, jgen>>

(* The Python client loads the same description at run time. *)
loadBus ==
    /\ load = None
    /\ load' = LoadBus(idl)
    /\ UNCHANGED <<idl, gen, jgen>>

(* obusgen writes the Java client binding from the same description. *)
generateJava ==
    /\ jgen = None
    /\ jgen' = JMain(idl)
    /\ UNCHANGED <<idl, gen, load>>

Next == generate \/ loadBus \/ generateJava

Spec == Init /\ [][Next]_vars

-----------------------------------------------------------------------------
Read(r) == r # None

(* The descriptors as the core sees them: the internal bus events 1..3   *)
(* of the generated table are BusEventBase's local events in the client.  *)
CoreDesc(desc) == [desc EXCEPT !.events = @ \ InternalBusEvents]

FieldDescs == [role : {"PROPERTY", "METHOD", "ARGUMENT"}, type : {FieldType(b) : b \in BaseTypes},
               array : BOOLEAN, driver : {None} \cup [values : SUBSET Int, default : Int]]

\* Type invariant: an accepted description gives property, method state and
\* argument entries, and events updating fields of their object; a rejected
\* one gives no descriptor.
TypeOK ==
    \A r \in {x \in {gen, load, jgen} : Read(x)} :
        r.ok => \A u \in DOMAIN r.desc.objects :
                    LET od == r.desc.objects[u] IN
                    /\ \A f \in DOMAIN od.fields : od.fields[f] \in FieldDescs
                    /\ \A e \in DOMAIN od.events : od.events[e] \subseteq DOMAIN od.fields
                    /\ \A m \in DOMAIN od.methods : \A a \in DOMAIN od.methods[m] :
                          od.methods[m][a] \in FieldDescs

\* When both readers accept a description, the Python client's descriptors
\* are those the generated C server was built from: the same objects; the
\* same struct fields by uid, each with its role, wire type, array flag and
\* enum driver (label values and default); the same event update sets (an
\* update naming a method resolves to its method_state field); the same
\* method arguments; the same bus events.  A field whose types differ is
\* skipped by the decoder on the side that reads it (spec.md 5, Struct).
\* The Java client binding, when it compiles, carries the same tables.
DescriptorsAgree ==
    /\ (Read(gen) /\ Read(load) /\ gen.ok /\ load.ok) => CoreDesc(gen.desc) = load.desc
    /\ (Read(gen) /\ Read(jgen) /\ gen.ok /\ jgen.ok /\ jgen.compiles) => jgen.desc = gen.desc

\* Which reader builds the descriptors is irrelevant to the core's contract
\* (spec.md, IDL loader): a description obusgen accepts loads in the Python
\* client, into the descriptors the generated server has, and its Java
\* client binding compiles.
GeneratedBusUsable ==
    /\ (Read(gen) /\ Read(load) /\ gen.ok) => load.ok /\ CoreDesc(gen.desc) = load.desc
    /\ (Read(gen) /\ Read(jgen) /\ gen.ok) => jgen.compiles

=============================================================================
