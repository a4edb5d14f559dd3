------------------------------ MODULE Classes -------------------------------
(***************************************************************************)
(* Classes and interfaces from the declarations to a method call.  sema    *)
(* collects the declarations, resolves the hierarchy, lays out slots and   *)
(* method tables and checks conformance (classes.rs, check/decl.rs,        *)
(* check/expr_class.rs); mir completes the constructors and the interface  *)
(* tables (lower.rs); codegen emits the descriptors and the indexed loads  *)
(* (llvm.rs); the runtime walks the descriptors (object.rs, namespace.rs). *)
(*                                                                         *)
(* A program is a sequence of declarations in file order.  A declaration   *)
(* is named by its place in it, a member by its place in the declaration,  *)
(* a function by both; OBJECT is class 0.  A type is a model value or, in  *)
(* a signature, only counted: `matches` compares what is kept.  Bodies are *)
(* opaque.  One action of the running program is one operation of it.      *)
(***************************************************************************)
EXTENDS Integers, Sequences, FiniteSets, FiniteSetsExt, Functions

CONSTANT Programs    \* the programs to compile

(* How often the super(...) of a constructor's body may run, up to a bound: *)
(* {1} if it stands by itself, {0, 1} in a branch, {0} behind a return,     *)
(* {0, 1, 2} in a loop; {} if there is none.                                *)
MaxSuperRuns == 2

Visibilities == {"public", "private", "protected", "internal"}
Members ==
    [m : {"field", "method", "getter", "setter"}, name : STRING, ns : STRING, static : BOOLEAN,
     override : BOOLEAN, final : BOOLEAN, const : BOOLEAN, vis : Visibilities, ty : STRING,
     params : Nat, required : Nat, rest : BOOLEAN, super : SUBSET (0..MaxSuperRuns)]
Declarations ==
    [d : {"class", "iface"}, name : STRING, package : STRING, extends : Seq(STRING),
     implements : Seq(STRING), final : BOOLEAN, dynamic : BOOLEAN, members : Seq(Members)]

(* The grammar allows one class after `extends`.                            *)
ASSUME ProgramsAssumption ==
    \A p \in Programs :
        /\ p \in Seq(Declarations)
        /\ \A k \in DOMAIN p : p[k].d = "class" => Len(p[k].extends) <= 1

VARIABLES
    program,
    phase,      \* the pass that is next
    todo,       \* declarations the pass has still to visit
    registry,   \* declaration -> ClassInfo or IfaceInfo
    errors,     \* diagnostics
    image,      \* class -> what its descriptor and constructor hold
    event       \* what the running program did last

vars == <<program, phase, todo, registry, errors, image, event>>

OBJECT == 0
NoSym  == -1

-----------------------------------------------------------------------------
(* ---- declarations --------------------------------------------------------- *)

Decls(p, d) == {k \in DOMAIN p : p[k].d = d}
First(ks)   == IF ks = {} THEN NoSym ELSE CHOOSE k \in ks : \A l \in ks : k <= l

(* All that is reached from a in steps of next, a itself included.          *)
Reach(next, a) ==
    {b \in DOMAIN next :
        \A C \in SUBSET DOMAIN next : a \in C /\ (\A c \in C : next[c] \subseteq C) => b \in C}

(* A walk from a along next need not end.                                   *)
Loops(next, a) ==
    \E C \in SUBSET Reach(next, a) : C # {} /\ \A c \in C : next[c] \cap C # {}

(* register_type_name: the first declaration of a simple name owns it.      *)
(* "Object" is not registered: it cannot be written after `extends`.        *)
resolve_type_sym(p, n, d) ==
    LET k == First({l \in DOMAIN p : p[l].name = n})
    IN  IF k # NoSym /\ p[k].d = d THEN k ELSE NoSym

Resolves(p, names, d) == \A i \in DOMAIN names : resolve_type_sym(p, names[i], d) # NoSym

(* The names that resolve, in the order they are written.                   *)
Resolve(p, names, d) ==
    LET found[i \in 0..Len(names)] ==
            IF i = 0 THEN <<>>
            ELSE LET k == resolve_type_sym(p, names[i], d)
                 IN  IF k = NoSym THEN found[i - 1] ELSE Append(found[i - 1], k)
    IN  found[Len(names)]

DefaultSig == [params |-> 0, required |-> 0, variadic |-> FALSE]
build_sig(m) == [params |-> m.params, required |-> m.required, variadic |-> m.rest]

(* A qualified member's name carries the namespace: "ns::name" in the code. *)
QName(ns, n)   == <<ns, n>>
member_name(m) == QName(m.ns, m.name)

(* ... and access is then a matter of having the namespace.                 *)
visibility(m) == IF m.ns = "" THEN m.vis ELSE "public"

(* ClassInfo and IfaceInfo before pass B, with the diagnostics on the       *)
(* members.  The root has no parent.                                        *)
EmptyInfo(k) ==
    [parent |-> IF k = OBJECT THEN NoSym ELSE OBJECT, extends |-> <<>>, interfaces |-> {},
     methods |-> <<>>, fields |-> <<>>, total_slots |-> 0, vtable |-> <<>>, ctor |-> 0,
     ctor_sig |-> DefaultSig, static_fields |-> <<>>, static_methods |-> <<>>, errs |-> {}]

(* A lookup: the first entry with this name (and kind), or none.            *)
Named(entries, n)       == First({i \in DOMAIN entries : entries[i].name = n})
Keyed(entries, n, kind) ==
    First({i \in DOMAIN entries : entries[i].name = n /\ entries[i].kind = kind})

(* A class and its ancestors, in the registry or in the descriptors.        *)
Chain(reg, k) == Reach([a \in DOMAIN reg |-> {reg[a].parent} \ {NoSym}], k)

is_subclass(reg, sub, sup) == sup \in Chain(reg, sub)
implements(reg, k, i) == \E a \in Chain(reg, k) : i \in reg[a].interfaces

(* Of some classes of one chain, the one the walk from below meets first.   *)
Nearest(reg, as) == CHOOSE a \in as : as \subseteq Chain(reg, a)

Bases(reg) == [i \in DOMAIN reg |-> Range(reg[i].extends)]
iface_extends(reg, sub, sup) == sup \in Reach(Bases(reg), sub)

(* Fields are found along the chain, nearest first.                         *)
find_field(reg, k, n) ==
    LET owners == {a \in Chain(reg, k) : Named(reg[a].fields, n) # NoSym}
        a      == Nearest(reg, owners)
    IN  IF owners = {} THEN <<>> ELSE <<reg[a].fields[Named(reg[a].fields, n)]>>

find_vmethod(reg, k, n, kind)      == Keyed(reg[k].vtable, n, kind)
find_iface_method(reg, i, n, kind) == Keyed(reg[i].methods, n, kind)

-----------------------------------------------------------------------------
(* ---- hierarchy -------------------------------------------------------------- *)

(* In declaration order, a declaration from which the bases loop is cut off *)
(* from its own, which are `to` from then on: those that are cut off.       *)
BreakCycles(p, next, to) ==
    LET cyclic[i \in 0..Len(p)] ==
            IF i = 0 THEN {}
            ELSE LET left == [k \in DOMAIN next |-> IF k \in cyclic[i - 1] THEN to ELSE next[k]]
                 IN  cyclic[i - 1] \cup {k \in {i} \cap DOMAIN next : Loops(left, k)}
    IN  cyclic[Len(p)]

(* A faulty variant: only the interfaces a class lists itself.              *)
FlattenInterfacesDirect(reg, is) == is

(* The interfaces a class lists with all they extend.                       *)
FlattenInterfaces(reg, is) == UNION {Reach(Bases(reg), i) : i \in is}

(* The entries that are not in the list yet are added to it, in order.      *)
Merge(list, entries) ==
    LET merged[i \in 0..Len(entries)] ==
            IF i = 0 THEN list
            ELSE IF Keyed(merged[i - 1], entries[i].name, entries[i].kind) # NoSym THEN merged[i - 1]
            ELSE Append(merged[i - 1], entries[i])
    IN  merged[Len(entries)]

(* Inherited methods first, then the interface's own: the order of the      *)
(* dispatch table.                                                          *)
build_iface_methods(p, reg, k) ==
    LET bases == reg[k].extends
        own   == p[k].members
        inherited[i \in 0..Len(bases)] ==
            IF i = 0 THEN <<>> ELSE Merge(inherited[i - 1], reg[bases[i]].methods)
    IN  Merge(inherited[Len(bases)],
              [j \in DOMAIN own |->
                  [name |-> QName("", own[j].name), kind |-> own[j].m, sig |-> build_sig(own[j])]])

(* A method of the interface that repeats an inherited one differently.     *)
ConflictsIn(ms, members) ==
    \E m \in Range(members) :
        LET i == Keyed(ms, QName("", m.name), m.m) IN i # NoSym /\ ms[i].sig # build_sig(m)

(* The next class in topo_order: sorted by depth, stable.                   *)
topo_first(reg, ks) ==
    LET depth(k) == Cardinality(Chain(reg, k))
    IN  CHOOSE k \in ks : \A l \in ks : depth(k) < depth(l) \/ (depth(k) = depth(l) /\ k <= l)

-----------------------------------------------------------------------------
(* ---- members ---------------------------------------------------------------- *)

IsCtor(decl, m) == m.m = "method" /\ ~m.static /\ member_name(m) = QName("", decl.name)

(* The state of build_class_members is what the class info will be.         *)
AddField(acc, reg, k, m) ==
    LET n == member_name(m)
        entry == [name |-> n, ty |-> m.ty, const |-> m.const, vis |-> visibility(m),
                  slot |-> acc.total_slots, defined_in |-> k]
    IN  IF \/ Named(acc.fields, n) # NoSym \/ Named(acc.static_fields, n) # NoSym
           \/ find_field(reg, reg[k].parent, n) # <<>>
        THEN [acc EXCEPT !.errs = @ \cup {"field declared twice"}]
        ELSE IF m.static THEN [acc EXCEPT !.static_fields = Append(@, entry)]
        ELSE [acc EXCEPT !.fields = Append(@, entry), !.total_slots = @ + 1]

AddMethod(acc, k, j, m) ==
    LET n     == member_name(m)
        sig   == build_sig(m)
        pos   == Keyed(acc.vtable, n, m.m)
        old   == acc.vtable[pos]
        entry == [name |-> n, kind |-> m.m, sig |-> sig, fn_id |-> <<k, j>>, final |-> m.final,
                  vis |-> visibility(m), introduced_in |-> k]
    IN  IF m.static
        THEN [acc EXCEPT !.static_methods =
                  Append(@, [name |-> n, sig |-> sig, fn_id |-> <<k, j>>, vis |-> visibility(m)])]
        ELSE IF pos = NoSym
        THEN [acc EXCEPT !.vtable = Append(@, entry),
                         !.errs = @ \cup IF m.override THEN {"overrides nothing"} ELSE {}]
        ELSE [acc EXCEPT !.vtable[pos] = [entry EXCEPT !.vis = old.vis,
                                                       !.introduced_in = old.introduced_in],
                         !.errs = @ \cup (IF m.override THEN {} ELSE {"override missing"})
                                    \cup (IF old.final THEN {"final"} ELSE {})
                                    \cup (IF old.sig = sig THEN {} ELSE {"signature"})]

(* A faulty variant: only the slots of the parent's own fields are skipped. *)
FirstSlotOwn(reg, parent) == Len(reg[parent].fields)

(* Parent slots first: the next child's base is the parent's total.         *)
FirstSlot(reg, parent) == reg[parent].total_slots

AddMember(acc, p, reg, k, j) ==
    LET m == p[k].members[j]
    IN  CASE m.m = "field" -> AddField(acc, reg, k, m)
          [] IsCtor(p[k], m) -> [acc EXCEPT !.ctor = j, !.ctor_sig = build_sig(m)]
          [] OTHER -> AddMethod(acc, k, j, m)

build_class_members(p, reg, k) ==
    LET parent == reg[k].parent
        acc[j \in 0..Len(p[k].members)] ==
            IF j = 0
            THEN [reg[k] EXCEPT !.vtable = reg[parent].vtable, !.total_slots = FirstSlot(reg, parent)]
            ELSE AddMember(acc[j - 1], p, reg, k, j)
    IN  acc[Len(p[k].members)]

(* Every method of every interface listed, public and with its signature.   *)
check_conformance(reg, k) ==
    UNION {UNION {LET v == find_vmethod(reg, k, m.name, m.kind)
                  IN  IF v = NoSym THEN {"missing method"}
                      ELSE IF reg[k].vtable[v].sig # m.sig THEN {"signature"}
                      ELSE IF reg[k].vtable[v].vis # "public" THEN {"not public"}
                      ELSE {} : m \in Range(reg[i].methods)} : i \in reg[k].interfaces}

(* Pass C looks up the function each body goes to.                          *)
BodyFn(p, reg, k, j) ==
    LET m == p[k].members[j]
        n == member_name(m)
    IN  IF m.m = "field" THEN <<>>
        ELSE IF IsCtor(p[k], m) THEN <<k, reg[k].ctor>>
        ELSE IF m.static THEN reg[k].static_methods[Named(reg[k].static_methods, n)].fn_id
        ELSE reg[k].vtable[find_vmethod(reg, k, n, m.m)].fn_id

(* The base constructor takes arguments, and super(...) is not written.     *)
check_super_rule(p, reg, k) ==
    /\ reg[reg[k].parent].ctor_sig.required > 0
    /\ reg[k].ctor = 0 \/ p[k].members[reg[k].ctor].super = {}

-----------------------------------------------------------------------------
(* ---- members at a use --------------------------------------------------------- *)

(* Code is in a class, or NoSym in the script.                              *)
PackageOf(p, k) == IF k \in DOMAIN p THEN p[k].package ELSE ""

check_visible(p, reg, ctx, vis, def) ==
    CASE vis = "public"    -> TRUE
      [] vis = "private"   -> ctx = def
      [] vis = "protected" -> ctx # NoSym /\ is_subclass(reg, ctx, def)
      [] vis = "internal"  -> PackageOf(p, ctx) = PackageOf(p, def)

Kinds == <<"getter", "setter", "method">>

member_exists(reg, k, n) ==
    find_field(reg, k, n) # <<>> \/ \E kind \in Range(Kinds) : find_vmethod(reg, k, n, kind) # NoSym

(* A bare name, or the only open namespace that has it.                     *)
effective_member_name(reg, k, raw, open) ==
    LET hits == {ns \in open : member_exists(reg, k, QName(ns, raw))}
    IN  IF member_exists(reg, k, QName("", raw)) \/ Cardinality(hits) # 1 THEN QName("", raw)
        ELSE QName(CHOOSE ns \in hits : TRUE, raw)

(* The visibility a use is checked against: of the field, else of the first *)
(* entry of the name in the order of Kinds.                                 *)
member_visibility(reg, k, n) ==
    LET f    == find_field(reg, k, n)
        kind == Kinds[First({i \in DOMAIN Kinds : find_vmethod(reg, k, n, Kinds[i]) # NoSym})]
        v    == reg[k].vtable[find_vmethod(reg, k, n, kind)]
    IN  IF f # <<>> THEN <<f[1].vis, f[1].defined_in>> ELSE <<v.vis, v.introduced_in>>

(* What an access means: a field, or the slot of the accessor or method.    *)
resolve_member(reg, k, n, access) ==
    LET f    == find_field(reg, k, n)
        prop == \E kind \in {"getter", "setter"} : find_vmethod(reg, k, n, kind) # NoSym
        kind == CASE access = "read"  -> IF prop THEN "getter" ELSE "method"
                  [] access = "write" -> "setter"
                  [] access = "call"  -> "method"
    IN  IF f # <<>>
        THEN IF access = "call" THEN [r |-> "error"] ELSE [r |-> "field", field |-> f[1]]
        ELSE IF (access = "call" /\ prop) \/ find_vmethod(reg, k, n, kind) = NoSym
        THEN [r |-> "error"]
        ELSE [r |-> "slot", vslot |-> find_vmethod(reg, k, n, kind)]

(* A const field is assigned by the constructor of its class only: there    *)
(* must be one for code of the class to do it.                              *)
MayAssign(reg, ctx, f) == f.const => ctx = f.defined_in /\ reg[ctx].ctor # 0

-----------------------------------------------------------------------------
(* ---- lowering and descriptors -------------------------------------------------- *)

(* The slot table: ancestors own the low slots.                             *)
SlotTypes(reg, k) ==
    [s \in 0..(reg[k].total_slots - 1) |->
        LET owner == CHOOSE a \in Chain(reg, k) :
                         \E f \in Range(reg[a].fields) : f.slot = s
        IN  (CHOOSE f \in Range(reg[owner].fields) : f.slot = s).ty]

(* A faulty variant: a table holds what the class that lists the interface  *)
(* implements it with, and is inherited.                                    *)
InterfaceTablesOfOwner(reg, k) ==
    LET owners == {a \in Chain(reg, k) : reg[a].interfaces # {}}
        a      == Nearest(reg, owners)
        fn(m)  == reg[a].vtable[find_vmethod(reg, a, m.name, m.kind)].fn_id
    IN  {[id |-> i, table |-> [s \in DOMAIN reg[i].methods |-> fn(reg[i].methods[s])]] :
            i \in IF owners = {} THEN {} ELSE reg[a].interfaces}

(* Every interface of the chain with the class's own implementations.       *)
InterfaceTables(reg, k) ==
    LET fn(m) == reg[k].vtable[find_vmethod(reg, k, m.name, m.kind)].fn_id
    IN  {[id |-> i, table |-> [s \in DOMAIN reg[i].methods |-> fn(reg[i].methods[s])]] :
            i \in UNION {reg[a].interfaces : a \in Chain(reg, k)}}

(* Rows for runtime-qualified access: own qualified fields, and every       *)
(* qualified method of the method table.                                    *)
NsMembers(reg, k) ==
    {[name |-> f.name, r |-> "field", at |-> f.slot + 1] :
        f \in {g \in Range(reg[k].fields) : g.name[1] # ""}}
    \cup
    {[name |-> reg[k].vtable[s].name, r |-> "slot", at |-> s] :
        s \in {v \in DOMAIN reg[k].vtable :
                  reg[k].vtable[v].name[1] # "" /\ reg[k].vtable[v].kind = "method"}}

(* build_class_artifacts: an instance is the descriptor word, the slots     *)
(* and, of a dynamic class, the hidden word of the expando map.             *)
Descriptor(p, reg, k) ==
    LET dynamic == k = OBJECT \/ p[k].dynamic
    IN  [parent  |-> reg[k].parent,
         slots   |-> SlotTypes(reg, k),
         words   |-> 1 + reg[k].total_slots + (IF dynamic THEN 1 ELSE 0),
         expando |-> IF dynamic THEN 1 + reg[k].total_slots ELSE NoSym,
         vtable  |-> [s \in DOMAIN reg[k].vtable |-> reg[k].vtable[s].fn_id],
         ifaces  |-> InterfaceTables(reg, k),
         members |-> NsMembers(reg, k)]

(* Word of a slot in an instance: `struct_gep(instance_ty, slot + 1)`.      *)
field_ptr(slot) == slot + 1

(* Whether a super(...) is written anywhere in the constructor, run or not. *)
tast_has_super(p, reg, k) == reg[k].ctor # 0 /\ p[k].members[reg[k].ctor].super # {}

(* How often the constructor of a class calls that of its parent.           *)
SuperRuns(p, reg, k) ==
    IF tast_has_super(p, reg, k) THEN p[k].members[reg[k].ctor].super ELSE {1}

Initializers(reg, k) == [i \in DOMAIN reg[k].fields |-> <<"init", k, reg[k].fields[i].name>>]

(* s, n times.                                                              *)
Repeat(s, n) == [i \in 1..(n * Len(s)) |-> s[((i - 1) % Len(s)) + 1]]

(* A faulty variant: the implicit super chain is added also when the        *)
(* constructor calls super(...) itself.                                     *)
ConstructTwice(p, reg, k, turns) ==
    LET log[a \in DOMAIN reg] ==
            IF a = OBJECT THEN <<>>
            ELSE LET base == log[reg[a].parent]
                 IN  base \o Initializers(reg, a)
                     \o (IF tast_has_super(p, reg, a) THEN Repeat(base, turns[a]) ELSE <<>>)
                     \o <<<<"body", a>>>>
    IN  log[k]

(* new_object runs the constructor as inject_ctor_prologues completed it:   *)
(* the implicit super chain, the field initializers, the written body with  *)
(* its super(...), which runs turns[a] times in the constructor of a.       *)
Construct(p, reg, k, turns) ==
    LET log[a \in DOMAIN reg] ==
            IF a = OBJECT THEN <<>>
            ELSE LET base == log[reg[a].parent]
                     own  == Initializers(reg, a)
                 IN  (IF tast_has_super(p, reg, a) THEN own \o Repeat(base, turns[a])
                      ELSE base \o own)
                     \o <<<<"body", a>>>>
    IN  log[k]

(* Arguments of a virtual call or a construction: those written, and the    *)
(* callee's defaults for the others (a rest parameter has no default).      *)
fill_method_defaults(sig, given) == IF given < sig.params THEN sig.params ELSE given

(* Parameters of the callee's function type, the rest Array included.       *)
ParamCount(sig) == sig.params + (IF sig.variadic THEN 1 ELSE 0)

-----------------------------------------------------------------------------
(* ---- runtime -------------------------------------------------------------------- *)

is_class(img, r, target) == target \in Chain(img, r)

(* The nearest table of the interface along the chain.                      *)
TableOwners(img, r, i) == {a \in Chain(img, r) : \E t \in img[a].ifaces : t.id = i}
is_iface(img, r, i)    == TableOwners(img, r, i) # {}
iface_table(img, r, i) ==
    (CHOOSE t \in img[Nearest(img, TableOwners(img, r, i))].ifaces : t.id = i).table

(* The member whose body pass C left in a function: the last one given it.  *)
Body(p, reg, fn) ==
    <<fn[1], Max({j \in DOMAIN p[fn[1]].members : BodyFn(p, reg, fn[1], j) = fn})>>

(* A boxed value is an instance of a class, null, or something else.        *)
Null  == -2
Plain == -3

any_is(img, v, t) ==
    v \in DOMAIN img /\ IF t \in DOMAIN img THEN is_class(img, v, t) ELSE is_iface(img, v, t)

any_as(img, v, t) == IF any_is(img, v, t) THEN v ELSE Null

(* null passes a checked coercion.                                          *)
any_coerce(img, v, t) == IF v = Null \/ any_is(img, v, t) THEN v ELSE "TypeError"

call_virtual(img, r, vslot)  == Body(program, registry, img[r].vtable[vslot])
call_iface(img, r, i, islot) == Body(program, registry, iface_table(img, r, i)[islot])

(* namespace.rs: the rows of the descriptor chain, nearest class first; the *)
(* fields of a class are before its methods.                                *)
find_member(img, r, n) ==
    LET rows(a) == {m \in img[a].members : m.name = n}
        owners  == {a \in Chain(img, r) : rows(a) # {}}
        found   == rows(Nearest(img, owners))
    IN  IF owners = {} THEN <<>>
        ELSE <<CHOOSE m \in found : m.r = "field" \/ \A l \in found : l.r # "field">>

-----------------------------------------------------------------------------
(* ---- the passes ------------------------------------------------------------------ *)

Init ==
    /\ program \in Programs
    /\ phase = "collect" /\ todo = {} /\ errors = {}
    /\ registry = <<>> /\ image = <<>>
    /\ event = [op |-> "none"]

Error(cond, e) == IF cond THEN {e} ELSE {}

collect_types ==
    /\ phase = "collect"
    /\ registry' = [k \in {OBJECT} \cup DOMAIN program |-> EmptyInfo(k)]
    /\ errors' = Error(\E k, l \in DOMAIN program : k # l /\ program[k].name = program[l].name,
                       "type declared twice")
    /\ phase' = "extends"
    /\ UNCHANGED <<program, todo, image, event>>

(* Pass B, interfaces: `extends` is resolved and cycles are broken.         *)
ResolveExtends ==
    /\ phase = "extends"
    /\ LET is  == Decls(program, "iface")
           ext == [k \in is |-> Resolve(program, program[k].extends, "iface")]
           cyclic == BreakCycles(program, [k \in is |-> Range(ext[k])], {})
       IN  /\ registry' = [k \in DOMAIN registry |->
                              [registry[k] EXCEPT !.extends = IF k \in is \ cyclic THEN ext[k] ELSE @]]
           /\ errors' = errors
                \cup Error(\E k \in is : ~Resolves(program, program[k].extends, "iface"),
                           "not an interface")
                \cup Error(cyclic # {}, "interface extends itself")
           /\ todo' = is
    /\ phase' = "methods"
    /\ UNCHANGED <<program, image, event>>

(* ... and their methods are listed, one interface after the other in the   *)
(* order of declaration.                                                    *)
BuildInterface ==
    /\ phase = "methods"
    /\ todo # {}
    /\ LET k  == First(todo)
           ms == build_iface_methods(program, registry, k)
       IN  /\ registry' = [registry EXCEPT ![k].methods = ms]
           /\ errors' = errors \cup Error(ConflictsIn(ms, program[k].members), "signature")
           /\ todo' = todo \ {k}
    /\ UNCHANGED <<program, phase, image, event>>

(* Pass B, classes: parents, cycles, the interfaces each class implements.  *)
ResolveParents ==
    /\ phase = "methods"
    /\ todo = {}
    /\ LET cs  == Decls(program, "class")
           sup(k) == Resolve(program, program[k].extends, "class")
           par == [k \in cs |-> IF sup(k) = <<>> THEN OBJECT ELSE sup(k)[1]]
           cyclic == BreakCycles(program, [k \in cs |-> {par[k]} \ {OBJECT}], {})
           imp(k) == Resolve(program, program[k].implements, "iface")
       IN  /\ registry' = [k \in DOMAIN registry |->
                  IF k \in cs
                  THEN [registry[k] EXCEPT !.parent = IF k \in cyclic THEN OBJECT ELSE par[k],
                                           !.interfaces = FlattenInterfaces(registry, Range(imp(k)))]
                  ELSE registry[k]]
           /\ errors' = errors
                \cup Error(\E k \in cs : ~Resolves(program, program[k].extends, "class"), "not a class")
                \cup Error(\E k \in cs : par[k] # OBJECT /\ program[par[k]].final, "final")
                \cup Error(cyclic # {}, "class inherits from itself")
                \cup Error(\E k \in cs : ~Resolves(program, program[k].implements, "iface"),
                           "not an interface")
           /\ todo' = cs
    /\ phase' = "members"
    /\ UNCHANGED <<program, image, event>>

(* Pass B2: slots and method tables, parents before children.               *)
BuildMembers ==
    /\ phase = "members"
    /\ todo # {}
    /\ LET k    == topo_first(registry, todo)
           info == build_class_members(program, registry, k)
       IN  /\ registry' = [registry EXCEPT ![k] = info]
           /\ errors' = errors \cup info.errs
           /\ todo' = todo \ {k}
    /\ UNCHANGED <<program, phase, image, event>>

(* Conformance of all classes, then the rules on bodies; a program with a   *)
(* diagnostic is not lowered.                                               *)
FinishCheck ==
    /\ phase = "members"
    /\ todo = {}
    /\ LET cs == Decls(program, "class")
           es == errors \cup UNION {check_conformance(registry, k) : k \in cs}
                 \cup Error(\E k \in cs : check_super_rule(program, registry, k), "super missing")
       IN  /\ errors' = es
           /\ phase' = IF es = {} THEN "lower" ELSE "rejected"
    /\ UNCHANGED <<program, todo, registry, image, event>>

lower_classes ==
    /\ phase = "lower"
    /\ image' = [k \in {OBJECT} \cup Decls(program, "class") |-> Descriptor(program, registry, k)]
    /\ phase' = "running"
    /\ UNCHANGED <<program, todo, registry, errors, event>>

-----------------------------------------------------------------------------
(* ---- the running program ----------------------------------------------------------- *)

Concrete == Decls(program, "class")
(* An expression of class type s holds an instance of r.                    *)
Upcast(r, s) == s \in Concrete /\ is_subclass(registry, r, s)

RawNames == {m.name : m \in UNION {Range(program[k].members) : k \in DOMAIN program}}
MemberNames == {QName("", n) : n \in RawNames}
OpenSets == SUBSET ({m.ns : m \in UNION {Range(program[k].members) : k \in DOMAIN program}} \ {""})

(* The tables do not change any more: one operation shows what each does.   *)
Ready == phase = "running" /\ event.op = "none"

Running(e) ==
    /\ event' = e
    /\ UNCHANGED <<program, phase, todo, registry, errors, image>>

(* s.n, s.n = v or s.n() in code of class ctx, on an instance of r: a field *)
(* is loaded or stored, an accessor or method called through its slot.      *)
class_member(ctx, s, r, n, access) ==
    /\ Upcast(r, s)
    /\ member_exists(registry, s, n)
    /\ LET mv == member_visibility(registry, s, n)
           mb == resolve_member(registry, s, n, access)
       IN  /\ check_visible(program, registry, ctx, mv[1], mv[2])
           /\ mb.r # "error"
           /\ IF mb.r = "field"
              THEN /\ access = "write" => MayAssign(registry, ctx, mb.field)
                   /\ Running([op |-> "field", recv |-> r, ctx |-> ctx, static |-> s, name |-> n,
                               access |-> access, word |-> field_ptr(mb.field.slot),
                               ty |-> image[s].slots[mb.field.slot]])
              ELSE Running([op |-> "method", recv |-> r, ctx |-> ctx, static |-> s, name |-> n,
                            access |-> access, kind |-> registry[s].vtable[mb.vslot].kind,
                            fn |-> call_virtual(image, r, mb.vslot)])

class_member_read(ctx, s, r, n)  == class_member(ctx, s, r, n, "read")
class_member_write(ctx, s, r, n) == class_member(ctx, s, r, n, "write")
class_method_call(ctx, s, r, n)  == class_member(ctx, s, r, n, "call")

AccessMember ==
    /\ Ready
    /\ \E ctx \in {NoSym} \cup Concrete, r, s \in Concrete, raw \in RawNames, open \in OpenSets :
        LET n == effective_member_name(registry, s, raw, open)
        IN  \/ class_member_read(ctx, s, r, n)
            \/ class_member_write(ctx, s, r, n)
            \/ class_method_call(ctx, s, r, n)

(* C.n, C.n = v and C.n() on the static members of class k; a static method *)
(* may also be taken as a value.                                            *)
StaticField(k, n)  == Named(registry[k].static_fields, n)
StaticMethod(k, n) == Named(registry[k].static_methods, n)

static_field(ctx, k, n) ==
    /\ StaticField(k, n) # NoSym
    /\ check_visible(program, registry, ctx, registry[k].static_fields[StaticField(k, n)].vis, k)

static_read(ctx, k, n) ==
    IF StaticField(k, n) # NoSym THEN static_field(ctx, k, n) ELSE StaticMethod(k, n) # NoSym

static_write(ctx, k, n) ==
    static_field(ctx, k, n) /\ ~registry[k].static_fields[StaticField(k, n)].const

static_call(ctx, k, n) ==
    /\ StaticMethod(k, n) # NoSym
    /\ check_visible(program, registry, ctx, registry[k].static_methods[StaticMethod(k, n)].vis, k)

StaticAccess ==
    /\ Ready
    /\ \E ctx \in {NoSym} \cup Concrete, k \in Concrete, n \in MemberNames :
        \/ static_read(ctx, k, n)  /\ Running([op |-> "static", ctx |-> ctx, access |-> "read"])
        \/ static_write(ctx, k, n) /\ Running([op |-> "static", ctx |-> ctx, access |-> "write"])
        \/ static_call(ctx, k, n)  /\ Running([op |-> "static", ctx |-> ctx, access |-> "call"])

(* i.n() on an instance of r that implements i.                             *)
CallInterface ==
    /\ Ready
    /\ \E r \in Concrete, i \in Decls(program, "iface"), n \in MemberNames, kind \in Range(Kinds) :
           /\ implements(registry, r, i)
           /\ find_iface_method(registry, i, n, kind) # NoSym
           /\ Running([op |-> "iface", recv |-> r, static |-> i, name |-> n, kind |-> kind,
                       fn |-> call_iface(image, r, i, find_iface_method(registry, i, n, kind))])

(* super.n() in a method of ctx: bound to the parent's implementation.      *)
super_call ==
    /\ Ready
    /\ \E ctx \in Concrete, n \in MemberNames :
           LET parent == registry[ctx].parent
               v      == find_vmethod(registry, parent, n, "method")
           IN  /\ v # NoSym
               /\ Running([op |-> "super", ctx |-> ctx, static |-> parent, name |-> n, kind |-> "method",
                           fn |-> Body(program, registry, registry[parent].vtable[v].fn_id)])

(* o.q::n with a namespace only known at run time.                          *)
QualifiedAccess ==
    /\ Ready
    /\ \E r \in Concrete, ns \in UNION OpenSets, raw \in RawNames :
           LET n == QName(ns, raw)
               m == find_member(image, r, n)
           IN  Running([op |-> "qualified", recv |-> r, name |-> n,
                        found |-> IF m = <<>> THEN "none" ELSE m[1].r,
                        word  |-> IF m # <<>> /\ m[1].r = "field" THEN m[1].at ELSE NoSym,
                        fn    |-> IF m # <<>> /\ m[1].r = "slot" THEN call_virtual(image, r, m[1].at)
                                  ELSE <<>>])

(* o is T, which is also the test of a catch clause; o as T; T(o).           *)
TypeTest ==
    /\ Ready
    /\ \E v \in Concrete \cup {Null, Plain}, t \in DOMAIN registry :
        Running([op |-> "is", recv |-> v, static |-> t, ok |-> any_is(image, v, t),
                 as |-> any_as(image, v, t), coerced |-> any_coerce(image, v, t)])

(* The reference conversions that need no code.                             *)
conversion(reg, from, to) ==
    LET isClass(t) == t \in Concrete \cup {OBJECT}
    IN  \/ isClass(from) /\ isClass(to) /\ is_subclass(reg, from, to)
        \/ isClass(from) /\ ~isClass(to) /\ implements(reg, from, to)
        \/ ~isClass(from) /\ ~isClass(to) /\ iface_extends(reg, from, to)
        \/ ~isClass(from) /\ to = OBJECT

(* A value of static type s is passed on as a t, untested: it was converted *)
(* to s the same way before.                                                *)
Widen ==
    /\ Ready
    /\ \E r \in Concrete, s, t \in DOMAIN registry :
        /\ conversion(registry, r, s) /\ conversion(registry, s, t)
        /\ Running([op |-> "widen", recv |-> r, static |-> t, ok |-> any_is(image, r, t)])

(* What the super(...) of each class may do in one construction.            *)
Turns == {turns \in [Concrete -> 0..MaxSuperRuns] :
             \A a \in Concrete : turns[a] \in SuperRuns(program, registry, a)}

(* new C(args): the constructor chain, with the written number of arguments.*)
new_object ==
    /\ Ready
    /\ \E k \in Concrete, given \in 0..2, turns \in Turns :
           LET sig == registry[k].ctor_sig
           IN  /\ sig.required <= given /\ (sig.variadic \/ given <= sig.params)
               /\ Running([op |-> "new", recv |-> k, turns |-> turns,
                           log |-> Construct(program, registry, k, turns),
                           passed |-> fill_method_defaults(sig, given), takes |-> ParamCount(sig)])

Next ==
    \/ collect_types \/ ResolveExtends \/ BuildInterface \/ ResolveParents \/ BuildMembers
    \/ FinishCheck \/ lower_classes
    \/ AccessMember \/ StaticAccess \/ CallInterface \/ super_call \/ QualifiedAccess \/ TypeTest \/ Widen
    \/ new_object

Spec == Init /\ [][Next]_vars

-----------------------------------------------------------------------------
(* ---- what the declarations say ------------------------------------------------------- *)

(* The declarations named after `extends`, and all that are named so on.    *)
Extended == [k \in DOMAIN program |->
                {l \in DOMAIN program : program[l].name \in Range(program[k].extends)}]
Ancestors(k) == Reach(Extended, k)

DeclaresType(r, t) ==
    \/ t = OBJECT \/ t \in Ancestors(r)
    \/ \E a \in Ancestors(r), i \in Decls(program, "iface") :
          program[i].name \in Range(program[a].implements) /\ t \in Ancestors(i)

(* The instance members n of this kind a class declares itself.             *)
Declared(k, n, kind) ==
    {j \in DOMAIN program[k].members :
        LET m == program[k].members[j]
        IN  member_name(m) = n /\ m.m = kind /\ ~m.static /\ ~IsCtor(program[k], m)}

Declarers(k, n, kind) == {a \in Ancestors(k) : Declared(a, n, kind) # {}}
NearestOf(as)         == CHOOSE a \in as : as \subseteq Ancestors(a)

(* Of two in one class the second overrides the first.                      *)
MostDerived(k, n, kind) ==
    LET a == NearestOf(Declarers(k, n, kind)) IN <<a, Max(Declared(a, n, kind))>>

-----------------------------------------------------------------------------
(* ---- properties ------------------------------------------------------------------------ *)

(* Whatever the static type a method is called through (a class, an         *)
(* interface, super, or a namespace known at run time) and the order of the *)
(* declarations, the function that runs is the declaration nearest to the   *)
(* class of the receiver.                                                   *)
DispatchIsMostDerived ==
    /\ event.op \in {"method", "iface"} => event.fn = MostDerived(event.recv, event.name, event.kind)
    /\ event.op = "super" => event.fn = MostDerived(event.static, event.name, "method")
    /\ event.op = "qualified" =>
          CASE event.found = "slot"  -> event.fn = MostDerived(event.recv, event.name, "method")
            [] event.found = "field" ->
                 event.word = field_ptr(find_field(registry, event.recv, event.name)[1].slot)
            [] event.found = "none"  ->
                 \A kind \in {"method", "field"} : Declarers(event.recv, event.name, kind) = {}

(* A field is in the same word of every instance, whatever class the access *)
(* is compiled for; the word holds the declared type, lies in the instance  *)
(* and is no other field's, nor the expando map's.                          *)
LayoutIsInherited ==
    event.op = "field" =>
        LET r     == event.recv
            decl  == NearestOf(Declarers(event.static, event.name, "field"))
            m     == program[decl].members[Max(Declared(decl, event.name, "field"))]
            other == (UNION {{member_name(program[a].members[j]) : j \in DOMAIN program[a].members} :
                             a \in Ancestors(r)}) \ {event.name}
        IN  /\ event.word \in 1..(image[r].words - 1) \ {image[r].expando}
            /\ event.ty = m.ty /\ image[r].slots[event.word - 1] = m.ty
            /\ \A n \in other : Declarers(r, n, "field") # {} =>
                   field_ptr(find_field(registry, r, n)[1].slot) # event.word

(* `is`, `as`, a checked coercion and a catch clause hold exactly for the   *)
(* types the class declares, and a widening the checker does not test at    *)
(* run time would have passed the test.                                     *)
TypeTestsFollowDeclarations ==
    /\ event.op = "is" =>
          LET v   == event.recv
              yes == v \in Concrete /\ DeclaresType(v, event.static)
          IN  /\ event.ok = yes
              /\ event.as = IF yes THEN v ELSE Null
              /\ event.coerced = IF yes \/ v = Null THEN v ELSE "TypeError"
    /\ event.op = "widen" => event.ok

(* No constructor of the chain skipped its super(...) or repeated it, which *)
(* the compiler leaves to the program: it only looks for one in the text.   *)
CallsSuperOnce == \A a \in Ancestors(event.recv) : event.turns[a] = 1

(* A new instance whose constructors call super(...) once has every field   *)
(* initializer and every constructor of its classes run once, base          *)
(* constructors first and the initializers of a class before its            *)
(* constructor; the constructor gets as many arguments as it has parameters.*)
ConstructionIsComplete ==
    event.op = "new" /\ CallsSuperOnce =>
        LET k     == event.recv
            log   == event.log
            inits == UNION {{<<"init", a, n>> : n \in
                         {member_name(m) : m \in {m \in Range(program[a].members) :
                                                     m.m = "field" /\ ~m.static}}} : a \in Ancestors(k)}
        IN  /\ Range(log) = inits \cup {<<"body", a>> : a \in Ancestors(k)}
            /\ \A i, j \in DOMAIN log : log[i] = log[j] => i = j
            /\ \A i, j \in DOMAIN log :
                  /\ log[i][1] = "init" /\ log[j] = <<"body", log[i][2]>> => i < j
                  /\ log[i][1] = "body" /\ log[j][1] = "body" /\ log[j][2] \in Ancestors(log[i][2])
                        => j <= i
            /\ event.passed = event.takes
=============================================================================
