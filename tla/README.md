# TLA+ models of the SWIG naming engine and the Perl5 backend

This directory holds TLA+ models of the symbol-naming engine of SWIG,
`src/Source/Swig/naming.c`, and of the proxy classes that the Perl5
language module `src/Source/Modules/perl5.cxx` emits, with the ownership
protocol of the emitted Perl code. TLC checks every module through the MC
module and the `.cfg` files listed below.

## The system and its parts

naming.c is a process-wide store of naming state. The parser and the
language modules (perl5.cxx and the others) call it in one thread, in the
order in which declarations are read. Its parts:

| Part | Code (naming.c) | What it does |
|---|---|---|
| Naming-format registry | 19-387 | Formats such as `%c_%f_get` per role; name builders (wrapper, member, get/set, construct, copyconstructor, destroy, disown). |
| Identifier mangler | 44-140 | `name_mangle`: turns any string into a C identifier. |
| Rule store | 396-571, 780-1202 | `%rename` / `%namewarn` rules, kept in a hash (keyed by scoped name and declarator) or a fallback list (rules with match predicates or source formats). It also covers default-argument expansion and inheritance of rules from base classes. |
| Lookup cascade | 451-525 | `Swig_name_object_get`: for a (prefix, name, decl) it tries the scoped, template, template-prefix, wildcard-scope, global and catch-all keys in a fixed order. |
| Name resolution | 1119-1156, 1204-1283 | `Swig_name_make`: applies the rename, then checks the namewarn rules, emits the warning once and applies the namewarn rename. |
| Feature cascade | 573-777 | `%feature` attachment and lookup, most specific wins. |
| Redefinition checker | 839-961 | `nodes_are_equivalent`, `Swig_need_redefined_warn`. |

perl5.cxx reads the names and features that the engine computes. Through
`Swig_name_*` it registers the Perl wrapper formats, and it emits glue code.
In `-proxy` mode it also writes a `.pm` file with one package per wrapped
class. The run-time behaviour of that package is part of what perl5.cxx
decides:

| Part | Code (perl5.cxx) | What it does |
|---|---|---|
| Class emission | 1081-1243 | `classHandler` opens a class package, the member handlers add subs to it, and the end of `classHandler` writes `@ISA`, the subs, `DISOWN` and `ACQUIRE`. |
| Constructors | 1394-1432 | Only the last overload writes `sub new` (or `new_<name>` for a renamed constructor). It records `$self` in the `%OWNER` hash of its own package and blesses the proxy into the caller's package. |
| Destructor | 1434-1458 | `sub DESTROY` deletes the C++ object when `$self` is in the `%OWNER` hash of the package that defines `DESTROY`. |
| Member data | 1208-1236, 1353-1380 | `membervariableHandler` adds `swig_<m>_get`/`_set` and lists members of wrapped class type in `%BLESSEDMEMBERS`. A class with data members gets `FETCH`, which ties such a member into a proxy without an `OWNER` entry, and `STORE`. |
| Method and function stubs | 675-770, 1247-1333, 1460-1507 | Only the last overload of a method, static method or global function writes its Perl stub. The C dispatcher runs whichever overload fits the arguments. A stub whose return type has a proxy class records the result in `%OWNER` when that last overload returns by value or is `%newobject`, and ties the result into a proxy. |

## Modules

* `SwigString.tla` models the strings of naming.c as sequences of atoms:
  identifiers, `"::"`, template argument lists `"<(int)>"`, `"*"`, `"~"`
  and `"%s"`.
  * Concatenation reproduces the C keys, so `Scoped(<<"A">>, <<"foo">>)`
    equals the name `"A::foo"`.
  * `Sprintf` models `NewStringf`.
  * The SwigType helpers (`SwigType_istemplate`, `SwigType_templateprefix`,
    `Swig_scopename_last`) are not part of the sources and are modelled from
    the spec.
* `RenameEngine.tla` models the rule store and name resolution.
  * **State:**
    * `renameHash` / `namewarnHash` map a key to a map from declarator to
      rule.
    * `renameList` / `namewarnList` are sequences of object ids into `objs`.
      The ids stand for the DOH objects, which are shared and mutated in
      place.
    * `namewarnMade` is true once a namewarn store exists; it drives the
      fast path of `Swig_name_make`.
    * `warned` is the set of nodes whose own name carries the
      `already_warned` mark.
    * `symName` is the last resolved name per node.
  * **History variables** feed the properties: `issued`, `inherited` and
    `warnings`.
  * **Actions**, one per API entry point:
    * `RenameAdd` is `Swig_name_rename_add`, with the default-argument
      variants (`Elisions`).
    * `NamewarnAdd` is `Swig_name_namewarn_add`.
    * `Inherit` is `Swig_name_inherit`, applied to both hashes.
    * `NameMakeUnchecked` is the fast path of `Swig_name_make`.
    * `NameMake` is the full path, with `NamewarnGet`, `ApplyRename` and the
      `already_warned` mark.
  * **Operators:** the lookup cascade `ObjectGet` is a RECURSIVE operator
    that translates lines 451-525 step by step.
  * **Keyword attachment:** a directive arrives with its rule object and
    its keyword list. `AttachKeys` (`Swig_name_object_attach_keys`) turns
    the list into attributes and match predicates, using the key set of the
    store (`RenameKeys`, `NamewarnKeys`). A keyword is abstracted to its
    key, the part of its name after `$`, and its value.
* `MCRenameEngine.tla` gives the concrete scenarios: nodes, directives and
  inheritance edges.

* `NamingFormats.tla` models the format registry, the name builders and
  `name_mangle`.
  * **State:** `naming` (the `naming_hash`: role to registered format or
    none) and `last`, the last name built with its role and arguments.
  * **Actions:** `Register` / `Unregister` (`Swig_name_register`,
    `Swig_name_unregister`) and one `Build*` action per builder. The copy
    constructor reads the `"construct"` entry with its own `copy_%c` default.
  * **Operators:** `CName` (canonical class name less its `struct` /
    `class` / `union` tag), `Scopes` and `MangleChar` / `NameMangle` (the 20
    entries of the substitution table, `'_'` for any other character, the
    `"___"` mark).
  * `MCNamingFormats.tla` supplies 7 roles, custom formats for four of them,
    and scoped, operator, destructor, tagged and template names.
* `Features.tla` models `Swig_feature_set` and `Swig_features_get`.
  * **State:** `features` (name key to declarator key to attribute bag),
    `defined` (templates the symbol table knows, which decide
    `Swig_symbol_template_deftype`), `attached` (attributes merged onto each
    node), and the history variables `gets` and `setDone`.
  * **Actions:** `FeatureSet(d)` (with the mirror entry for the
    default-argument form of a template name), `DeclareTemplate(t)`, and
    `FeaturesGet(n)` (the global entry, then the cascade of `CascadeKeys`,
    then the whole lookup again for the default-argument form).
  * `MCFeatures.tla` supplies directives on global, catch-all, class,
    template-class and member keys, with and without a declarator, including
    a removal.
* `Redefinition.tla` models `nodes_are_equivalent` and
  `Swig_need_redefined_warn` as operators. `Check(a, b, inClass)` asks one
  redefinition question. `MCRedefinition.tla` supplies thirteen declarations
  that take every branch: typedefs, static, friend, return type, parameter
  count, template origin, rename, `%constant`, and another node type.

* `Perl5Proxy.tla` models the proxy classes and their ownership protocol.
  * **Emission state:** `done`, `cur`, `pending` (member nodes still to be
    handled), `pcode` (the subs written so far), `bmembers` and `nData`
    (`blessedmembers`, `have_data_members`), with `pm`, the packages of the
    `.pm` file (`@ISA`, `%BLESSEDMEMBERS` and the set of subs). The actions
    are `ClassBegin`, `ConstructorHandler`, `DestructorHandler`,
    `MembervariableHandler`, `MemberfunctionHandler`,
    `StaticmemberfunctionHandler` and `ClassEnd`. Outside classes,
    `FunctionWrapper` writes the stubs of global functions (`gpending`,
    `gstubs`). `stubs`, and the `stubs` field of a package, keep the
    function node whose stub was written: the last overload.
    Subs are names only; their text is abstracted away.
  * **Run-time state:**
    * `proxy` maps a scalar address to the live proxy there: its object,
      the class its pointer is tagged with (the `OWNER` key), and the
      package it is blessed into, and whether it is a member proxy.
    * `owner` maps a package to its `%OWNER` hash.
    * `obj` gives each C++ object its state and class.
    * The history variables `dels`, `ownerSV` and `obj[o].holder` record
      what the Perl user means: who owns the object, and how often it was
      deleted.
  * **Run-time actions:**
    * `New` (`P->new`, the constructor found along `@ISA`);
    * `Call(w, g, s, t, o)`: the stub of `w`, found along `@ISA` from the
      invocant `s` for a method, runs the overload `g` that the dispatcher
      picks (`Overload`). A new object (`Creates(g)`) or a live object of
      `g`'s return class is tied into a new proxy `t`, keyed by that class.
      It is recorded in `%R::OWNER` when `Records(w)` holds, where `R` is
      `w`'s return class;
    * `Disown`, `Acquire` and `Destroy` (`DESTROY` found along `@ISA`,
      deleting through `WillDelete`);
    * `Fetch` (`$x->{m}`: the `FETCH` found from the tie class, with the
      `%BLESSEDMEMBERS` of the package defining it; a member of class type
      becomes a proxy on the storage of its container);
    * `CppDelete` (C++ deleting an object it holds).
  * The user sends DISOWN only through the owning proxy and ACQUIRE only
    through a proxy of a whole object. `ACQUIRE` on a member proxy would
    make Perl own a sub-object.
  * Methods resolve along `@ISA` (`Resolve`), and a pointer converts to
    its bases (`IsA`).
  * Scalar addresses come from a small set `SVs`. A freed address can be
    given to the next proxy: the allocator's reuse is a nondeterministic
    choice.
* `Ownership.tla` is the abstract protocol that the emitted code promises.
  * **State:** `status`, `cls`, `ref` (proxy to object), and `owns`
    (object to the proxy whose end deletes it, or none when C++ holds it).
  * **Actions:** `Create`, `Wrap`, `GiveAway`, `TakeBack`, `CppFree` and
    `Drop`.
  * `Perl5Proxy` instantiates it as `Abstract`. Its refinement mapping
    reads the owner from the implementation's bookkeeping, not from the
    history: `OwnerOf(o)` is the proxy of `o` whose `DESTROY` would delete
    it, by the `%OWNER` hashes and `@ISA`.
* `MCPerl5Proxy.tla` gives two hierarchies:
  * **Wrapped:** Base with two overloaded constructors and a destructor;
    Derived : Base with its own constructor and destructor; and Opaque,
    which has neither. Base has a member `inner` of type Opaque and a plain
    member `count`. Derived has no data members, so it inherits Base's
    `FETCH`. `Base::clone` returns a Base by value. `Base::peer` returns
    a `Base *` (an alias of a live object). The static `Derived::make` is
    a `%newobject` factory. The global `lookup` returns a `Base *`.
  * **Leaf:** Leaf : Derived, which has no wrapped constructor or
    destructor.

## Runs

The RenameEngine runs use `MaxObjs = 2` (list objects) and
`MaxResolves = 2` (how often one node may be resolved). These bounds let a rule be added to the
list twice and a node be resolved twice. Resolving twice is exactly what
"warn once" is about. Every action may run in any order, so rules,
inheritance and resolutions interleave in every way that the parser's
declaration order allows.

| Run | Expect | What it shows |
|---|---|---|
| `rename_store` (`MCRenameEngine.cfg`) | pass | Hash rules, including one with a defaulted argument, a derived-scope rule, inheritance A→B, and namewarn rules in the hash and the list. These rules are added in any order and nodes are resolved twice. Every registered rename stays reachable (`RegisteredRenameFound`). About 40,000 states. |
| `listrule_default_args` | violation | A `%rename` with `match=` on `foo(int, int = 0)` stops matching `foo(int, int)`. |
| `listrule_scoped` | violation | A `%rename` on `A::foo` with `match="cdecl"` and `fullname=1` never matches the member: `Swig_name_object_get` reads the fullname flag from the list, not from the rule. |
| `derived_override` | violation | An inherited `A::foo(int)` rule beats B's own `B::foo` rule. |
| `warn_repeat` | violation | After a rename, the namewarn warning repeats on every resolution. |
| `formats` (`MCNamingFormats.cfg`) | pass | Registering, unregistering and every builder interleave. A wrapper name is always a C identifier (`WrapperIsIdentifier`). Each built name equals the spec 4.2 name, recomputed independently (`BuildersMatchSpec`). |
| `mangle_scope_mark` | violation | `"A::f"` mangles to `A_f` without the `"___"` mark, so its wrapper equals that of a function `A_f`. |
| `features` (`MCFeatures.cfg`) | pass | Directives, template declarations and lookups interleave. After every `Swig_features_get`, a node holds for each attribute the value of the most specific entry that applies (`MostSpecificWins`). The expected value is computed independently of the code's lookup cascade: every stored key is ranked by its shape, following spec 4.5 (global, plain name, `prefix::`, `*::name`, template class, exact scope), and the highest-ranked entry wins. About 100,000 states. |
| `features_deftype` | violation | The default-argument pass repeats the global and class entries and overrides a member-specific feature set on `A::bar<int>`. |
| `redefinition` (`MCRedefinition.cfg`) | pass | For every ordered pair of the 13 declarations, in a class and outside one, the warning follows spec 4.6 (`WarnMatchesSpec`). Outside a class, the warning does not depend on which declaration was read first (`WarnIndependentOfOrder`). |
| `perl5_ownership` (`MCPerl5Proxy.cfg`) | pass | In the Wrapped hierarchy, emission is followed by every interleaving of constructors, method, static and global stubs (by-value copies, `%newobject` results and aliases of owned objects), member fetches, DISOWN, ACQUIRE, DESTROY, C++ deletes and address reuse. No object is deleted twice (`NoDoubleDelete`). The emitted code implements `Ownership` (`OwnershipRefined`). An object Perl holds and can delete is eventually deleted unless it is disowned (`NoLeak`). About 3,600 states. |
| `perl5_inherited_new` (`MCPerl5Proxy_leaf.cfg`) | violation | `Leaf->new` runs Derived's `new`, which records the entry in `%Derived::OWNER`. `Leaf::DISOWN` then misses it, so after C++ deletes the object, `DESTROY` deletes it again. |

The Perl5 runs use two scalar addresses and two objects. Two addresses are
the fewest with which a freed address can be reused while another proxy is
live. Two objects let a stale `%OWNER` entry hit a different object. The
hierarchies give two levels of `@ISA`, overloads, a class without a
destructor, and a class that inherits `new` and `DESTROY`.

The violation runs are recorded as findings in `PROJECT.json`:

* three code bugs: the aliased list object, the fullname flag read from
  the list, and the OWNER entry of an inherited Perl constructor;
* three divergences from the spec: rule precedence, warn-once, and the
  features default-argument pass;
* one gap in the spec: the mangler's "::" replacement does not set the
  mark.

Each property of a passing run has a mutant, a plausible bug in a mapped
definition, which TLC must catch. The mutants are:

* `NamewarnAddUnretained` and `ElisionsFirstParm`
  (RenameEngine);
* `GetterWrongPlaceholder`, `MangleCharNoDefault` and `CNameNoUnion`
  (NamingFormats);
* `SetInBagBareAttrs` and `CascadeKeysNameAfterScope` (Features);
* `MayCompareNoFriend` and `StaticMismatchOfA` (Redefinition);
* `DisownNoDelete`, `DeleteKeepEntry` and `NewUnrecorded`
  (Perl5Proxy).

`Features` runs with `MaxGets = 1`. One lookup per node is enough, because
the lookup is a function of the store; the interleavings that matter are
those of lookups with directives and template declarations. They cover
every order of the eight directives.

## Fairness

The naming engine is a sequential library called by the parser. Nothing
in it waits or retries, so its models carry no fairness and state no
liveness properties.

Perl5Proxy's `FairSpec` adds weak fairness on each `Destroy(s)`, and
nothing else. Perl frees a proxy when its last reference goes. At the
latest, `perl_destruct`'s global destruction calls `DESTROY` on every
blessed object that remains. So a live proxy is released in the end. The
user's own calls (new, DISOWN, ACQUIRE) and C++'s deletes get no fairness.
`NoLeak` is checked under this assumption.

The cfgs of RenameEngine, Features, Redefinition and Perl5Proxy set
`CHECK_DEADLOCK FALSE`. Those models stop once their bounded inputs (nodes,
objects, addresses) are used up, just as the program stops at the end of
its input. NamingFormats can always register or build another name, so its
runs check for deadlock.

## Plan

1. Done:
   * SwigString, RenameEngine, NamingFormats, Features and Redefinition,
     with their MC modules;
   * the runs above.
2. Extend RenameEngine:
   * (a) a reference cascade in the spec's order, with template and
     destructor nodes, checked against `ObjectGet`; covers the template
     retry at naming.c:484.
   * (b) the order in which the hash is iterated during inheritance.
3. Features: `Swig_feature_set` on attributes that come from different
   directives (naming.c:758); an inherited-feature scenario.
4. Perl5Proxy:
   * DISOWN sent through an alias (perl5.cxx:1298), which needs a
     violation run of its own;
   * `FETCH` shadowing (perl5.cxx:1214): a derived class with a data
     member of its own gets a `FETCH` that does not know the base's members
     of class type. With such a member, Derived's `FETCH` returns `inner`
     untied. A passing property about fetched members could only hold in a
     hierarchy without this case, so none is checked; it needs a violation
     run of its own.
   * Overloads with different return kinds (perl5.cxx:1258): the stub's
     `%OWNER` test comes from the last overload only. With a pointer
     overload of `clone` before the by-value one, `NoDoubleDelete` fails
     (649 states). This needs a violation run of its own.
5. The project uses all twelve of its runs. A new violation run has to
   replace an existing one. The candidates are the template retry, an
   alias DISOWN, FETCH shadowing and mixed overloads.
   The fast-path divergence of `Swig_name_make` (naming.c:1243) gave up
   its run: `%namewarn` keyword rules of the language libraries mask it in
   real runs.

## Not modelled

* Text layout of generated code.
* Option parsing in perl5.cxx (`main`), the assembly of the output files
  (`top`), and the text of the function, variable and constant wrappers.
  These are I/O and string building; the model keeps only the subs that
  decide ownership.
* `STORE`: it passes `tied(%$new)` to the member setter, which copies the
  object into the member. It changes no ownership.
* Operator overloading (`use overload` for `==`, `!=`, `=`): text that
  forwards to methods.
* Proxies of global variables and constants of class type
  (`variableWrapper`, `constantWrapper`). They are tied at load without an
  `OWNER` entry, the same way `Call` ties a pointer result.
* Static member variables and member constants
  (`staticmembervariableHandler`, `memberconstantHandler`). They are glob
  aliases and have no ownership effect.
* The operator entries that `memberfunctionHandler` collects for
  `use overload`.
* `$`-paths of match predicates deeper than one attribute.
* Undefined `%s` counts in rename formats.
