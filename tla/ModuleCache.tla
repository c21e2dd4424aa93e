---------------------------- MODULE ModuleCache ----------------------------
(***************************************************************************)
(* p0rt/module_cache.cpp: modules by name, each with a value or a loader   *)
(* that yields one when the module is imported first.  A loader is C++     *)
(* code that may import other modules, register some, throw, and catch     *)
(* what the imports it makes throw.                                        *)
(***************************************************************************)
EXTENDS Naturals, Sequences

CONSTANTS
  Name,     \* module names
  Value,    \* what a module can evaluate to
  Null      \* run::value()

ASSUME NullAssumption == Null \in Value

VARIABLES
  registered,  \* the keys of m_modules
  loaders,     \* those whose lazy_module::load is not empty
  cached,      \* lazy_module::cached
  loading,     \* those with is_being_loaded
  running,     \* the modules whose loaders run, innermost last
  throwing,    \* an exception propagates
  imported     \* history: what get_module returned for which name

vars == <<registered, loaders, cached, loading, running, throwing, imported>>

Init ==
  /\ registered = {} /\ loaders = {} /\ loading = {}
  /\ cached = [name \in Name |-> Null]
  /\ running = <<>>
  /\ throwing = FALSE
  /\ imported = {}

Importing(name) == running[Len(running)] = name
Pop(s) == [i \in 1 .. Len(s) - 1 |-> s[i]]

(* Mutant: the new module replaces the old one. *)
AddModuleAgain(name, value, withLoader) ==
  /\ ~throwing
  /\ registered' = registered \cup {name}
  /\ loaders' = IF withLoader THEN loaders \cup {name} ELSE loaders \ {name}
  /\ cached' = [cached EXCEPT ![name] = value]
  /\ UNCHANGED <<loading, running, throwing, imported>>

(* add_module with a value (lazy_module(value)) or a loader. *)
AddModule(name, value, withLoader) ==
  /\ ~throwing
  /\ withLoader => value = Null
  /\ IF name \in registered
       THEN throwing' = TRUE /\ UNCHANGED <<registered, loaders, cached>>
       ELSE /\ registered' = registered \cup {name}
            /\ loaders' = IF withLoader THEN loaders \cup {name} ELSE loaders
            /\ cached' = [cached EXCEPT ![name] = value]
            /\ UNCHANGED throwing
  /\ UNCHANGED <<loading, running, imported>>

(* get_module of a name that is not registered yields null. *)
GetUnknown(name) ==
  /\ ~throwing
  /\ name \notin registered
  /\ imported' = imported \cup {<<name, Null>>}
  /\ UNCHANGED <<registered, loaders, cached, loading, running, throwing>>

(* module_load_lock: an import of a module that is being loaded. *)
GetCyclic(name) ==
  /\ ~throwing
  /\ name \in registered \cap loading
  /\ throwing' = TRUE
  /\ UNCHANGED <<registered, loaders, cached, loading, running, imported>>

GetCached(name) ==
  /\ ~throwing
  /\ name \in registered \ loading
  /\ cached[name] # Null
  /\ imported' = imported \cup {<<name, cached[name]>>}
  /\ UNCHANGED <<registered, loaders, cached, loading, running, throwing>>

(* Calling an empty std::function throws std::bad_function_call. *)
GetWithoutLoader(name) ==
  /\ ~throwing
  /\ name \in registered \ (loading \cup loaders)
  /\ cached[name] = Null
  /\ throwing' = TRUE
  /\ UNCHANGED <<registered, loaders, cached, loading, running, imported>>

(* Mutant: no module_load_lock. *)
StartUnlocked(name) ==
  /\ ~throwing
  /\ name \in registered \cap loaders
  /\ Len(running) < 3
  /\ cached[name] = Null
  /\ loading' = loading \cup {name}
  /\ running' = Append(running, name)
  /\ UNCHANGED <<registered, loaders, cached, throwing, imported>>

StartLoading(name) ==
  /\ ~throwing
  /\ name \in (registered \cap loaders) \ loading
  /\ cached[name] = Null
  /\ loading' = loading \cup {name}
  /\ running' = Append(running, name)
  /\ UNCHANGED <<registered, loaders, cached, throwing, imported>>

(* The loader returns: the value is cached, the lock released, and the     *)
(* importer gets what is cached now.                                       *)
FinishLoading(name, value) ==
  /\ ~throwing
  /\ running # <<>> /\ Importing(name)
  /\ cached' = [cached EXCEPT ![name] = value]
  /\ loading' = loading \ {name}
  /\ running' = Pop(running)
  /\ imported' = imported \cup {<<name, value>>}
  /\ UNCHANGED <<registered, loaders, throwing>>

(* A loader throws, or lets an exception of its own imports through. *)
LoaderThrows ==
  /\ ~throwing
  /\ running # <<>>
  /\ throwing' = TRUE
  /\ UNCHANGED <<registered, loaders, cached, loading, running, imported>>

(* Mutant: the flag is reset only after a loader that returned. *)
UnwindLocked(name) ==
  /\ throwing
  /\ running # <<>> /\ Importing(name)
  /\ running' = Pop(running)
  /\ UNCHANGED <<registered, loaders, cached, loading, throwing, imported>>

(* Mutant: a module that could not be loaded is erased, its loader is not. *)
UnwindErasing(name) ==
  /\ throwing
  /\ running # <<>> /\ Importing(name)
  /\ registered' = registered \ {name}
  /\ loading' = loading \ {name}
  /\ running' = Pop(running)
  /\ UNCHANGED <<loaders, cached, throwing, imported>>

(* ~module_load_lock *)
Unwind(name) ==
  /\ throwing
  /\ running # <<>> /\ Importing(name)
  /\ loading' = loading \ {name}
  /\ running' = Pop(running)
  /\ UNCHANGED <<registered, loaders, cached, throwing, imported>>

(* The loader that made the failed call catches, or the host. *)
Catch ==
  /\ throwing
  /\ throwing' = FALSE
  /\ UNCHANGED <<registered, loaders, cached, loading, running, imported>>

Next ==
  \/ \E name \in Name, value \in Value, withLoader \in BOOLEAN :
       AddModule(name, value, withLoader)
  \/ \E name \in Name :
       \/ GetUnknown(name) \/ GetCyclic(name) \/ GetCached(name)
       \/ GetWithoutLoader(name) \/ StartLoading(name)
  \/ \E name \in Name, value \in Value : FinishLoading(name, value)
  \/ LoaderThrows
  \/ \E name \in Name : Unwind(name)
  \/ Catch

Spec == Init /\ [][Next]_vars

-----------------------------------------------------------------------------
TypeOK ==
  /\ registered \subseteq Name /\ loaders \subseteq registered
  /\ cached \in [Name -> Value]
  /\ loading \subseteq registered
  /\ running \in Seq(registered)
  /\ throwing \in BOOLEAN
  /\ imported \subseteq Name \X Value

(* A module counts as being loaded exactly while its loader is on the      *)
(* stack, and is there once: nesting ends after as many loaders as there   *)
(* are modules, and no failed load makes a module unusable.                *)
FlagsMatchStack ==
  /\ loading = {running[i] : i \in DOMAIN running}
  /\ \A i, j \in DOMAIN running : running[i] = running[j] => i = j

(* All importers of a module share one value: what get_module returned     *)
(* once, other than null, is what the cache still holds.                   *)
ImportsAgree ==
  \A import \in imported : import[2] # Null => import[2] = cached[import[1]]

Table == INSTANCE ModuleTable WITH
           present <- registered, content <- cached, initialising <- loading

ImplementsModuleTable == Table!Spec
=============================================================================
