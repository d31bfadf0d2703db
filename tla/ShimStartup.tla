---------------------------- MODULE ShimStartup ----------------------------
(***************************************************************************)
(* super_agentic_agents.py, the compatibility shim that exports the public *)
(* names of the package src.agents under its old name.  A startup runs at  *)
(* the first import, again at a reload, and again when _startup is called. *)
(* Between startups the package may be loaded anew, with other contents.   *)
(***************************************************************************)

CONSTANTS
    Names,           \* the names that somebody may export
    FallbackNames,   \* _FALLBACK_PUBLIC_SYMBOLS
    NoList           \* the package has no __all__

ASSUME ShimAssumption ==
    FallbackNames \subseteq Names /\ \A S \in SUBSET Names : NoList # S

VARIABLES
    package,          \* src.agents as the next import finds it
    bound,            \* globals(): whether a name is absent, bound from the package
                      \* as it is, or from what it was before ("stale")
    exported,         \* __all__
    importErrors,     \* the keys of _import_errors
    importComplete,   \* _IMPORT_COMPLETE
    startup           \* the startup that is running, or how the last one ended

shimVars == <<package, bound, exported, importErrors, importComplete, startup>>

\* Importing a module succeeds, raises ImportError, or another exception; so does
\* getattr of a name of the package, or it raises AttributeError.
Import == {"ok", "__package__", "__unexpected__"}
Absence == [n \in Names |-> "missing"]
Packages ==
    [import : {"ok"}, lookup : [Names -> Import \cup {"missing"}],
     announces : (SUBSET Names) \cup {NoList}, submodules : Import]
    \cup [import : Import \ {"ok"}, lookup : {Absence}, announces : {{}}, submodules : {"ok"}]

Unbound == [n \in Names |-> "absent"]
NotLoaded ==
    [pc |-> "none", first |-> TRUE, strict |-> TRUE, validate |-> TRUE, success |-> FALSE]

ShimInit ==
    /\ package \in Packages
    /\ bound = Unbound
    /\ exported = {}
    /\ importErrors = {}
    /\ importComplete = FALSE
    /\ startup = NotLoaded

AtRest == startup.pc \in {"none", "ready", "raised"}

\* The package is loaded anew: what has been bound from it is stale.
Repackage(p) ==
    /\ AtRest
    /\ package' = p
    /\ bound' = [n \in Names |-> IF bound[n] = "current" THEN "stale" ELSE bound[n]]
    /\ UNCHANGED <<exported, importErrors, importComplete, startup>>

\* import of the shim, or importlib.reload of it, which keeps its globals but
\* for those its body assigns; the flags are read from the environment.
ImportShim(strict, validate) ==
    /\ AtRest
    /\ exported' = {}
    /\ importErrors' = {}
    /\ importComplete' = FALSE
    /\ startup' = [pc |-> "import", first |-> startup.pc = "none",
                   strict |-> strict, validate |-> validate, success |-> FALSE]
    /\ UNCHANGED <<package, bound>>

\* _startup() once more
CallStartup(strict, validate) ==
    /\ startup.pc \in {"ready", "raised"}
    /\ startup' = [pc |-> "import", first |-> FALSE,
                   strict |-> strict, validate |-> validate, success |-> FALSE]
    /\ UNCHANGED <<package, bound, exported, importErrors, importComplete>>

-----------------------------------------------------------------------------
(* _safe_import_from_package, and the assignment to __all__ that follows   *)

\* _get_expected_symbols
ExpectedSymbols == IF package.announces = NoList THEN FallbackNames ELSE package.announces

Missing == {n \in ExpectedSymbols : package.lookup[n] = "missing"}

\* The names at which the loop over the symbols breaks off.
Breaking == {n \in ExpectedSymbols : package.lookup[n] \in {"__package__", "__unexpected__"}}

\* Faulty variant of Listed: the names that are written down in the shim.
ListedByHand == FallbackNames

\* _DYNAMIC_SYMBOLS, which become __all__
Listed == ExpectedSymbols

\* Faulty variant of Bindings: every name is bound as soon as it is found.
BindingsOneByOne ==
    [n \in Names |-> IF n \in ExpectedSymbols \ Missing THEN "current" ELSE bound[n]]

\* globals().update(imported), unless a name is missing
Bindings ==
    IF Missing # {} THEN bound
    ELSE [n \in Names |-> IF n \in ExpectedSymbols THEN "current" ELSE bound[n]]

\* Faulty variant of Failures: only the names that are missing.
MissingOnly == Missing

\* One missing name is an error of all.
Failures == IF Missing = {} THEN {} ELSE ExpectedSymbols

\* Faulty variant of Success: it is a success to have imported some of the names.
SomeImported == ExpectedSymbols \ Missing # {}

\* What _safe_import_from_package returns, and what _startup decides by.
Success == Missing = {}

ImportSymbols ==
    /\ startup.pc = "import"
    /\ package.import = "ok"
    /\ Breaking = {}
    /\ exported' = Listed
    /\ bound' = Bindings
    /\ importErrors' = Failures
    /\ importComplete' = (Missing = {})
    /\ startup' = [startup EXCEPT !.pc = "check", !.success = Success]
    /\ UNCHANGED package

\* The import of the package raises, or the lookup of a name, which may come
\* after the lookups of some that are missing.
ImportRaises ==
    /\ startup.pc = "import"
    /\ \/ package.import # "ok" /\ importErrors' = {package.import}
       \/ /\ package.import = "ok"
          /\ \E n \in Breaking, before \in SUBSET Missing :
                importErrors' = before \cup {package.lookup[n]}
    /\ exported' = FallbackNames
    /\ importComplete' = FALSE
    /\ startup' = [startup EXCEPT !.pc = "check"]
    /\ UNCHANGED <<package, bound>>

-----------------------------------------------------------------------------
(* The rest of _startup                                                    *)

\* is_shim_fully_functional
FullyFunctional == importErrors = {} /\ importComplete

\* "if not success: ... if strict_mode: raise"
MustRaise == startup.strict /\ ~startup.success

\* A module whose first import raises is not kept in sys.modules.
Raise ==
    /\ IF startup.first
       THEN /\ startup' = NotLoaded
            /\ bound' = Unbound
            /\ exported' = {}
            /\ importErrors' = {}
            /\ importComplete' = FALSE
       ELSE /\ startup' = [startup EXCEPT !.pc = "raised"]
            /\ UNCHANGED <<bound, exported, importErrors, importComplete>>
    /\ UNCHANGED package

Proceed(pc) ==
    /\ startup' = [startup EXCEPT !.pc = pc]
    /\ UNCHANGED <<package, bound, exported, importErrors, importComplete>>

AfterImport ==
    /\ startup.pc = "check"
    /\ \/ MustRaise /\ Raise
       \/ ~MustRaise /\ startup.validate /\ Proceed("validate")
       \/ ~MustRaise /\ ~startup.validate /\ Proceed("ready")

\* validate_shim_integrity, up to the import of the package
PresentOnShim == \A n \in exported : bound[n] # "absent"

PresentOnPackage == package.import = "ok" /\ \A n \in exported : package.lookup[n] = "ok"

\* hasattr passes on what is not an AttributeError.
LookupRaises(error) == package.import = "ok" /\ \E n \in exported : package.lookup[n] = error

\* Only ImportErrors are expected of the package and the submodules: another
\* exception passes through validate_all_modules and _startup.
Unexpected ==
    /\ PresentOnShim
    /\ \/ package.import = "__unexpected__"
       \/ LookupRaises("__unexpected__")
       \/ PresentOnPackage /\ package.submodules = "__unexpected__"

Intact == PresentOnShim /\ PresentOnPackage /\ package.submodules = "ok"

\* Of two names whose lookups raise differently, either may come first.
Rejected == ~Intact /\ (Unexpected => LookupRaises("__package__"))

Validate ==
    /\ startup.pc = "validate"
    /\ \/ Unexpected /\ Raise
       \/ Rejected /\ startup.strict /\ Raise
       \/ (Intact \/ (Rejected /\ ~startup.strict)) /\ Proceed("ready")

ShimNext ==
    \/ \E p \in Packages : Repackage(p)
    \/ \E strict, validate \in BOOLEAN :
            ImportShim(strict, validate) \/ CallStartup(strict, validate)
    \/ ImportSymbols
    \/ ImportRaises
    \/ AfterImport
    \/ Validate

ShimSpec == ShimInit /\ [][ShimNext]_shimVars

-----------------------------------------------------------------------------

\* "failed atomically" (_safe_import_from_package): names are bound all together
\* or not at all, so that whenever a binding is made, every name of __all__ is
\* bound from one and the same package.  Bindings otherwise only age or go with
\* the module.
AtomicExport ==
    [][\A n \in Names :
        bound'[n] = "current" /\ bound[n] # "current"
            => importComplete' /\ \A m \in exported' : bound'[m] = "current"]_shimVars

\* "are all exported symbols available?" (is_shim_fully_functional): no stale
\* flag, error or name of an earlier startup makes it answer yes when some name of __all__ is
\* not there, or when two names are from different packages.
FunctionalMeansAvailable ==
    FullyFunctional =>
        \E age \in {"current", "stale"} : \A n \in exported : bound[n] = age

\* "hard-fail vs. graceful degradation": a strict startup, which decides by what
\* the import returned, has left flags and errors that agree with that when it
\* returns, on every path of the import and however the startups before it ended:
\* is_shim_fully_functional answers yes.
StrictStartup ==
    startup.pc = "ready" /\ startup.strict => FullyFunctional

\* A name of __all__ that is not there is one that __getattr__ explains, unless
\* the package as a whole has failed to import.
AbsenceExplained ==
    importErrors \cap Import = {} =>
        \A n \in exported : bound[n] = "absent" => n \in importErrors

=============================================================================
