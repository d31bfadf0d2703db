------------------------- MODULE ShimStartupProofs -------------------------
(***************************************************************************)
(* The promises of the compatibility shim, for all sets of names: whatever *)
(* is exported by the package, however its imports fail, and whatever      *)
(* startups, reloads and new versions of the package follow each other.    *)
(***************************************************************************)
EXTENDS ShimStartup, TLAPS

Ages == {"absent", "stale", "current"}

ShimTypes ==
    /\ package \in Packages
    /\ bound \in [Names -> Ages]
    /\ exported \in SUBSET Names
    /\ startup \in [pc : {"none", "import", "check", "validate", "ready", "raised"},
                    first : BOOLEAN, strict : BOOLEAN, validate : BOOLEAN,
                    success : BOOLEAN]

\* A complete import has bound every name of __all__, from one package.
OneAge ==
    importComplete =>
        \E age \in {"current", "stale"} : \A n \in exported : bound[n] = age

\* What the import has returned agrees with the flags and the errors it leaves;
\* an import that is under way has not succeeded.
ReturnAgrees ==
    /\ startup.pc = "import" => ~startup.success
    /\ startup.pc \in {"check", "validate", "ready"} /\ startup.success => FullyFunctional

\* A strict startup goes on only after an import that has returned True.
StrictSoFar ==
    startup.pc \in {"validate", "ready"} /\ startup.strict => startup.success

ShimInv == ShimTypes /\ OneAge /\ ReturnAgrees /\ StrictSoFar /\ AbsenceExplained

-----------------------------------------------------------------------------

LEMMA ExpectedAreNames ==
    ASSUME ShimTypes
    PROVE  package.import = "ok" => ExpectedSymbols \in SUBSET Names
  BY ShimAssumption DEF ShimTypes, Packages, ExpectedSymbols, Import

\* A binding that is made is one of all names of __all__.
LEMMA BindingsAreAtomic ==
    ASSUME ShimTypes, ImportSymbols
    PROVE  \/ Missing = {} /\ importComplete' /\ \A n \in exported' : bound'[n] = "current"
           \/ Missing # {} /\ ~importComplete' /\ bound' = bound
  <1>1. exported' = ExpectedSymbols /\ ExpectedSymbols \in SUBSET Names
    BY ExpectedAreNames DEF ImportSymbols, Listed
  <1> QED BY <1>1 DEF ImportSymbols, Bindings

LEMMA InitEstablishes == ShimInit => ShimInv
  BY DEF ShimInit, ShimInv, ShimTypes, OneAge, ReturnAgrees, StrictSoFar, AbsenceExplained,
         Ages, Unbound, NotLoaded

LEMMA RepackagePreserves ==
    ASSUME ShimInv, NEW p \in Packages, Repackage(p)
    PROVE  ShimInv'
  <1>1. ShimTypes'
    BY DEF ShimInv, ShimTypes, Repackage, Ages
  <1>2. OneAge'
    <2> SUFFICES ASSUME importComplete
                 PROVE  \E age \in {"current", "stale"} : \A n \in exported : bound'[n] = age
      BY DEF OneAge, Repackage
    <2>1. PICK age \in {"current", "stale"} : \A n \in exported : bound[n] = age
      BY DEF ShimInv, OneAge
    <2>2. \A n \in exported : bound'[n] = "stale"
      BY <2>1 DEF ShimInv, ShimTypes, Repackage
    <2> QED BY <2>2
  <1>3. ReturnAgrees' /\ StrictSoFar'
    BY DEF ShimInv, ReturnAgrees, StrictSoFar, FullyFunctional, Repackage
  <1>4. AbsenceExplained'
    BY DEF ShimInv, ShimTypes, AbsenceExplained, Repackage
  <1> QED BY <1>1, <1>2, <1>3, <1>4 DEF ShimInv

LEMMA ImportShimPreserves ==
    ASSUME ShimInv, NEW s \in BOOLEAN, NEW v \in BOOLEAN, ImportShim(s, v)
    PROVE  ShimInv'
  BY DEF ShimInv, ShimTypes, OneAge, ReturnAgrees, StrictSoFar, AbsenceExplained, ImportShim

LEMMA CallStartupPreserves ==
    ASSUME ShimInv, NEW s \in BOOLEAN, NEW v \in BOOLEAN, CallStartup(s, v)
    PROVE  ShimInv'
  BY DEF ShimInv, ShimTypes, OneAge, ReturnAgrees, StrictSoFar, AbsenceExplained, CallStartup

LEMMA ImportSymbolsPreserves ==
    ASSUME ShimInv, ImportSymbols
    PROVE  ShimInv'
  <1>1. exported' = ExpectedSymbols /\ ExpectedSymbols \in SUBSET Names
    BY ExpectedAreNames DEF ShimInv, ImportSymbols, Listed
  <1>2. ShimTypes'
    <2>1. Success \in BOOLEAN
      BY DEF Success
    <2>2. bound' \in [Names -> Ages]
      BY <1>1 DEF ShimInv, ShimTypes, ImportSymbols, Bindings, Ages
    <2> QED BY <1>1, <2>1, <2>2 DEF ShimInv, ShimTypes, ImportSymbols
  <1>3. OneAge'
    BY BindingsAreAtomic DEF ShimInv, OneAge
  <1>4. ReturnAgrees' /\ StrictSoFar'
    BY DEF ShimInv, ShimTypes, ReturnAgrees, StrictSoFar, FullyFunctional, ImportSymbols, Success, Failures
  <1>5. AbsenceExplained'
    BY <1>1, BindingsAreAtomic DEF ShimInv, AbsenceExplained, ImportSymbols, Failures
  <1> QED BY <1>2, <1>3, <1>4, <1>5 DEF ShimInv

LEMMA ImportRaisesPreserves ==
    ASSUME ShimInv, ImportRaises
    PROVE  ShimInv'
  <1>1. ShimTypes'
    BY ShimAssumption DEF ShimInv, ShimTypes, ImportRaises
  <1>2. importErrors' \cap {"__package__", "__unexpected__"} # {}
    <2>1. package.import \in Import
      BY DEF ShimInv, ShimTypes, Packages, Import
    <2>2. package.import = "ok" =>
            \A n \in Breaking : package.lookup[n] \in {"__package__", "__unexpected__"}
      BY DEF Breaking
    <2> QED BY <2>1, <2>2 DEF ImportRaises, Import
  <1>3. AbsenceExplained'
    BY <1>2 DEF AbsenceExplained, Import
  <1>4. ReturnAgrees' /\ StrictSoFar'
    <2>1. startup'.pc = "check" /\ startup'.success = startup.success
      BY DEF ShimInv, ShimTypes, ImportRaises
    <2>2. ~startup.success
      BY DEF ShimInv, ReturnAgrees, ImportRaises
    <2> QED BY <2>1, <2>2 DEF ReturnAgrees, StrictSoFar
  <1> QED BY <1>1, <1>3, <1>4 DEF ShimInv, OneAge, ImportRaises

LEMMA RaisePreserves ==
    ASSUME ShimInv, Raise
    PROVE  ShimInv'
  <1>1. CASE startup.first
    <2>1. bound' = Unbound /\ exported' = {} /\ startup' = NotLoaded /\ package' = package
      BY <1>1 DEF Raise
    <2>2. Unbound \in [Names -> Ages]
      BY DEF Unbound, Ages
    <2>3. ShimTypes'
      BY <2>1, <2>2 DEF ShimInv, ShimTypes, NotLoaded
    <2>4. startup'.pc = "none" /\ exported' = {} /\ importComplete' = FALSE
      BY <1>1 DEF Raise, NotLoaded
    <2> QED BY <2>3, <2>4 DEF ShimInv, OneAge, ReturnAgrees, StrictSoFar, AbsenceExplained
  <1>2. CASE ~startup.first
    BY <1>2 DEF ShimInv, ShimTypes, OneAge, ReturnAgrees, StrictSoFar, AbsenceExplained, Raise
  <1> QED BY <1>1, <1>2

LEMMA ProceedPreserves ==
    ASSUME ShimInv, NEW pc \in {"validate", "ready"}, Proceed(pc),
           startup.pc \in {"check", "validate"}, startup.strict => startup.success
    PROVE  ShimInv'
  BY DEF ShimInv, ShimTypes, OneAge, ReturnAgrees, StrictSoFar, AbsenceExplained, FullyFunctional, Proceed

LEMMA StepPreserves == ShimInv /\ [ShimNext]_shimVars => ShimInv'
  <1> SUFFICES ASSUME ShimInv, [ShimNext]_shimVars PROVE ShimInv'
    OBVIOUS
  <1>1. ASSUME AfterImport PROVE ShimInv'
    BY <1>1, RaisePreserves, ProceedPreserves DEF AfterImport, MustRaise
  <1>2. ASSUME Validate PROVE ShimInv'
    <2>1. startup.strict => startup.success /\ startup.pc = "validate"
      BY <1>2 DEF ShimInv, StrictSoFar, Validate
    <2> QED BY <1>2, <2>1, RaisePreserves, ProceedPreserves DEF Validate
  <1>3. CASE UNCHANGED shimVars
    BY <1>3 DEF shimVars, ShimInv, ShimTypes, OneAge, ReturnAgrees, StrictSoFar, AbsenceExplained,
                FullyFunctional
  <1> QED BY <1>1, <1>2, <1>3, RepackagePreserves, ImportShimPreserves, CallStartupPreserves,
             ImportSymbolsPreserves, ImportRaisesPreserves DEF ShimNext

LEMMA InvariantHolds == ShimSpec => []ShimInv
  BY InitEstablishes, StepPreserves, PTL DEF ShimSpec

-----------------------------------------------------------------------------

\* Names are bound all together or not at all, at every step of every startup.
THEOREM ExportCorrect == ShimSpec => AtomicExport
  <1>1. ASSUME ShimInv, ShimNext
        PROVE  \A n \in Names :
                    bound'[n] = "current" /\ bound[n] # "current"
                        => importComplete' /\ \A m \in exported' : bound'[m] = "current"
    <2>1. CASE ImportSymbols
      BY <1>1, <2>1, BindingsAreAtomic DEF ShimInv
    <2>2. CASE \E p \in Packages : Repackage(p)
      BY <2>2 DEF Repackage
    <2>3. CASE bound' \in {bound, Unbound}
      BY <2>3 DEF Unbound
    <2> QED BY <1>1, <2>1, <2>2, <2>3 DEF ShimNext, ImportShim, CallStartup, ImportRaises,
                                          AfterImport, Validate, Raise, Proceed
  <1>2. ShimInv /\ [ShimNext]_shimVars =>
            [\A n \in Names :
                bound'[n] = "current" /\ bound[n] # "current"
                    => importComplete' /\ \A m \in exported' : bound'[m] = "current"]_shimVars
    BY <1>1
  <1> QED BY <1>2, InvariantHolds, PTL DEF ShimSpec, AtomicExport

\* A shim that says it is fully functional has every name of __all__, all of one age.
THEOREM FunctionalCorrect == ShimSpec => []FunctionalMeansAvailable
  <1>1. ShimInv => FunctionalMeansAvailable
    BY DEF ShimInv, OneAge, FunctionalMeansAvailable, FullyFunctional
  <1> QED BY <1>1, InvariantHolds, PTL

\* A strict startup that has returned leaves a fully functional shim: on every
\* path of the import, its return value agrees with the flags and the errors.
THEOREM StrictCorrect == ShimSpec => []StrictStartup
  <1>1. ShimInv => StrictStartup
    BY DEF ShimInv, ReturnAgrees, StrictSoFar, StrictStartup
  <1> QED BY <1>1, InvariantHolds, PTL

\* A name that is missing is explained, unless the whole import has failed.
THEOREM AbsenceCorrect == ShimSpec => []AbsenceExplained
  <1>1. ShimInv => AbsenceExplained
    BY DEF ShimInv
  <1> QED BY <1>1, InvariantHolds, PTL

=============================================================================
