---------------------------- MODULE MCInterpreter ----------------------------
(***************************************************************************)
(* What one interpreter keeps, on small instances, for one run of TLC.     *)
(* The parts do not interact, so an execution is one of one part; the      *)
(* variables of the others stay as they are.                               *)
(***************************************************************************)
EXTENDS MCMagicChain, MCWeakReferences, MCHashIterator, SaveStack, ArrayStorage,
        MCMethodCache, InversionList, MCTieFile

VARIABLE part  \* never changes

inVars == <<part, mgVars, wrVars, hiVars, ssVars, av, mcVars, ilVars, tfVars>>

InInit ==
  /\ part \in {"magic", "weak references", "hash", "save stack", "array",
               "methods", "inversion list", "tied file"}
  /\ MgInit /\ (part # "magic" => habit = {} /\ ~readonly /\ chain = <<m1, m2>> /\ sort[m1] = "elem")
  /\ WrInit
  /\ HiInit /\ (part # "hash" => plan = {"insert"})
  /\ SsInit
  /\ AsInit /\ (part # "array" => av.real)
  /\ McInit
  /\ IlInit
  /\ TfInit /\ (part # "tied file" => tf.file = <<>> /\ tf.autodefer)

MagicNext ==
  /\ part = "magic" /\ MgNext
  /\ UNCHANGED <<part, wrVars, hiVars, ssVars, av, mcVars, ilVars, tfVars>>
WeakReferencesNext ==
  /\ part = "weak references" /\ WrNext
  /\ UNCHANGED <<part, mgVars, hiVars, ssVars, av, mcVars, ilVars, tfVars>>
HashNext ==
  /\ part = "hash" /\ HiNext
  /\ UNCHANGED <<part, mgVars, wrVars, ssVars, av, mcVars, ilVars, tfVars>>
SaveStackNext ==
  /\ part = "save stack" /\ SsNext
  /\ UNCHANGED <<part, mgVars, wrVars, hiVars, av, mcVars, ilVars, tfVars>>
ArrayNext ==
  /\ part = "array" /\ AsNext
  /\ UNCHANGED <<part, mgVars, wrVars, hiVars, ssVars, mcVars, ilVars, tfVars>>
MethodsNext ==
  /\ part = "methods" /\ McNext
  /\ UNCHANGED <<part, mgVars, wrVars, hiVars, ssVars, av, ilVars, tfVars>>
InversionListNext ==
  /\ part = "inversion list" /\ IlNext
  /\ UNCHANGED <<part, mgVars, wrVars, hiVars, ssVars, av, mcVars, tfVars>>
TiedFileNext ==
  /\ part = "tied file" /\ TfNext
  /\ UNCHANGED <<part, mgVars, wrVars, hiVars, ssVars, av, mcVars, ilVars>>

InNext ==
  \/ MagicNext \/ WeakReferencesNext \/ HashNext
  \/ SaveStackNext \/ ArrayNext \/ MethodsNext \/ InversionListNext \/ TiedFileNext

\* Only the walk over magic has fairness, where it runs.
InSpec ==
  /\ InInit /\ [][InNext]_inVars
  /\ WF_mgVars(part = "magic" /\ MgStep)

\* Every variable of every part keeps its type.
InTypeOK ==
  MgTypeOK /\ WrTypeOK /\ HiTypeOK /\ SsTypeOK /\ AsTypeOK
  /\ McTypeOK /\ IlTypeOK /\ TfTypeOK
=============================================================================
