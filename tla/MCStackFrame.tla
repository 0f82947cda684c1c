---------------------------- MODULE MCStackFrame ----------------------------
(***************************************************************************)
(* Two functions of every combination of frames and parameters, calls three *)
(* deep, one argument register of each class instead of eight, so that     *)
(* three parameters already need the stack.                                *)
(***************************************************************************)
EXTENDS StackFrame

CONSTANTS f, g, s0, s1, fs0, ra

MCFunction == {f, g}
MCCalleeSaved == {s0, s1, fs0}
MCSavedIndex == [r \in MCCalleeSaved |-> CASE r = s0 -> 1 [] r = s1 -> 2 [] r = fs0 -> 3]

Parameters ==
  {<<>>, <<"general">>, <<"general", "general", "float">>,
   <<"float", "general", "float", "general", "general">>}

Frame(allocas, spills, saved) == [allocas |-> allocas, spills |-> spills, saved |-> saved]

(* Frames of 16, 32 (with and without padding), 48 and 64 bytes. *)
Frames ==
  {Frame(<<>>, 0, {}), Frame(<<4>>, 0, {}), Frame(<<8>>, 0, {s1}),
   Frame(<<4>>, 1, {s1}), Frame(<<4, 8>>, 2, {s1, fs0})}

MCShapes ==
  {[params |-> p, allocas |-> fr.allocas, spills |-> fr.spills, saved |-> fr.saved] :
     p \in Parameters, fr \in Frames}
=============================================================================
