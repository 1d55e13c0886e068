----------------------------- MODULE BpfCompile -----------------------------
(***************************************************************************)
(* bpf_int_jit_compile of the RV32 JIT: two passes over a program, the     *)
(* memory they allocate, and who owns it when one step fails.  One call is *)
(* one step.  The kernel around it is external: it may hand over a program *)
(* whose constants have been blinded (a second program object with the     *)
(* same auxiliary data), any allocation may fail, and a program that is    *)
(* one function of several (is_func) is compiled a second time.            *)
(***************************************************************************)
EXTENDS BpfFilter

CONSTANT Programs       \* the programs to compile, with their flags

J == INSTANCE BpfJit32

VARIABLES
  source,     \* instructions and flags of the program
  live,       \* program objects that have not been released
  prog,       \* what each object says of its compiled code
  current,    \* the object the last call returned
  jit_data,   \* prog->aux->jit_data is set
  ctx,        \* jit_data->ctx
  heap,       \* allocations minus frees, by kind
  image,      \* the code in the image
  phase       \* "loaded", "subprog", "interpreted", "jited" or "extra_failed"

cvars == <<source, live, prog, current, jit_data, ctx, heap, image, phase>>

(* A zeroed context; offset is NULL.                                       *)
no_ctx == [prog |-> source, offset |-> <<>>, insns |-> FALSE, ninsns |-> 0,
           epilogue_offset |-> 0, stack_size |-> 0]

unjited == [jited |-> FALSE, bpf_func |-> "interpreter", jited_len |-> 0]

CompileInit ==
  /\ source \in Programs
  /\ live = {"orig"}
  /\ prog = [o \in {"orig", "clone"} |-> unjited]
  /\ current = "orig"
  /\ jit_data = FALSE
  /\ ctx = no_ctx
  /\ heap = [jit_data |-> 0, offset |-> 0, image |-> 0]
  /\ image = <<>>
  /\ phase = "loaded"

-----------------------------------------------------------------------------
(* What bpf_jit_blind_constants returns: an error, the program itself, or  *)
(* a clone.  A program that has been blinded is returned as it is.         *)
bpf_jit_blind_constants(o) ==
  IF source.blinding = "clone" /\ o = "orig" THEN "clone" ELSE o

(* The first pass measures: the body from index 0, then the prologue, then *)
(* the epilogue.                                                           *)
first_pass(c) ==
  LET measure(body, after) ==
        LET sized == [body.ctx EXCEPT !.ninsns = after, !.epilogue_offset = after,
                                      !.stack_size = J!stack_adjust(c)]
        IN  [ret |-> body.ret,
             ctx |-> [sized EXCEPT !.ninsns = after + Len(J!build_epilogue(sized))]]
      emit(body) == measure(body, body.ctx.ninsns + Len(J!build_prologue(c)))
  IN  emit(J!build_body(c, FALSE))

(* The second pass emits: the prologue, the body, the epilogue.            *)
second_pass(c, extra_pass) ==
  LET close(prologue, body, epilogue) ==
        [ret |-> body.ret, code |-> prologue \o body.code \o epilogue, ends |-> body.ends,
         ctx |-> [body.ctx EXCEPT !.ninsns = @ + Len(epilogue)]]
      emit(prologue, body) == close(prologue, body, J!build_epilogue(body.ctx))
      start(prologue) == [c EXCEPT !.insns = TRUE, !.ninsns = Len(prologue),
                                   !.stack_size = J!stack_adjust(c)]
      open(prologue) == emit(prologue, J!build_body(start(prologue), extra_pass))
  IN  open(J!build_prologue(c))

(* kzalloc and kcalloc of the context and its offsets.                     *)
new_ctx == [no_ctx EXCEPT !.offset = [i \in 0..(Len(source.insnsi) - 1) |-> 0]]

(* Mutant of out: the original is released even when it is returned.       *)
out_releases_orig(tmp, returned) ==
  /\ live' = IF tmp = current THEN live ELSE (live \cup {tmp}) \ {current}
  /\ current' = returned

(* out: release the other object when blinding made one.                   *)
out(tmp, returned) ==
  /\ live' = IF tmp = current THEN live
             ELSE (live \cup {tmp}) \ {IF returned = current THEN tmp ELSE current}
  /\ current' = returned

(* out_offset: free the offsets, when there are any, and jit_data.         *)
out_offset(h, had_offset) ==
  /\ heap' = [h EXCEPT !.offset = IF had_offset THEN @ - 1 ELSE @, !.jit_data = @ - 1]
  /\ jit_data' = FALSE
  /\ ctx' = no_ctx

gives_up == phase' = "interpreted"

(* Return before anything is allocated: the JIT is off or blinding failed. *)
NotCompiled ==
  /\ phase = "loaded"
  /\ ~source.jit_requested \/ source.blinding = "error"
  /\ gives_up
  /\ UNCHANGED <<source, live, prog, current, jit_data, ctx, heap, image>>

(* A call that fails in an allocation or in one of the passes returns the  *)
(* program it was given, with the clone released.                          *)
FirstCall ==
  /\ phase = "loaded" /\ ~jit_data
  /\ source.jit_requested /\ source.blinding # "error"
  /\ LET tmp == bpf_jit_blind_constants(current)
         orig == current
         kzalloced == [heap EXCEPT !.jit_data = @ + 1]
         kcalloced == [kzalloced EXCEPT !.offset = @ + 1]
         allocated == [kcalloced EXCEPT !.image = @ + 1]
     IN  \/ /\ gives_up /\ out(tmp, orig)              \* no jit_data
            /\ UNCHANGED <<prog, jit_data, ctx, heap, image>>
         \/ /\ gives_up /\ out(tmp, orig)              \* no offsets
            /\ out_offset(kzalloced, FALSE)
            /\ UNCHANGED <<prog, image>>
         \/ \E first \in {first_pass(new_ctx)} :
              \/ /\ first.ret # 0                      \* not supported
                 /\ gives_up /\ out(tmp, orig)
                 /\ out_offset(kcalloced, TRUE)
                 /\ UNCHANGED <<prog, image>>
              \/ /\ first.ret = 0                      \* no image
                 /\ gives_up /\ out(tmp, orig)
                 /\ out_offset(kcalloced, TRUE)
                 /\ UNCHANGED <<prog, image>>
              \/ /\ first.ret = 0
                 /\ \E second \in {second_pass(first.ctx, FALSE)} :
                      \/ /\ second.ret # 0             \* a jump is too far
                         /\ gives_up /\ out(tmp, orig)
                         /\ out_offset([allocated EXCEPT !.image = @ - 1], TRUE)
                         /\ UNCHANGED <<prog, image>>
                      \/ /\ second.ret = 0
                         /\ out(tmp, tmp)
                         /\ image' = second.code
                         /\ prog' = [prog EXCEPT ![tmp] =
                                       [jited |-> TRUE, bpf_func |-> "image",
                                        jited_len |-> 4 * first.ctx.ninsns]]
                         /\ IF source.is_func
                            THEN /\ heap' = allocated /\ jit_data' = TRUE
                                 /\ ctx' = second.ctx
                                 /\ phase' = "subprog"
                            ELSE out_offset(allocated, TRUE) /\ phase' = "jited"
  /\ UNCHANGED source

(* The second call finds the context of the first and emits once more into *)
(* the same image.  When that fails the image is freed, and the program    *)
(* returned still says that it is its code.                                *)
ExtraPass ==
  /\ phase = "subprog" /\ jit_data
  /\ \E second \in {second_pass(ctx, TRUE)} :
       LET tmp == bpf_jit_blind_constants(current)
           ok == second.ret = 0
       IN  /\ out(tmp, IF ok THEN tmp ELSE current)
           /\ image' = IF ok THEN second.code ELSE <<>>
           /\ prog' = IF ~ok THEN prog
                      ELSE [prog EXCEPT ![tmp] = [jited |-> TRUE, bpf_func |-> "image",
                                                  jited_len |-> 4 * ctx.ninsns]]
           /\ out_offset(IF ok THEN heap ELSE [heap EXCEPT !.image = @ - 1], TRUE)
           /\ phase' = IF ok THEN "jited" ELSE "extra_failed"
  /\ UNCHANGED source

bpf_int_jit_compile == NotCompiled \/ FirstCall \/ ExtraPass
=============================================================================
