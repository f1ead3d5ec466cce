------------------------------ MODULE Codegen ------------------------------
(***************************************************************************)
(* One compilation, seen from GNATLLVM.Codegen: the switches are processed *)
(* one at a time, the LLVM target is set up from what they left, and when  *)
(* the module is complete Generate_Code verifies, optimizes and writes it. *)
(* The target-dependent decisions are those of llvm_wrapper.cc.            *)
(***************************************************************************)
EXTENDS Integers, Sequences, SequencesExt, FiniteSets

CONSTANTS
    Lines,      \* the command lines considered: sequences of switches
    Triples     \* the default targets of the compilers considered

VARIABLES
    line,       \* the command line
    scanned,    \* the number of switches processed
    opts,       \* the variables of GNATLLVM.Codegen that the switches set
    machine,    \* what the target machine was created with, or NoMachine
    types,      \* the C types of the target, as Get_Target_C_Types found them
    module,     \* the PIC level, PIE level and optimizations of the LLVM module
    verified,   \* FALSE once Verify_Module failed
    errors,     \* what has been reported as a serious error
    written,    \* the output: its kind, or "nothing"
    stage       \* where the compilation stands

vars == <<line, scanned, opts, machine, types, module, verified, errors, written, stage>>

(***************************************************************************)
(* Targets (LLVM's Triple, and what Clang says of them)                    *)
(***************************************************************************)
Triple(os, arch) == [os |-> os, arch |-> arch]
I386Linux == Triple("linux", "i386")   \* the default when C is emitted

isOSLinux(t) == t.os = "linux"
isOSWindows(t) == t.os = "windows"

Has_Default_PIE(t) == isOSLinux(t) \/ (isOSWindows(t) /\ t.arch = "x86_64")

Has_SEH(t) == isOSWindows(t) /\ t.arch \in {"x86_64", "aarch64"}
Get_Personality_Function_Name(t) ==
    IF Has_SEH(t) THEN "__gnat_personality_seh0" ELSE "__gnat_personality_v0"
Need_Enable_Execute_Stack(t) == isOSWindows(t) \/ isOSLinux(t)

\* A value of -march=, and the architecture and the extensions in it.
NoArch == [value |-> "", arch |-> "", exts |-> <<>>]
March == [x \in {"armv8-a+crc+what", "armv9-z"} |->
            IF x = "armv9-z" THEN [value |-> x, arch |-> x, exts |-> <<>>]
            ELSE [value |-> x, arch |-> "armv8-a", exts |-> <<"crc", "what">>]]

\* LLVM's AArch64::parseArch and getArchExtFeature know these.
ParsedArch(a) == IF a = "armv8-a" THEN <<"v8a">> ELSE <<>>
ArchExtFeature(x) == IF x = "crc" THEN <<"crc">> ELSE <<>>

\* A feature that is turned on or off.
Feature(on, name) == [on |-> on, name |-> name]
On(names) == [i \in DOMAIN names |-> Feature(TRUE, names[i])]

\* The features that the architecture implies: none unless it is AArch64,
\* nor if a CPU is given and no architecture, or one that LLVM does not know.
Get_Features(t, march, cpu) ==
    LET arch == IF march = NoArch /\ cpu = "generic" THEN "armv8-a" ELSE march.arch
        exts == FlattenSeq([i \in DOMAIN march.exts |-> ArchExtFeature(march.exts[i])])
    IN  IF t.arch # "aarch64" \/ ParsedArch(arch) = <<>> THEN <<>>
        ELSE On(<<"neon">> \o ParsedArch(arch) \o exts)

\* Clang's view of a target; a CPU that it does not know is rejected.
ClangKnows(t, cpu) == cpu \in {"generic", ""} \/ (t.arch = "aarch64" /\ cpu = "cortex-a53")
hasInt128Type(t) == t.arch # "i386"
LongDoubleWidth(t) == IF t.arch = "i386" THEN 96 ELSE IF t.os = "linux" THEN 128 ELSE 64
PointerWidth(t) == IF t.arch = "i386" THEN 32 ELSE 64

(***************************************************************************)
(* Switches                                                                *)
(***************************************************************************)
Defaults(t) ==
    [Code_Generation |-> "Write_Object", Emit_C |-> FALSE, Emit_LLVM |-> FALSE,
     Output_Assembly |-> FALSE, Optimize_IR |-> TRUE, Code_Opt_Level |-> 0,
     Target_Triple |-> t, Target_Triple_Set |-> FALSE,
     PIC_PIE_Set |-> FALSE, PIC_Level |-> 0, PIE_Level |-> 0, Reloc_Mode |-> "default",
     DSO_Preemptable |-> FALSE, Arch |-> NoArch, CPU |-> "generic", ABI |-> "", Features |-> <<>>,
     Merge_Functions |-> TRUE, No_Loop_Vectorization |-> FALSE,
     LTO |-> "none", Enable_Fuzzer |-> FALSE, Enable_Address_Sanitizer |-> FALSE,
     Pass_Plugin_Name |-> FALSE, Decls_Only |-> FALSE]

PICSwitches == {"-fpic", "-fPIC", "-fpie", "-fPIE", "-fno-pic"}
FeatureSwitches == [s \in {"-mcrc", "-mno-crc"} |-> Feature(s = "-mcrc", "crc")]

Switches ==
    PICSwitches \cup DOMAIN FeatureSwitches \cup
    {"--dump-ir", "--write-bc", "-emit-c", "-emit-llvm", "-S", "-fno-optimize-ir",
     "--target=x86_64-windows", "-march=armv8-a+crc+what", "-march=armv9-z", "-mcpu=what",
     "-mtune=cortex-a53", "-mabi=purecap", "-mabi=lp64", "-mrelocation-model=static",
     "-O2", "-fvectorize", "-fmerge-functions", "-fno-lto", "-flto", "-flto=thin",
     "-fsanitize=fuzzer", "-fsanitize=address", "-fpass-plugin=p"}

ASSUME ConstantsAssumption == Lines \subseteq Seq(Switches)

\* Mutant of WithPIC: nothing says that the option was there.
WithPICUnset(o, pic, pie) == [o EXCEPT !.PIC_Level = pic, !.PIE_Level = pie]

WithPIC(o, pic, pie) == [o EXCEPT !.PIC_PIE_Set = TRUE, !.PIC_Level = pic, !.PIE_Level = pie]

\* The settings O after Process_Switch (S).
Processed(o, s) ==
    CASE s = "--dump-ir" -> [o EXCEPT !.Code_Generation = "Dump_IR"]
      [] s = "--write-bc" -> [o EXCEPT !.Code_Generation = "Write_BC"]
      [] s = "-emit-c" -> [o EXCEPT !.Emit_C = TRUE]
      [] s = "-emit-llvm" -> [o EXCEPT !.Emit_LLVM = TRUE]
      [] s = "-S" -> [o EXCEPT !.Output_Assembly = TRUE]
      [] s = "-fno-optimize-ir" -> [o EXCEPT !.Optimize_IR = FALSE]
      [] s = "--target=x86_64-windows" ->
           [o EXCEPT !.Target_Triple = Triple("windows", "x86_64"), !.Target_Triple_Set = TRUE]
      [] s = "-march=armv8-a+crc+what" -> [o EXCEPT !.Arch = March["armv8-a+crc+what"]]
      [] s = "-march=armv9-z" -> [o EXCEPT !.Arch = March["armv9-z"]]
      [] s = "-mcpu=what" -> [o EXCEPT !.CPU = "what"]
      [] s = "-mtune=cortex-a53" ->
           IF o.CPU = "generic" /\ o.Arch = NoArch THEN [o EXCEPT !.CPU = "cortex-a53"] ELSE o
      [] s \in {"-mabi=purecap", "-mabi=lp64"} ->
           [o EXCEPT !.ABI = IF s = "-mabi=lp64" THEN "lp64" ELSE "purecap"]
      [] s = "-mrelocation-model=static" -> [o EXCEPT !.Reloc_Mode = "static"]
      [] s \in DOMAIN FeatureSwitches -> [o EXCEPT !.Features = Append(@, FeatureSwitches[s])]
      [] s = "-O2" -> [o EXCEPT !.Code_Opt_Level = 2]
      [] s = "-fvectorize" -> [o EXCEPT !.No_Loop_Vectorization = FALSE]
      [] s = "-fmerge-functions" -> [o EXCEPT !.Merge_Functions = TRUE]
      [] s = "-fno-lto" -> [o EXCEPT !.LTO = "none"]
      [] s = "-flto" -> [o EXCEPT !.LTO = "full"]
      [] s = "-flto=thin" -> [o EXCEPT !.LTO = "thin"]
      [] s = "-fpic" -> [WithPIC(o, 1, 0) EXCEPT !.DSO_Preemptable = TRUE]
      [] s = "-fPIC" -> [WithPIC(o, 2, 0) EXCEPT !.DSO_Preemptable = TRUE]
      [] s = "-fpie" -> WithPIC(o, 1, 1)
      [] s = "-fPIE" -> WithPIC(o, 2, 2)
      [] s = "-fno-pic" -> WithPIC(o, 0, 0)
      [] s = "-fsanitize=fuzzer" -> [o EXCEPT !.Enable_Fuzzer = TRUE]
      [] s = "-fsanitize=address" -> [o EXCEPT !.Enable_Address_Sanitizer = TRUE]
      [] s = "-fpass-plugin=p" -> [o EXCEPT !.Pass_Plugin_Name = TRUE]

\* The end of Scan_Command_Line: what C output and tagged pointers impose.
Finished(o) ==
    [o EXCEPT !.Merge_Functions = @ /\ ~o.Emit_C /\ o.ABI # "purecap",
              !.Target_Triple = IF o.Emit_C /\ ~o.Target_Triple_Set THEN I386Linux ELSE @]

\* The output to make, now that all switches are known.
Mode(o) == IF o.Emit_LLVM THEN IF o.Output_Assembly THEN "Write_IR" ELSE "Write_BC"
           ELSE IF o.Emit_C THEN "Write_C"
           ELSE IF o.Output_Assembly THEN "Write_Assembly" ELSE o.Code_Generation

\* The levels of PIC and PIE, and the relocation model they imply.
WithDefaultPIE(o) ==
    IF ~o.PIC_PIE_Set /\ Has_Default_PIE(o.Target_Triple)
    THEN [o EXCEPT !.PIC_Level = 2, !.PIE_Level = 2] ELSE o
WithReloc(o) == [o EXCEPT !.Reloc_Mode = IF o.PIC_Level # 0 /\ @ = "default" THEN "PIC" ELSE @]

\* For Nvidia GPUs the value of -march= is the CPU.
WithCPU(o) == [o EXCEPT !.CPU = IF o.Target_Triple.arch = "nvptx64" THEN o.Arch.value ELSE @]

\* Mutant of WithFeatures: those of the architecture come last.
WithFeaturesOfArchLast(o) ==
    [o EXCEPT !.Features = @ \o Get_Features(o.Target_Triple, o.Arch, o.CPU)]

\* The features of the architecture, then those of the switches.
WithFeatures(o) == [o EXCEPT !.Features = Get_Features(o.Target_Triple, o.Arch, o.CPU) \o @]

NoMachine == [CPU |-> "none"]
Machine(o) ==
    [Triple |-> o.Target_Triple, CPU |-> o.CPU, Features |-> o.Features, ABI |-> o.ABI,
     Reloc |-> o.Reloc_Mode, UseInitArray |-> TRUE, SEH |-> Has_SEH(o.Target_Triple),
     Personality |-> Get_Personality_Function_Name(o.Target_Triple),
     Enable_Execute_Stack |-> Need_Enable_Execute_Stack(o.Target_Triple)]

\* Get_Target_C_Types, when Clang accepts the target.
NoTypes == [success |-> FALSE]
C_Types(o) ==
    LET t == o.Target_Triple
    IN  [success |-> TRUE, PointerSize |-> PointerWidth(t), LongLongSize |-> 64,
         LongLongLongSize |-> IF hasInt128Type(t) /\ ~o.Emit_C THEN 128 ELSE 64,
         LongDoubleStorageSize |-> LongDoubleWidth(t)]

(***************************************************************************)
(* Optimization                                                            *)
(***************************************************************************)
\* The pipeline that LLVM_Optimize_Module builds.
Pipeline(o) ==
    IF o.Code_Opt_Level = 0 THEN "O0Default"
    ELSE IF o.LTO = "thin" THEN "ThinLTOPreLinkDefault"
    ELSE IF o.LTO = "full" THEN "LTOPreLinkDefault" ELSE "PerModuleDefault"

OnlyIf(cond, pass) == IF cond THEN <<pass>> ELSE <<>>

\* The pipelines run the passes registered for their end.
SanitizerPasses(o) ==
    OnlyIf(o.Enable_Fuzzer, "SanitizerCoverage") \o OnlyIf(o.Enable_Address_Sanitizer, "AddressSanitizer")

\* Mutant of Passes: there are no sanitizers without optimization.
PassesOfOptimized(o) ==
    <<Pipeline(o)>> \o (IF o.Code_Opt_Level = 0 THEN <<>> ELSE SanitizerPasses(o))
        \o OnlyIf(o.Code_Opt_Level = 0 /\ o.Emit_C, "LoopRotate") \o OnlyIf(o.Emit_C, "OurLoopPass")

Passes(o) ==
    <<Pipeline(o)>> \o SanitizerPasses(o)
        \o OnlyIf(o.Code_Opt_Level = 0 /\ o.Emit_C, "LoopRotate") \o OnlyIf(o.Emit_C, "OurLoopPass")

\* What the pipeline may do: C output has no vectors.
Tuning(o) == [vectorize |-> ~(o.No_Loop_Vectorization \/ o.Emit_C), merge |-> o.Merge_Functions]

Set_Module_PIC_PIE(m, pic, pie) == [m EXCEPT !.pic = pic, !.pie = pie]

NoModule == [pic |-> 0, pie |-> 0, passes |-> <<>>, tuning |-> [vectorize |-> FALSE, merge |-> FALSE]]

(***************************************************************************)
(* Before the front end                                                    *)
(***************************************************************************)
Stop(end) == stage' = end /\ UNCHANGED <<opts, machine, types, module>>

Process_Switch ==
    /\ stage = "switches" /\ scanned < Len(line)
    /\ opts' = Processed(opts, line[scanned + 1])
    /\ scanned' = scanned + 1
    /\ UNCHANGED <<line, machine, types, module, verified, errors, written, stage>>

FinishScan ==
    /\ stage = "switches" /\ scanned = Len(line)
    /\ opts' = Finished(opts)
    /\ stage' = "scanned"
    /\ UNCHANGED <<line, scanned, machine, types, module, verified, errors, written>>

\* The mode; WIDE: the target parameters say that Long_Long_Long_Size > 64.
SetMode(wide) ==
    /\ stage = "scanned"
    /\ IF opts.Emit_C /\ (wide \/ (~opts.Emit_LLVM /\ opts.Output_Assembly))
       THEN Stop("early_error")
       ELSE /\ opts' = [opts EXCEPT !.Code_Generation = Mode(opts)]
            /\ stage' = "mode"
            /\ UNCHANGED <<machine, types, module>>
    /\ UNCHANGED <<line, scanned, verified, errors, written>>

\* From Get_Target_From_Triple, which may find no target, to Enable_Init_Array.
CreateMachine(found) ==
    /\ stage = "mode"
    /\ IF ~found THEN Stop("early_error")
       ELSE LET o == WithFeatures(WithCPU(WithReloc(WithDefaultPIE(opts))))
            IN  opts' = o /\ machine' = Machine(o) /\ stage' = "machine" /\ UNCHANGED <<types, module>>
    /\ UNCHANGED <<line, scanned, verified, errors, written>>

\* Get_Target_C_Types uses Clang's answer to set the ABI before it looks
\* whether there is one; then the module gets its levels.
GetTypes ==
    /\ stage = "machine"
    /\ IF ClangKnows(opts.Target_Triple, opts.CPU)
       THEN /\ types' = C_Types(opts)
            /\ module' = IF opts.PIC_Level > 0
                         THEN Set_Module_PIC_PIE(module, opts.PIC_Level, opts.PIE_Level) ELSE module
            /\ stage' = "ready"
            /\ UNCHANGED <<opts, machine>>
       ELSE Stop(IF opts.ABI # "" THEN "crashed" ELSE "early_error")
    /\ UNCHANGED <<line, scanned, verified, errors, written>>

(***************************************************************************)
(* The front end, and Generate_Code                                        *)
(***************************************************************************)
\* Call_Back_End and the translation, which may report errors.
Translate(decls, error) ==
    /\ stage = "ready"
    /\ opts' = IF decls THEN [opts EXCEPT !.Decls_Only = TRUE, !.Code_Generation = "None"] ELSE opts
    /\ errors' = IF error THEN errors \cup {"translation"} ELSE errors
    /\ stage' = "translated"
    /\ UNCHANGED <<line, scanned, machine, types, module, verified, written>>

\* Mutant of Suppressed: a module that LLVM rejects is not looked at.
SuppressedByErrors(o, bad) == "translation" \in errors /\ o.Code_Generation \notin {"Dump_IR", "Write_IR", "Write_BC"}

\* Only IR is written after an error, or of a module that is BAD.
Suppressed(o, bad) ==
    ("translation" \in errors \/ bad) /\ o.Code_Generation \notin {"Dump_IR", "Write_IR", "Write_BC"}

Verify(bad) ==
    /\ stage = "translated"
    /\ bad => ~opts.Decls_Only
    /\ verified' = ~bad
    /\ opts' = IF Suppressed(opts, bad) THEN [opts EXCEPT !.Code_Generation = "None"] ELSE opts
    /\ stage' = "verified"
    /\ UNCHANGED <<line, scanned, machine, types, module, errors, written>>

Optimizing == ~opts.Decls_Only
              /\ (opts.Code_Generation \in {"Write_Assembly", "Write_Object", "Write_C"} \/ opts.Optimize_IR)

\* The math library of Nvidia is linked in; it may be missing or unreadable.
LinkLibdevice(fails) ==
    /\ stage = "verified" /\ Optimizing /\ opts.Target_Triple.arch = "nvptx64"
    /\ errors' = IF fails THEN errors \cup {"libdevice"} ELSE errors
    /\ stage' = "linked"
    /\ UNCHANGED <<line, scanned, opts, machine, types, module, verified, written>>

\* Mutant of OptimizationFailure: the result is not looked at.
NoOptimizationFailure == errors

OptimizationFailure == errors \cup {"optimize"}

\* LLVM_Optimize_Module: it fails, and does nothing, when the plugin does not load.
Optimize(fails) ==
    /\ stage = "linked" \/ (stage = "verified" /\ opts.Target_Triple.arch # "nvptx64")
    /\ Optimizing /\ verified
    /\ fails => opts.Pass_Plugin_Name
    /\ IF fails THEN errors' = OptimizationFailure /\ UNCHANGED module
       ELSE /\ module' = [module EXCEPT !.passes = Passes(opts), !.tuning = Tuning(opts)]
            /\ UNCHANGED errors
    /\ stage' = "optimized"
    /\ UNCHANGED <<line, scanned, opts, machine, types, verified, written>>

\* The output; all kinds of files but C may fail to be written.
Output(fails) ==
    /\ \/ stage = "optimized"
       \/ stage = "verified" /\ (~Optimizing \/ (~verified /\ opts.Target_Triple.arch # "nvptx64"))
       \/ stage = "linked" /\ ~verified
    /\ fails => opts.Code_Generation \in {"Write_BC", "Write_IR", "Write_Assembly", "Write_Object"}
    /\ written' = IF fails \/ opts.Code_Generation = "None" THEN "nothing" ELSE opts.Code_Generation
    /\ errors' = IF fails THEN errors \cup {"write"} ELSE errors
    /\ stage' = "output"
    /\ UNCHANGED <<line, scanned, opts, machine, types, module, verified>>

\* The environment is released; Program_Error is raised for a bad module.
Release ==
    /\ stage = "output"
    /\ stage' = IF verified THEN "ended" ELSE "raised"
    /\ UNCHANGED <<line, scanned, opts, machine, types, module, verified, errors, written>>

Init ==
    /\ line \in Lines /\ scanned = 0
    /\ \E t \in Triples : opts = Defaults(t)
    /\ machine = NoMachine /\ types = NoTypes /\ module = NoModule
    /\ verified = TRUE /\ errors = {} /\ written = "nothing"
    /\ stage = "switches"

Initialize_GNAT_LLVM ==
    Process_Switch \/ FinishScan \/ (\E b \in BOOLEAN : SetMode(b) \/ CreateMachine(b)) \/ GetTypes
Generate_Code == (\E b \in BOOLEAN : Verify(b) \/ LinkLibdevice(b) \/ Optimize(b) \/ Output(b)) \/ Release
Next == Initialize_GNAT_LLVM \/ (\E decls, error \in BOOLEAN : Translate(decls, error)) \/ Generate_Code

Spec == Init /\ [][Next]_vars

(***************************************************************************)
(* Properties                                                              *)
(***************************************************************************)

Given(s) == s \in Range(line)
LastOf(S) == LET I == {i \in DOMAIN line : line[i] \in S}
           IN  IF I = {} THEN "" ELSE line[CHOOSE i \in I : \A j \in I : j <= i]
LevelsOf(s) == CASE s = "-fpic" -> <<1, 0>> [] s = "-fPIC" -> <<2, 0>> [] s = "-fpie" -> <<1, 1>>
                 [] s = "-fPIE" -> <<2, 2>> [] s = "-fno-pic" -> <<0, 0>>

\* "The last option wins": the target machine and the module agree with the
\* last PIC or PIE option, wherever it stands, and without one with the
\* default of the target, even if a later switch chose that target.
PositionIndependence ==
    machine # NoMachine =>
        LET s == LastOf(PICSwitches)
            levels == IF s # "" THEN LevelsOf(s)
                      ELSE IF Has_Default_PIE(machine.Triple) THEN <<2, 2>> ELSE <<0, 0>>
        IN  /\ stage \notin {"machine", "early_error", "crashed"} => <<module.pic, module.pie>> = levels
            /\ machine.Reloc = IF Given("-mrelocation-model=static") THEN "static"
                               ELSE IF levels[1] # 0 THEN "PIC" ELSE "default"

Enabled(features, name) ==
    LET I == {i \in DOMAIN features : features[i].name = name}
    IN  I # {} /\ features[CHOOSE i \in I : \A j \in I : j <= i].on

\* A feature that a switch turns on or off is so, whatever -march implies
\* and whether it comes before or after.
UserFeaturesWin ==
    machine # NoMachine =>
        LET s == LastOf(DOMAIN FeatureSwitches)
        IN  s # "" => Enabled(machine.Features, "crc") = FeatureSwitches[s].on

\* Assembly, objects and C are only made from a module that LLVM's verifier
\* accepted and that was translated without error; no pass ever runs on a
\* module that was rejected.
NoCodeFromBadModule ==
    /\ written \in {"Write_Assembly", "Write_Object", "Write_C"} => verified /\ "translation" \notin errors
    /\ module.passes # <<>> => verified

\* What the command line asks for.
Requested ==
    IF opts.Decls_Only THEN "nothing"
    ELSE IF Given("-emit-llvm") THEN IF Given("-S") THEN "Write_IR" ELSE "Write_BC"
    ELSE IF Given("-emit-c") THEN "Write_C"
    ELSE IF Given("-S") THEN "Write_Assembly"
    ELSE IF LastOf({"--dump-ir", "--write-bc"}) = "--dump-ir" THEN "Dump_IR"
    ELSE IF LastOf({"--dump-ir", "--write-bc"}) = "--write-bc" THEN "Write_BC" ELSE "Write_Object"

\* A compilation that ends without any error reported has written what was
\* asked, and has optimized it if it had to.
FailuresReported ==
    stage = "ended" /\ errors = {} =>
        /\ written = Requested
        /\ Requested \in {"Write_Assembly", "Write_Object", "Write_C"} => module.passes # <<>>

\* Code for a sanitizer is instrumented by it, at every level of
\* optimization, unless an error has been reported.
SanitizersApplied ==
    written \in {"Write_Assembly", "Write_Object", "Write_C"} /\ errors = {} =>
        /\ Given("-fsanitize=fuzzer") => "SanitizerCoverage" \in Range(module.passes)
        /\ Given("-fsanitize=address") => "AddressSanitizer" \in Range(module.passes)

\* A target that Clang does not know is reported ("cannot get C type
\* information from LLVM"), whatever the ABI.
RejectionReported == stage # "crashed"
=============================================================================
