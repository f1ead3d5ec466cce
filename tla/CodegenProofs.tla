---------------------------- MODULE CodegenProofs ----------------------------
(***************************************************************************)
(* Proofs about Codegen, for command lines of any length.                  *)
(***************************************************************************)
EXTENDS Codegen, TLAPS

(***************************************************************************)
(* The invariant                                                           *)
(***************************************************************************)
Options ==
    {"Code_Generation", "Emit_C", "Emit_LLVM", "Output_Assembly", "Optimize_IR", "Code_Opt_Level",
     "Target_Triple", "Target_Triple_Set", "PIC_PIE_Set", "PIC_Level", "PIE_Level", "Reloc_Mode",
     "DSO_Preemptable", "Arch", "CPU", "ABI", "Features", "Merge_Functions", "No_Loop_Vectorization",
     "LTO", "Enable_Fuzzer", "Enable_Address_Sanitizer", "Pass_Plugin_Name", "Decls_Only"}

Code == {"Write_Assembly", "Write_Object", "Write_C"}
Scanning == {"switches", "scanned"}
Setup == {"mode", "machine", "ready"}
Generating == {"verified", "linked", "optimized"}
Written == {"output", "ended", "raised"}
Stopped == {"early_error", "crashed"}

TypeOK ==
    /\ line \in Seq(Switches) /\ scanned \in 0 .. Len(line)
    /\ DOMAIN opts = Options /\ DOMAIN module = {"pic", "pie", "passes", "tuning"}
    /\ verified \in BOOLEAN
    /\ stage \in Scanning \cup Setup \cup {"translated"} \cup Generating \cup Written \cup Stopped
    /\ stage # "switches" => scanned = Len(line)

Seen(s) == \E i \in 1 .. scanned : line[i] = s

\* Position I holds the last switch of the set S so far.
LastSeen(S, i) ==
    /\ i \in 1 .. scanned /\ line[i] \in S
    /\ \A j \in 1 .. scanned : line[j] \in S => j <= i

NoneSeen(S) == \A i \in 1 .. scanned : line[i] \notin S

\* The options of position independence, while there is no machine.
PICKnown ==
    /\ opts.PIC_PIE_Set \in BOOLEAN
    /\ opts.PIC_PIE_Set => \E i \in 1 .. scanned :
          LastSeen(PICSwitches, i) /\ <<opts.PIC_Level, opts.PIE_Level>> = LevelsOf(line[i])
    /\ ~opts.PIC_PIE_Set => NoneSeen(PICSwitches) /\ opts.PIC_Level = 0 /\ opts.PIE_Level = 0
    /\ opts.Reloc_Mode = IF Seen("-mrelocation-model=static") THEN "static" ELSE "default"

NoMachineYet ==
    stage \in Scanning \cup {"mode"} => PICKnown /\ machine = NoMachine /\ module = NoModule

\* The levels that the command line asks of the machine.
Levels ==
    LET s == LastOf(PICSwitches)
    IN  IF s # "" THEN LevelsOf(s)
        ELSE IF Has_Default_PIE(machine.Triple) THEN <<2, 2>> ELSE <<0, 0>>

MachineKnown ==
    stage = "machine" => /\ module = NoModule
                         /\ <<opts.PIC_Level, opts.PIE_Level>> = Levels
                         /\ Levels \in {<<0, 0>>, <<1, 0>>, <<2, 0>>, <<1, 1>>, <<2, 2>>}

\* The options about the output, until the mode is set.
Dumps == {"--dump-ir", "--write-bc"}
OutputKnown ==
    /\ opts.Emit_C \in BOOLEAN /\ opts.Emit_LLVM \in BOOLEAN /\ opts.Output_Assembly \in BOOLEAN
    /\ opts.Emit_C <=> Seen("-emit-c")
    /\ opts.Emit_LLVM <=> Seen("-emit-llvm")
    /\ opts.Output_Assembly <=> Seen("-S")
    /\ \/ NoneSeen(Dumps) /\ opts.Code_Generation = "Write_Object"
       \/ \E i \in 1 .. scanned :
             /\ LastSeen(Dumps, i)
             /\ opts.Code_Generation = IF line[i] = "--dump-ir" THEN "Dump_IR" ELSE "Write_BC"

\* What the command line asks for, if there is more than declarations.
RequestedMode ==
    IF Given("-emit-llvm") THEN IF Given("-S") THEN "Write_IR" ELSE "Write_BC"
    ELSE IF Given("-emit-c") THEN "Write_C"
    ELSE IF Given("-S") THEN "Write_Assembly"
    ELSE IF LastOf(Dumps) = "--dump-ir" THEN "Dump_IR"
    ELSE IF LastOf(Dumps) = "--write-bc" THEN "Write_BC" ELSE "Write_Object"

ModeKnown ==
    /\ opts.Decls_Only \in BOOLEAN
    /\ stage \in Scanning => OutputKnown
    /\ stage \in Scanning \cup Setup => ~opts.Decls_Only
    /\ stage \in Setup => opts.Code_Generation = RequestedMode
    /\ stage \in {"translated"} \cup Generating \cup Written =>
          /\ opts.Decls_Only => opts.Code_Generation = "None"
          /\ ~opts.Decls_Only => opts.Code_Generation \in {RequestedMode, "None"}
    /\ stage = "translated" /\ ~opts.Decls_Only => opts.Code_Generation = RequestedMode
    /\ stage \in Generating \cup Written =>
          /\ opts.Code_Generation = "None" /\ ~opts.Decls_Only => "translation" \in errors \/ ~verified
          /\ opts.Code_Generation \in Code => verified /\ "translation" \notin errors
    /\ stage = "ended" => verified

SanitizersKnown ==
    /\ Seen("-fsanitize=fuzzer") => opts.Enable_Fuzzer
    /\ Seen("-fsanitize=address") => opts.Enable_Address_Sanitizer

\* The passes have run, those of the sanitizers included.
Instrumented ==
    /\ module.passes # <<>>
    /\ opts.Enable_Fuzzer => "SanitizerCoverage" \in Range(module.passes)
    /\ opts.Enable_Address_Sanitizer => "AddressSanitizer" \in Range(module.passes)

PassesKnown ==
    /\ module.passes # <<>> => verified
    /\ stage \in Scanning \cup Setup \cup {"translated"} => module.passes = <<>>
    /\ stage = "optimized" /\ errors = {} => Instrumented
    /\ stage \in Written /\ errors = {} /\ opts.Code_Generation \in Code => Instrumented

WrittenKnown ==
    /\ stage \notin Written => written = "nothing"
    /\ stage \in Written =>
          /\ written \in {opts.Code_Generation, "nothing"} /\ written # "None"
          /\ written = "nothing" => opts.Code_Generation = "None" \/ errors # {}

IInv ==
    /\ TypeOK /\ NoMachineYet /\ PositionIndependence /\ MachineKnown
    /\ ModeKnown /\ SanitizersKnown /\ PassesKnown /\ WrittenKnown

(***************************************************************************)
(* The command line                                                        *)
(***************************************************************************)
\* What a switch S does to the options that the theorems are about.
SwitchEffect(o, s, p) ==
    /\ DOMAIN p = Options
    /\ s \in PICSwitches => p.PIC_PIE_Set = TRUE /\ <<p.PIC_Level, p.PIE_Level>> = LevelsOf(s)
    /\ s \notin PICSwitches => /\ p.PIC_PIE_Set = o.PIC_PIE_Set
                               /\ p.PIC_Level = o.PIC_Level /\ p.PIE_Level = o.PIE_Level
    /\ p.Reloc_Mode = IF s = "-mrelocation-model=static" THEN "static" ELSE o.Reloc_Mode
    /\ p.Emit_C = IF s = "-emit-c" THEN TRUE ELSE o.Emit_C
    /\ p.Emit_LLVM = IF s = "-emit-llvm" THEN TRUE ELSE o.Emit_LLVM
    /\ p.Output_Assembly = IF s = "-S" THEN TRUE ELSE o.Output_Assembly
    /\ p.Code_Generation = IF s = "--dump-ir" THEN "Dump_IR"
                           ELSE IF s = "--write-bc" THEN "Write_BC" ELSE o.Code_Generation
    /\ p.Decls_Only = o.Decls_Only
    /\ s = "-fsanitize=fuzzer" \/ o.Enable_Fuzzer => p.Enable_Fuzzer
    /\ s = "-fsanitize=address" \/ o.Enable_Address_Sanitizer => p.Enable_Address_Sanitizer

LEMMA ProcessedOptions ==
    ASSUME NEW o, DOMAIN o = Options, NEW s \in Switches
    PROVE  SwitchEffect(o, s, Processed(o, s))
<1> USE DEF Options
<1>1. CASE s \in {"-fpic", "-fPIC"}
  BY <1>1, ZenonT(60) DEF Processed, SwitchEffect, PICSwitches, FeatureSwitches, WithPIC, LevelsOf
<1>2. CASE s \in {"-fpie", "-fPIE", "-fno-pic"}
  BY <1>2, ZenonT(60) DEF Processed, SwitchEffect, PICSwitches, FeatureSwitches, WithPIC, LevelsOf
<1>3. CASE s \in {"--dump-ir", "--write-bc", "-emit-c", "-emit-llvm", "-S", "-fno-optimize-ir"}
  <2>1. CASE s = "--dump-ir"
    <3>1. Processed(o, s) = [o EXCEPT !.Code_Generation = "Dump_IR"]
      BY <2>1 DEF Processed, PICSwitches, FeatureSwitches
    <3> QED BY <2>1, <3>1 DEF PICSwitches, SwitchEffect
  <2>2. CASE s = "--write-bc"
    <3>1. Processed(o, s) = [o EXCEPT !.Code_Generation = "Write_BC"]
      BY <2>2 DEF Processed, PICSwitches, FeatureSwitches
    <3> QED BY <2>2, <3>1 DEF PICSwitches, SwitchEffect
  <2>3. CASE s = "-emit-c"
    <3>1. Processed(o, s) = [o EXCEPT !.Emit_C = TRUE]
      BY <2>3 DEF Processed, PICSwitches, FeatureSwitches
    <3> QED BY <2>3, <3>1 DEF PICSwitches, SwitchEffect
  <2>4. CASE s = "-emit-llvm"
    <3>1. Processed(o, s) = [o EXCEPT !.Emit_LLVM = TRUE]
      BY <2>4 DEF Processed, PICSwitches, FeatureSwitches
    <3> QED BY <2>4, <3>1 DEF PICSwitches, SwitchEffect
  <2>5. CASE s = "-S"
    <3>1. Processed(o, s) = [o EXCEPT !.Output_Assembly = TRUE]
      BY <2>5 DEF Processed, PICSwitches, FeatureSwitches
    <3> QED BY <2>5, <3>1 DEF PICSwitches, SwitchEffect
  <2>6. CASE s = "-fno-optimize-ir"
    <3>1. Processed(o, s) = [o EXCEPT !.Optimize_IR = FALSE]
      BY <2>6 DEF Processed, PICSwitches, FeatureSwitches
    <3> QED BY <2>6, <3>1 DEF PICSwitches, SwitchEffect
  <2> QED BY <1>3, <2>1, <2>2, <2>3, <2>4, <2>5, <2>6
<1>4. CASE s \in {"--target=x86_64-windows", "-march=armv8-a+crc+what", "-march=armv9-z", "-mcpu=what"}
  BY <1>4, ZenonT(60) DEF Processed, SwitchEffect, PICSwitches
<1>5. CASE s = "-mtune=cortex-a53"
  <2>1. Processed(o, s) = IF o.CPU = "generic" /\ o.Arch = NoArch THEN [o EXCEPT !.CPU = "cortex-a53"] ELSE o
    BY <1>5 DEF Processed, PICSwitches, FeatureSwitches
  <2> QED BY <1>5, <2>1 DEF PICSwitches, SwitchEffect
<1>6. CASE s \in {"-mabi=purecap", "-mabi=lp64", "-mrelocation-model=static"}
  <2>1. CASE s = "-mabi=purecap"
    <3>1. Processed(o, s) = [o EXCEPT !.ABI = IF s = "-mabi=lp64" THEN "lp64" ELSE "purecap"]
      BY <2>1 DEF Processed, PICSwitches, FeatureSwitches
    <3> QED BY <2>1, <3>1 DEF PICSwitches, SwitchEffect
  <2>2. CASE s = "-mabi=lp64"
    <3>1. Processed(o, s) = [o EXCEPT !.ABI = IF s = "-mabi=lp64" THEN "lp64" ELSE "purecap"]
      BY <2>2 DEF Processed, PICSwitches, FeatureSwitches
    <3> QED BY <2>2, <3>1 DEF PICSwitches, SwitchEffect
  <2>3. CASE s = "-mrelocation-model=static"
    <3>1. Processed(o, s) = [o EXCEPT !.Reloc_Mode = "static"]
      BY <2>3 DEF Processed, PICSwitches, FeatureSwitches
    <3> QED BY <2>3, <3>1 DEF PICSwitches, SwitchEffect
  <2> QED BY <1>6, <2>1, <2>2, <2>3
<1>7. CASE s \in DOMAIN FeatureSwitches
  <2>1. s \in {"-mcrc", "-mno-crc"}
    BY <1>7 DEF FeatureSwitches
  <2>2. Processed(o, s) = [o EXCEPT !.Features = Append(@, FeatureSwitches[s])]
    BY <1>7, <2>1 DEF Processed
  <2> QED BY <2>1, <2>2 DEF PICSwitches, SwitchEffect
<1>8. CASE s \in {"-O2", "-fvectorize", "-fmerge-functions", "-fno-lto", "-flto", "-flto=thin"}
  BY <1>8, ZenonT(60) DEF Processed, SwitchEffect, PICSwitches, FeatureSwitches
<1>9. CASE s \in {"-fsanitize=fuzzer", "-fsanitize=address", "-fpass-plugin=p"}
  BY <1>9, ZenonT(60) DEF Processed, SwitchEffect, PICSwitches, FeatureSwitches
<1> QED BY <1>1, <1>2, <1>3, <1>4, <1>5, <1>6, <1>7, <1>8, <1>9 DEF Switches, PICSwitches

\* The last switch of a set, when the command line has been read.
LEMMA LastOfSeen ==
    ASSUME TypeOK, scanned = Len(line), NEW S
    PROVE  /\ \A i : LastSeen(S, i) => LastOf(S) = line[i]
           /\ NoneSeen(S) => LastOf(S) = ""
<1> DEFINE I == {i \in DOMAIN line : line[i] \in S}
<1>1. DOMAIN line = 1 .. scanned /\ scanned \in Nat
  BY DEF TypeOK
<1>2. ASSUME NEW i, LastSeen(S, i) PROVE LastOf(S) = line[i]
  <2>1. i \in I /\ \A j \in I : j <= i
    BY <1>1, <1>2 DEF LastSeen
  <2>2. \A k \in I : (\A j \in I : j <= k) => k = i
    BY <1>1, <2>1
  <2>3. (CHOOSE k \in I : \A j \in I : j <= k) = i
    BY <2>1, <2>2
  <2> QED BY <2>1, <2>3 DEF LastOf
<1>3. ASSUME NoneSeen(S) PROVE LastOf(S) = ""
  <2>1. I = {}
    BY <1>1, <1>3 DEF NoneSeen
  <2> QED BY <2>1 DEF LastOf
<1> QED BY <1>2, <1>3

LEMMA GivenSeen ==
    ASSUME TypeOK, scanned = Len(line), NEW s
    PROVE  Given(s) <=> Seen(s)
BY DEF TypeOK, Given, Seen, Range

(***************************************************************************)
(* Before the front end                                                    *)
(***************************************************************************)
LEMMA InitIInv == Init => IInv
<1> SUFFICES ASSUME Init PROVE IInv
  OBVIOUS
<1>1. PICK t \in Triples : opts = Defaults(t)
  BY DEF Init
<1>2. /\ line \in Seq(Switches) /\ scanned = 0 /\ stage = "switches" /\ module = NoModule
      /\ machine = NoMachine /\ verified = TRUE /\ errors = {} /\ written = "nothing"
  BY ConstantsAssumption DEF Init
<1>9. /\ opts.PIC_PIE_Set = FALSE /\ opts.PIC_Level = 0 /\ opts.PIE_Level = 0
      /\ opts.Reloc_Mode = "default" /\ opts.Code_Generation = "Write_Object"
      /\ opts.Emit_C = FALSE /\ opts.Emit_LLVM = FALSE /\ opts.Output_Assembly = FALSE
      /\ opts.Decls_Only = FALSE
  BY <1>1 DEF Defaults
<1>10. DOMAIN opts = Options
  BY <1>1 DEF Defaults, Options
<1>11. \A x, S : ~Seen(x) /\ NoneSeen(S)
  BY <1>2 DEF Seen, NoneSeen
<1>3. TypeOK
  <2>1. DOMAIN module = {"pic", "pie", "passes", "tuning"}
    BY <1>2 DEF NoModule
  <2>2. Len(line) \in Nat
    BY <1>2
  <2> QED BY <1>2, <1>10, <2>1, <2>2 DEF TypeOK, Scanning
<1>4. NoMachineYet
  BY <1>2, <1>9, <1>11 DEF NoMachineYet, PICKnown
<1>5. PositionIndependence
  BY <1>2 DEF PositionIndependence
<1>6. MachineKnown /\ SanitizersKnown
  BY <1>2 DEF MachineKnown, SanitizersKnown, Seen
<1>7. ModeKnown
  BY <1>2, <1>9, <1>11 DEF ModeKnown, OutputKnown, Setup, Generating, Written
<1>8. PassesKnown /\ WrittenKnown
  BY <1>2 DEF PassesKnown, WrittenKnown, NoModule, Written
<1> QED BY <1>3, <1>4, <1>5, <1>6, <1>7, <1>8 DEF IInv

\* One switch more.
LEMMA ProcessSwitchIInv ==
    ASSUME IInv, Process_Switch
    PROVE  IInv'
<1> DEFINE s == line[scanned + 1]
<1>1. /\ stage = "switches" /\ scanned < Len(line) /\ opts' = Processed(opts, s)
      /\ scanned' = scanned + 1
      /\ UNCHANGED <<line, machine, types, module, verified, errors, written, stage>>
  BY DEF Process_Switch
<1>2. /\ TypeOK /\ NoMachineYet /\ PositionIndependence /\ MachineKnown
      /\ ModeKnown /\ SanitizersKnown /\ PassesKnown /\ WrittenKnown
  BY DEF IInv
<1>3. s \in Switches /\ scanned \in Nat /\ Len(line) \in Nat /\ DOMAIN opts = Options
  BY <1>1, <1>2 DEF TypeOK
<1> HIDE DEF s
<1>16. PICK k : k = scanned + 1
  OBVIOUS
<1>4. SwitchEffect(opts, s, opts')
  BY <1>1, <1>3, ProcessedOptions
<1> USE DEF SwitchEffect
<1>5. \A x : Seen(x)' <=> Seen(x) \/ s = x
  BY <1>1, <1>3 DEF Seen, s
<1>6. \A S : s \in S => LastSeen(S, k)'
  BY <1>1, <1>3, <1>16 DEF LastSeen, s
<1>7. \A S, i : s \notin S /\ LastSeen(S, i) => LastSeen(S, i)'
  BY <1>1, <1>3 DEF LastSeen, s
<1>8. \A S : s \notin S /\ NoneSeen(S) => NoneSeen(S)'
  BY <1>1, <1>3 DEF NoneSeen, s
<1>9. TypeOK'
  BY <1>1, <1>2, <1>3, <1>4 DEF TypeOK
<1>10. PICKnown'
  <2>1. PICKnown
    BY <1>1, <1>2 DEF NoMachineYet, Scanning
  <2>2. CASE s \in PICSwitches
    <3>1. LastSeen(PICSwitches, k)' /\ k \in 1 .. scanned' /\ line'[k] = s
      BY <1>1, <1>3, <1>6, <1>16, <2>2 DEF s
    <3>2. \E i \in 1 .. scanned' :
             LastSeen(PICSwitches, i)' /\ <<opts'.PIC_Level, opts'.PIE_Level>> = LevelsOf(line'[i])
      BY <1>4, <2>2, <3>1
    <3> QED BY <1>4, <1>5, <2>1, <2>2, <3>2 DEF PICKnown
  <2>3. CASE s \notin PICSwitches
    <3>1. CASE opts.PIC_PIE_Set
      <4>1. PICK i \in 1 .. scanned :
               LastSeen(PICSwitches, i) /\ <<opts.PIC_Level, opts.PIE_Level>> = LevelsOf(line[i])
        BY <2>1, <3>1 DEF PICKnown
      <4>2. i \in 1 .. scanned' /\ LastSeen(PICSwitches, i)' /\ line'[i] = line[i]
        BY <1>1, <1>3, <1>7, <2>3, <4>1
      <4> QED BY <1>4, <1>5, <2>1, <2>3, <3>1, <4>1, <4>2 DEF PICKnown
    <3>2. CASE ~opts.PIC_PIE_Set
      BY <1>4, <1>5, <1>8, <2>1, <2>3, <3>2 DEF PICKnown
    <3> QED BY <3>1, <3>2
  <2> QED BY <2>2, <2>3
<1>11. OutputKnown'
  <2>1. OutputKnown
    BY <1>1, <1>2 DEF ModeKnown, Scanning
  <2>2. \/ NoneSeen(Dumps)' /\ opts'.Code_Generation = "Write_Object"
        \/ \E i \in 1 .. scanned' :
              /\ LastSeen(Dumps, i)'
              /\ opts'.Code_Generation = IF line'[i] = "--dump-ir" THEN "Dump_IR" ELSE "Write_BC"
    <3>1. CASE s \in Dumps
      <4>1. LastSeen(Dumps, k)' /\ k \in 1 .. scanned' /\ line'[k] = s
        BY <1>1, <1>3, <1>6, <1>16, <3>1 DEF s
      <4>2. opts'.Code_Generation = IF s = "--dump-ir" THEN "Dump_IR" ELSE "Write_BC"
        BY <1>4, <3>1 DEF Dumps
      <4> QED BY <4>1, <4>2
    <3>2. CASE s \notin Dumps
      <4>1. opts'.Code_Generation = opts.Code_Generation
        BY <1>4, <3>2 DEF Dumps
      <4>2. CASE NoneSeen(Dumps) /\ opts.Code_Generation = "Write_Object"
        BY <1>8, <3>2, <4>1, <4>2
      <4>3. CASE \E i \in 1 .. scanned :
                    /\ LastSeen(Dumps, i)
                    /\ opts.Code_Generation = IF line[i] = "--dump-ir" THEN "Dump_IR" ELSE "Write_BC"
        <5>1. PICK i \in 1 .. scanned :
                 /\ LastSeen(Dumps, i)
                 /\ opts.Code_Generation = IF line[i] = "--dump-ir" THEN "Dump_IR" ELSE "Write_BC"
          BY <4>3
        <5>2. i \in 1 .. scanned' /\ LastSeen(Dumps, i)' /\ line'[i] = line[i]
          BY <1>1, <1>3, <1>7, <3>2, <5>1
        <5> QED BY <4>1, <5>1, <5>2
      <4> QED BY <2>1, <4>2, <4>3 DEF OutputKnown
    <3> QED BY <3>1, <3>2
  <2> QED BY <1>4, <1>5, <2>1, <2>2 DEF OutputKnown
<1>12. NoMachineYet' /\ PositionIndependence' /\ MachineKnown'
  BY <1>1, <1>2, <1>10 DEF NoMachineYet, PositionIndependence, MachineKnown, Scanning
<1>13. ModeKnown'
  BY <1>1, <1>2, <1>4, <1>11 DEF ModeKnown, Scanning, Setup, Generating, Written
<1>14. SanitizersKnown'
  BY <1>2, <1>4, <1>5 DEF SanitizersKnown
<1>15. PassesKnown' /\ WrittenKnown'
  BY <1>1, <1>2 DEF PassesKnown, WrittenKnown, Scanning, Written
<1> QED BY <1>9, <1>12, <1>13, <1>14, <1>15 DEF IInv

LEMMA FinishScanIInv ==
    ASSUME IInv, FinishScan
    PROVE  IInv'
<1>1. /\ stage = "switches" /\ scanned = Len(line) /\ opts' = Finished(opts) /\ stage' = "scanned"
      /\ UNCHANGED <<line, scanned, machine, types, module, verified, errors, written>>
  BY DEF FinishScan
<1>2. /\ TypeOK /\ NoMachineYet /\ PositionIndependence /\ MachineKnown
      /\ ModeKnown /\ SanitizersKnown /\ PassesKnown /\ WrittenKnown
  BY DEF IInv
<1>3. DOMAIN opts = Options
  BY <1>2 DEF TypeOK
<1>4. /\ DOMAIN opts' = Options
      /\ \A x \in Options \ {"Merge_Functions", "Target_Triple"} : opts'[x] = opts[x]
  BY <1>1, <1>3 DEF Finished, Options
<1>5. /\ opts'.PIC_PIE_Set = opts.PIC_PIE_Set
      /\ opts'.PIC_Level = opts.PIC_Level /\ opts'.PIE_Level = opts.PIE_Level
      /\ opts'.Reloc_Mode = opts.Reloc_Mode /\ opts'.Emit_C = opts.Emit_C /\ opts'.Emit_LLVM = opts.Emit_LLVM
      /\ opts'.Output_Assembly = opts.Output_Assembly /\ opts'.Code_Generation = opts.Code_Generation
      /\ opts'.Decls_Only = opts.Decls_Only /\ opts'.Enable_Fuzzer = opts.Enable_Fuzzer
      /\ opts'.Enable_Address_Sanitizer = opts.Enable_Address_Sanitizer
  BY <1>4 DEF Options
<1>6. TypeOK'
  BY <1>1, <1>2, <1>4 DEF TypeOK, Scanning
<1>7. NoMachineYet'
  BY <1>1, <1>2, <1>5 DEF NoMachineYet, PICKnown, Scanning, Seen, NoneSeen, LastSeen
<1>8. PositionIndependence' /\ MachineKnown'
  BY <1>1, <1>2, <1>7 DEF PositionIndependence, MachineKnown, NoMachineYet, Scanning
<1>9. ModeKnown'
  BY <1>1, <1>2, <1>5 DEF ModeKnown, OutputKnown, Seen, NoneSeen, LastSeen, Scanning, Setup, Generating, Written
<1>10. SanitizersKnown' /\ PassesKnown' /\ WrittenKnown'
  BY <1>1, <1>2, <1>5 DEF SanitizersKnown, Seen, PassesKnown, WrittenKnown, Scanning, Written
<1> QED BY <1>6, <1>7, <1>8, <1>9, <1>10 DEF IInv

\* The mode that is set is the one that was asked for.
LEMMA ModeRequested ==
    ASSUME TypeOK, scanned = Len(line), OutputKnown
    PROVE  Mode(opts) = RequestedMode
<1>1. /\ Given("-emit-llvm") <=> opts.Emit_LLVM
      /\ Given("-emit-c") <=> opts.Emit_C
      /\ Given("-S") <=> opts.Output_Assembly
  BY GivenSeen DEF OutputKnown
<1>2. opts.Code_Generation = IF LastOf(Dumps) = "--dump-ir" THEN "Dump_IR"
                             ELSE IF LastOf(Dumps) = "--write-bc" THEN "Write_BC" ELSE "Write_Object"
  <2>1. CASE NoneSeen(Dumps) /\ opts.Code_Generation = "Write_Object"
    BY <2>1, LastOfSeen
  <2>2. CASE \E i \in 1 .. scanned :
                /\ LastSeen(Dumps, i)
                /\ opts.Code_Generation = IF line[i] = "--dump-ir" THEN "Dump_IR" ELSE "Write_BC"
    <3>1. PICK i \in 1 .. scanned :
             /\ LastSeen(Dumps, i)
             /\ opts.Code_Generation = IF line[i] = "--dump-ir" THEN "Dump_IR" ELSE "Write_BC"
      BY <2>2
    <3>2. LastOf(Dumps) = line[i] /\ line[i] \in Dumps
      BY <3>1, LastOfSeen DEF LastSeen
    <3> QED BY <3>1, <3>2 DEF Dumps
  <2> QED BY <2>1, <2>2 DEF OutputKnown
<1> QED BY <1>1, <1>2 DEF Mode, RequestedMode, OutputKnown

LEMMA SetModeIInv ==
    ASSUME IInv, NEW wide \in BOOLEAN, SetMode(wide)
    PROVE  IInv'
<1>1. stage = "scanned" /\ UNCHANGED <<line, scanned, machine, types, module, verified, errors, written>>
  BY DEF SetMode, Stop
<1>2. /\ TypeOK /\ NoMachineYet /\ PositionIndependence /\ MachineKnown
      /\ ModeKnown /\ SanitizersKnown /\ PassesKnown /\ WrittenKnown
  BY DEF IInv
<1>3. /\ DOMAIN opts = Options /\ scanned = Len(line) /\ OutputKnown /\ ~opts.Decls_Only
      /\ opts.Decls_Only \in BOOLEAN /\ PICKnown /\ machine = NoMachine /\ module = NoModule
  BY <1>1, <1>2 DEF TypeOK, ModeKnown, NoMachineYet, Scanning
<1>4. /\ DOMAIN opts' = Options
      /\ \A x \in Options \ {"Code_Generation"} : opts'[x] = opts[x]
      /\ \/ stage' = "early_error"
         \/ stage' = "mode" /\ opts'.Code_Generation = Mode(opts)
  BY <1>3 DEF SetMode, Stop, Options
<1>5. /\ opts'.PIC_PIE_Set = opts.PIC_PIE_Set
      /\ opts'.PIC_Level = opts.PIC_Level /\ opts'.PIE_Level = opts.PIE_Level
      /\ opts'.Reloc_Mode = opts.Reloc_Mode /\ opts'.Decls_Only = opts.Decls_Only
      /\ opts'.Enable_Fuzzer = opts.Enable_Fuzzer
      /\ opts'.Enable_Address_Sanitizer = opts.Enable_Address_Sanitizer
  BY <1>4 DEF Options
<1>6. TypeOK'
  BY <1>1, <1>2, <1>4 DEF TypeOK, Setup, Stopped
<1>7. NoMachineYet' /\ PositionIndependence' /\ MachineKnown'
  BY <1>1, <1>3, <1>4, <1>5 DEF NoMachineYet, PositionIndependence, MachineKnown, PICKnown, Scanning,
                                Seen, NoneSeen, LastSeen
<1>8. ModeKnown'
  <2>1. RequestedMode' = RequestedMode
    BY <1>1 DEF RequestedMode, Given, LastOf
  <2> QED BY <1>2, <1>3, <1>4, <1>5, <2>1, ModeRequested DEF ModeKnown, Scanning, Setup, Generating, Written
<1>9. SanitizersKnown' /\ PassesKnown' /\ WrittenKnown'
  BY <1>1, <1>2, <1>4, <1>5 DEF SanitizersKnown, Seen, PassesKnown, WrittenKnown, Scanning, Setup, Written
<1> QED BY <1>6, <1>7, <1>8, <1>9 DEF IInv

\* What becomes of the options when the machine is made, and the machine.
LEMMA MachineOptions ==
    ASSUME DOMAIN opts = Options
    PROVE  LET o == WithFeatures(WithCPU(WithReloc(WithDefaultPIE(opts))))
               default == ~opts.PIC_PIE_Set /\ Has_Default_PIE(opts.Target_Triple)
           IN  /\ DOMAIN o = Options
               /\ \A x \in Options \ {"PIC_Level", "PIE_Level", "Reloc_Mode", "CPU", "Features"} : o[x] = opts[x]
               /\ o.PIC_Level = IF default THEN 2 ELSE opts.PIC_Level
               /\ o.PIE_Level = IF default THEN 2 ELSE opts.PIE_Level
               /\ o.Reloc_Mode = IF o.PIC_Level # 0 /\ opts.Reloc_Mode = "default" THEN "PIC" ELSE opts.Reloc_Mode
               /\ Machine(o).Triple = opts.Target_Triple /\ Machine(o).Reloc = o.Reloc_Mode
<1> DEFINE default == ~opts.PIC_PIE_Set /\ Has_Default_PIE(opts.Target_Triple)
           Kept(o, S) == DOMAIN o = Options /\ \A x \in Options \ S : o[x] = opts[x]
<1>1. PICK o1 : o1 = WithDefaultPIE(opts)
  OBVIOUS
<1>2. /\ Kept(o1, {"PIC_Level", "PIE_Level"})
      /\ o1.PIC_Level = IF default THEN 2 ELSE opts.PIC_Level
      /\ o1.PIE_Level = IF default THEN 2 ELSE opts.PIE_Level
      /\ o1.Reloc_Mode = opts.Reloc_Mode
  BY <1>1 DEF WithDefaultPIE, Options
<1>3. PICK o2 : o2 = WithReloc(o1)
  OBVIOUS
<1>4. /\ Kept(o2, {"PIC_Level", "PIE_Level", "Reloc_Mode"})
      /\ o2.PIC_Level = o1.PIC_Level /\ o2.PIE_Level = o1.PIE_Level
      /\ o2.Reloc_Mode = IF o1.PIC_Level # 0 /\ opts.Reloc_Mode = "default" THEN "PIC" ELSE opts.Reloc_Mode
  BY <1>2, <1>3 DEF WithReloc, Options
<1>5. PICK o3 : o3 = WithCPU(o2)
  OBVIOUS
<1>6. /\ Kept(o3, {"PIC_Level", "PIE_Level", "Reloc_Mode", "CPU"})
      /\ o3.PIC_Level = o2.PIC_Level /\ o3.PIE_Level = o2.PIE_Level /\ o3.Reloc_Mode = o2.Reloc_Mode
  <2>1. \E c : o3 = [o2 EXCEPT !.CPU = c]
    BY <1>5 DEF WithCPU
  <2> QED BY <1>4, <2>1 DEF Options
<1>7. PICK o4 : o4 = WithFeatures(o3)
  OBVIOUS
<1>8. /\ Kept(o4, {"PIC_Level", "PIE_Level", "Reloc_Mode", "CPU", "Features"})
      /\ o4.PIC_Level = o3.PIC_Level /\ o4.PIE_Level = o3.PIE_Level /\ o4.Reloc_Mode = o3.Reloc_Mode
  <2>1. \E f : o4 = [o3 EXCEPT !.Features = f]
    BY <1>7 DEF WithFeatures
  <2> QED BY <1>6, <2>1 DEF Options
<1>9. o4.Target_Triple = opts.Target_Triple
  BY <1>8 DEF Options
<1>10. Machine(o4).Triple = opts.Target_Triple /\ Machine(o4).Reloc = o4.Reloc_Mode
  BY <1>9 DEF Machine
<1> HIDE DEF default
<1> QED BY <1>1, <1>2, <1>3, <1>4, <1>5, <1>6, <1>7, <1>8, <1>10 DEF default

\* PositionIndependence, with the name given to the levels.
LEMMA PositionIndependenceLevels ==
    PositionIndependence <=>
        (machine # NoMachine =>
            /\ stage \notin {"machine", "early_error", "crashed"} => <<module.pic, module.pie>> = Levels
            /\ machine.Reloc = IF Given("-mrelocation-model=static") THEN "static"
                               ELSE IF Levels[1] # 0 THEN "PIC" ELSE "default")
BY DEF PositionIndependence, Levels

LEMMA CreateMachineIInv ==
    ASSUME IInv, NEW found \in BOOLEAN, CreateMachine(found)
    PROVE  IInv'
<1>1. stage = "mode" /\ UNCHANGED <<line, scanned, types, module, verified, errors, written>>
  BY DEF CreateMachine, Stop
<1>2. /\ TypeOK /\ NoMachineYet /\ PositionIndependence /\ MachineKnown
      /\ ModeKnown /\ SanitizersKnown /\ PassesKnown /\ WrittenKnown
  BY DEF IInv
<1>3. /\ DOMAIN opts = Options /\ scanned = Len(line) /\ ~opts.Decls_Only /\ opts.Decls_Only \in BOOLEAN
      /\ opts.Code_Generation = RequestedMode
      /\ PICKnown /\ machine = NoMachine /\ module = NoModule
  BY <1>1, <1>2 DEF TypeOK, ModeKnown, NoMachineYet, Scanning, Setup
<1>4. RequestedMode' = RequestedMode
  BY <1>1 DEF RequestedMode, Given, LastOf
<1>5. CASE ~found
  <2>1. UNCHANGED <<opts, machine>> /\ stage' = "early_error"
    BY <1>5 DEF CreateMachine, Stop
  <2>2. TypeOK'
    BY <1>1, <1>2, <2>1 DEF TypeOK, Stopped
  <2>3. NoMachineYet' /\ PositionIndependence' /\ MachineKnown' /\ SanitizersKnown'
    BY <1>1, <1>2, <1>3, <2>1 DEF NoMachineYet, PositionIndependence, MachineKnown, SanitizersKnown, Seen, Scanning
  <2>4. ModeKnown' /\ PassesKnown' /\ WrittenKnown'
    BY <1>1, <1>2, <2>1 DEF ModeKnown, PassesKnown, WrittenKnown, Scanning, Setup, Generating, Written
  <2> QED BY <2>2, <2>3, <2>4 DEF IInv
<1>6. CASE found
  <2> DEFINE default == ~opts.PIC_PIE_Set /\ Has_Default_PIE(opts.Target_Triple)
  <2>1. /\ DOMAIN opts' = Options
        /\ \A x \in Options \ {"PIC_Level", "PIE_Level", "Reloc_Mode", "CPU", "Features"} : opts'[x] = opts[x]
        /\ opts'.PIC_Level = IF default THEN 2 ELSE opts.PIC_Level
        /\ opts'.PIE_Level = IF default THEN 2 ELSE opts.PIE_Level
        /\ opts'.Reloc_Mode = IF opts'.PIC_Level # 0 /\ opts.Reloc_Mode = "default" THEN "PIC"
                              ELSE opts.Reloc_Mode
        /\ machine'.Triple = opts.Target_Triple /\ machine'.Reloc = opts'.Reloc_Mode
        /\ stage' = "machine"
    BY <1>3, <1>6, MachineOptions DEF CreateMachine
  <2>2. /\ opts'.Decls_Only = opts.Decls_Only /\ opts'.Code_Generation = opts.Code_Generation
        /\ opts'.Enable_Fuzzer = opts.Enable_Fuzzer
        /\ opts'.Enable_Address_Sanitizer = opts.Enable_Address_Sanitizer
    BY <2>1 DEF Options
  <2>3. LastOf(PICSwitches)' = LastOf(PICSwitches)
    BY <1>1 DEF LastOf
  <2>4. /\ <<opts'.PIC_Level, opts'.PIE_Level>> = Levels'
        /\ Levels' \in {<<0, 0>>, <<1, 0>>, <<2, 0>>, <<1, 1>>, <<2, 2>>}
    <3>1. CASE opts.PIC_PIE_Set
      <4>1. PICK i \in 1 .. scanned :
               LastSeen(PICSwitches, i) /\ <<opts.PIC_Level, opts.PIE_Level>> = LevelsOf(line[i])
        BY <1>3, <3>1 DEF PICKnown
      <4>2. LastOf(PICSwitches) = line[i] /\ line[i] \in PICSwitches
        BY <1>2, <1>3, <4>1, LastOfSeen DEF LastSeen
      <4>3. Levels' = LevelsOf(line[i])
        BY <2>3, <4>2 DEF Levels, PICSwitches
      <4>4. LevelsOf(line[i]) \in {<<0, 0>>, <<1, 0>>, <<2, 0>>, <<1, 1>>, <<2, 2>>}
        BY <4>2 DEF LevelsOf, PICSwitches
      <4>5. opts'.PIC_Level = opts.PIC_Level /\ opts'.PIE_Level = opts.PIE_Level
        BY <2>1, <3>1
      <4> QED BY <4>1, <4>3, <4>4, <4>5
    <3>2. CASE ~opts.PIC_PIE_Set
      <4>1. LastOf(PICSwitches) = "" /\ opts.PIC_Level = 0 /\ opts.PIE_Level = 0
        BY <1>2, <1>3, <3>2, LastOfSeen DEF PICKnown
      <4>2. Levels' = IF Has_Default_PIE(opts.Target_Triple) THEN <<2, 2>> ELSE <<0, 0>>
        BY <2>1, <2>3, <4>1 DEF Levels
      <4> QED BY <2>1, <3>2, <4>1, <4>2
    <3> QED BY <3>1, <3>2
  <2> HIDE DEF default
  <2>5. PositionIndependence'
    <3>1. Given("-mrelocation-model=static")' <=> Seen("-mrelocation-model=static")
      BY <1>1, <1>2, <1>3, GivenSeen DEF Given
    <3>2. Levels'[1] = opts'.PIC_Level
      BY <2>4
    <3>3. machine'.Reloc = IF Given("-mrelocation-model=static")' THEN "static"
                           ELSE IF Levels'[1] # 0 THEN "PIC" ELSE "default"
      BY <1>3, <2>1, <3>1, <3>2 DEF PICKnown
    <3>4. (machine # NoMachine =>
              /\ stage \notin {"machine", "early_error", "crashed"} => <<module.pic, module.pie>> = Levels
              /\ machine.Reloc = IF Given("-mrelocation-model=static") THEN "static"
                                 ELSE IF Levels[1] # 0 THEN "PIC" ELSE "default")'
      BY <2>1, <3>3
    <3> QED BY <3>4, PositionIndependenceLevels, PTL
  <2>6. TypeOK'
    BY <1>1, <1>2, <2>1 DEF TypeOK, Setup
  <2>7. NoMachineYet' /\ MachineKnown'
    BY <1>1, <1>3, <2>1, <2>4 DEF NoMachineYet, MachineKnown, Scanning
  <2>8. ModeKnown'
    BY <1>1, <1>2, <1>3, <1>4, <2>1, <2>2 DEF ModeKnown, Scanning, Setup, Generating, Written
  <2>9. SanitizersKnown' /\ PassesKnown' /\ WrittenKnown'
    BY <1>1, <1>2, <2>1, <2>2 DEF SanitizersKnown, Seen, PassesKnown, WrittenKnown, Scanning, Setup, Written
  <2> QED BY <2>5, <2>6, <2>7, <2>8, <2>9 DEF IInv
<1> QED BY <1>5, <1>6

LEMMA GetTypesIInv ==
    ASSUME IInv, GetTypes
    PROVE  IInv'
<1>1. stage = "machine" /\ UNCHANGED <<line, scanned, opts, machine, verified, errors, written>>
  BY DEF GetTypes, Stop
<1>2. /\ TypeOK /\ NoMachineYet /\ PositionIndependence /\ MachineKnown
      /\ ModeKnown /\ SanitizersKnown /\ PassesKnown /\ WrittenKnown
  BY DEF IInv
<1>3. /\ module = NoModule /\ <<opts.PIC_Level, opts.PIE_Level>> = Levels
      /\ Levels \in {<<0, 0>>, <<1, 0>>, <<2, 0>>, <<1, 1>>, <<2, 2>>}
  BY <1>1, <1>2 DEF MachineKnown
<1>4. \/ stage' \in Stopped /\ module' = module
      \/ /\ stage' = "ready"
         /\ module' = IF opts.PIC_Level > 0
                      THEN Set_Module_PIC_PIE(module, opts.PIC_Level, opts.PIE_Level) ELSE module
  BY DEF GetTypes, Stop, Stopped
<1>5. /\ DOMAIN module' = {"pic", "pie", "passes", "tuning"} /\ module'.passes = <<>>
      /\ stage' = "ready" => <<module'.pic, module'.pie>> = Levels
  <2>1. CASE opts.PIC_Level > 0
    <3>1. PICK m : m = Set_Module_PIC_PIE(module, opts.PIC_Level, opts.PIE_Level)
      OBVIOUS
    <3>2. m = [pic |-> opts.PIC_Level, pie |-> opts.PIE_Level, passes |-> <<>>,
               tuning |-> [vectorize |-> FALSE, merge |-> FALSE]]
      BY <1>3, <3>1 DEF Set_Module_PIC_PIE, NoModule
    <3>3. DOMAIN m = {"pic", "pie", "passes", "tuning"} /\ m.passes = <<>>
      BY <3>2
    <3>4. m.pic = opts.PIC_Level /\ m.pie = opts.PIE_Level
      BY <3>2
    <3>5. DOMAIN module = {"pic", "pie", "passes", "tuning"} /\ module.passes = <<>>
      BY <1>3 DEF NoModule
    <3>6. module' = module \/ module' = m
      BY <1>4, <3>1
    <3>7. stage' = "ready" => module' = m
      BY <1>4, <2>1, <3>1 DEF Stopped
    <3> QED BY <1>3, <3>3, <3>4, <3>5, <3>6, <3>7
  <2>2. CASE ~(opts.PIC_Level > 0)
    <3>1. opts.PIC_Level = 0 /\ opts.PIE_Level = 0 /\ Levels = <<0, 0>>
      BY <1>3, <2>2
    <3> QED BY <1>3, <1>4, <2>2, <3>1 DEF NoModule
  <2> QED BY <2>1, <2>2
<1>6. Levels' = Levels /\ RequestedMode' = RequestedMode /\ \A s : Given(s)' <=> Given(s)
  BY <1>1 DEF Levels, LastOf, RequestedMode, Given
<1>7. PositionIndependence'
  <2>1. machine # NoMachine =>
           machine.Reloc = IF Given("-mrelocation-model=static") THEN "static"
                           ELSE IF Levels[1] # 0 THEN "PIC" ELSE "default"
    BY <1>2, PositionIndependenceLevels
  <2>2. (machine # NoMachine =>
            /\ stage \notin {"machine", "early_error", "crashed"} => <<module.pic, module.pie>> = Levels
            /\ machine.Reloc = IF Given("-mrelocation-model=static") THEN "static"
                               ELSE IF Levels[1] # 0 THEN "PIC" ELSE "default")'
    BY <1>1, <1>4, <1>5, <1>6, <2>1 DEF Stopped
  <2> QED BY <2>2, PositionIndependenceLevels, PTL
<1>8. TypeOK'
  BY <1>1, <1>2, <1>4, <1>5 DEF TypeOK, Setup, Stopped
<1>9. NoMachineYet' /\ MachineKnown'
  BY <1>4 DEF NoMachineYet, MachineKnown, Scanning, Stopped
<1>10. ModeKnown'
  BY <1>1, <1>2, <1>4, <1>6 DEF ModeKnown, Scanning, Setup, Generating, Written, Stopped
<1>11. SanitizersKnown' /\ PassesKnown' /\ WrittenKnown'
  BY <1>1, <1>2, <1>4, <1>5 DEF SanitizersKnown, Seen, PassesKnown, WrittenKnown, Written, Stopped
<1> QED BY <1>7, <1>8, <1>9, <1>10, <1>11 DEF IInv

(***************************************************************************)
(* The front end, and Generate_Code                                        *)
(***************************************************************************)
Late == {"ready", "translated"} \cup Generating \cup Written

\* What no step changes any more once the machine and the types are there.
LEMMA LateSteps ==
    ASSUME IInv, stage \in Late, stage' \in Late \ {"ready"}, UNCHANGED <<line, scanned, machine>>,
           DOMAIN opts' = Options, opts'.Enable_Fuzzer = opts.Enable_Fuzzer,
           opts'.Enable_Address_Sanitizer = opts.Enable_Address_Sanitizer,
           DOMAIN module' = DOMAIN module, module'.pic = module.pic, module'.pie = module.pie,
           verified' \in BOOLEAN
    PROVE  /\ TypeOK' /\ NoMachineYet' /\ PositionIndependence' /\ MachineKnown' /\ SanitizersKnown'
           /\ RequestedMode' = RequestedMode
<1>1. TypeOK /\ PositionIndependence /\ SanitizersKnown
  BY DEF IInv
<1>2. Levels' = Levels /\ RequestedMode' = RequestedMode /\ \A s : Given(s)' <=> Given(s)
  BY DEF Levels, LastOf, RequestedMode, Given
<1>3. TypeOK'
  BY <1>1 DEF TypeOK, Late, Scanning, Generating, Written, Setup
<1>4. NoMachineYet' /\ MachineKnown' /\ SanitizersKnown'
  BY <1>1 DEF NoMachineYet, MachineKnown, SanitizersKnown, Seen, Late, Scanning, Generating, Written
<1>5. PositionIndependence'
  <2>1. machine # NoMachine =>
           /\ <<module.pic, module.pie>> = Levels
           /\ machine.Reloc = IF Given("-mrelocation-model=static") THEN "static"
                              ELSE IF Levels[1] # 0 THEN "PIC" ELSE "default"
    BY <1>1, PositionIndependenceLevels DEF Late, Generating, Written
  <2>2. (machine # NoMachine =>
            /\ stage \notin {"machine", "early_error", "crashed"} => <<module.pic, module.pie>> = Levels
            /\ machine.Reloc = IF Given("-mrelocation-model=static") THEN "static"
                               ELSE IF Levels[1] # 0 THEN "PIC" ELSE "default")'
    BY <1>2, <2>1
  <2> QED BY <2>2, PositionIndependenceLevels, PTL
<1> QED BY <1>2, <1>3, <1>4, <1>5

LEMMA TranslateIInv ==
    ASSUME IInv, NEW decls \in BOOLEAN, NEW error \in BOOLEAN, Translate(decls, error)
    PROVE  IInv'
<1>1. /\ stage = "ready" /\ stage' = "translated"
      /\ opts' = IF decls THEN [opts EXCEPT !.Decls_Only = TRUE, !.Code_Generation = "None"] ELSE opts
      /\ UNCHANGED <<line, scanned, machine, types, module, verified, written>>
  BY DEF Translate
<1>2. TypeOK /\ ModeKnown /\ PassesKnown /\ WrittenKnown
  BY DEF IInv
<1>3. DOMAIN opts = Options /\ verified \in BOOLEAN
  BY <1>2 DEF TypeOK
<1>4. /\ DOMAIN opts' = Options /\ opts'.Enable_Fuzzer = opts.Enable_Fuzzer
      /\ opts'.Enable_Address_Sanitizer = opts.Enable_Address_Sanitizer
      /\ opts'.Decls_Only = IF decls THEN TRUE ELSE opts.Decls_Only
      /\ opts'.Code_Generation = IF decls THEN "None" ELSE opts.Code_Generation
  BY <1>1, <1>3 DEF Options
<1>5. /\ TypeOK' /\ NoMachineYet' /\ PositionIndependence' /\ MachineKnown' /\ SanitizersKnown'
      /\ RequestedMode' = RequestedMode
  BY <1>1, <1>3, <1>4, LateSteps DEF Late
<1>6. ModeKnown'
  BY <1>1, <1>2, <1>4, <1>5 DEF ModeKnown, Scanning, Setup, Generating, Written
<1>7. PassesKnown' /\ WrittenKnown'
  BY <1>1, <1>2 DEF PassesKnown, WrittenKnown, Scanning, Setup, Written
<1> QED BY <1>5, <1>6, <1>7 DEF IInv

LEMMA VerifyIInv ==
    ASSUME IInv, NEW bad \in BOOLEAN, Verify(bad)
    PROVE  IInv'
<1>1. /\ stage = "translated" /\ stage' = "verified" /\ verified' = ~bad /\ (bad => ~opts.Decls_Only)
      /\ opts' = IF Suppressed(opts, bad) THEN [opts EXCEPT !.Code_Generation = "None"] ELSE opts
      /\ UNCHANGED <<line, scanned, machine, types, module, errors, written>>
  BY DEF Verify
<1>2. TypeOK /\ ModeKnown /\ PassesKnown /\ WrittenKnown
  BY DEF IInv
<1>3. DOMAIN opts = Options /\ verified' \in BOOLEAN
  BY <1>1, <1>2 DEF TypeOK
<1>4. /\ DOMAIN opts' = Options /\ opts'.Enable_Fuzzer = opts.Enable_Fuzzer
      /\ opts'.Enable_Address_Sanitizer = opts.Enable_Address_Sanitizer
      /\ opts'.Decls_Only = opts.Decls_Only
      /\ opts'.Code_Generation = IF Suppressed(opts, bad) THEN "None" ELSE opts.Code_Generation
  BY <1>1, <1>3 DEF Options
<1>5. /\ TypeOK' /\ NoMachineYet' /\ PositionIndependence' /\ MachineKnown' /\ SanitizersKnown'
      /\ RequestedMode' = RequestedMode
  BY <1>1, <1>3, <1>4, LateSteps DEF Late, Generating
<1>6. RequestedMode # "None"
  BY DEF RequestedMode
<1>7. ModeKnown'
  <2>1. /\ opts.Decls_Only \in BOOLEAN
        /\ opts.Decls_Only => opts.Code_Generation = "None"
        /\ ~opts.Decls_Only => opts.Code_Generation = RequestedMode
    BY <1>1, <1>2 DEF ModeKnown
  <2>2. /\ opts'.Code_Generation = "None" /\ ~opts.Decls_Only => "translation" \in errors \/ bad
        /\ opts'.Code_Generation \in Code => ~bad /\ "translation" \notin errors
    BY <1>4, <1>6, <2>1 DEF Suppressed, Code
  <2>3. opts'.Code_Generation \in {opts.Code_Generation, "None"}
    BY <1>4
  <2> QED BY <1>1, <1>4, <1>5, <2>1, <2>2, <2>3 DEF ModeKnown, Scanning, Setup, Generating, Written
<1>8. PassesKnown' /\ WrittenKnown'
  BY <1>1, <1>2 DEF PassesKnown, WrittenKnown, Scanning, Setup, Written
<1> QED BY <1>5, <1>7, <1>8 DEF IInv

LEMMA LinkLibdeviceIInv ==
    ASSUME IInv, NEW fails \in BOOLEAN, LinkLibdevice(fails)
    PROVE  IInv'
<1>1. /\ stage = "verified" /\ stage' = "linked"
      /\ errors' = IF fails THEN errors \cup {"libdevice"} ELSE errors
      /\ UNCHANGED <<line, scanned, opts, machine, types, module, verified, written>>
  BY DEF LinkLibdevice
<1>2. TypeOK /\ ModeKnown /\ PassesKnown /\ WrittenKnown
  BY DEF IInv
<1>3. /\ TypeOK' /\ NoMachineYet' /\ PositionIndependence' /\ MachineKnown' /\ SanitizersKnown'
      /\ RequestedMode' = RequestedMode
  BY <1>1, <1>2, LateSteps DEF Late, Generating, TypeOK
<1>4. "translation" \in errors' <=> "translation" \in errors
  BY <1>1
<1>5. ModeKnown'
  BY <1>1, <1>2, <1>3, <1>4 DEF ModeKnown, Scanning, Setup, Generating, Written
<1>6. PassesKnown' /\ WrittenKnown'
  BY <1>1, <1>2 DEF PassesKnown, WrittenKnown, Scanning, Setup, Written
<1> QED BY <1>3, <1>5, <1>6 DEF IInv

\* The passes of a sanitizer are among those that are run.
LEMMA RangeOfConcatenation ==
    ASSUME NEW T, NEW x \in Seq(T), NEW y \in Seq(T)
    PROVE  /\ x \o y \in Seq(T) /\ Len(x \o y) = Len(x) + Len(y)
           /\ Range(x) \subseteq Range(x \o y) /\ Range(y) \subseteq Range(x \o y)
<1>1. /\ x \o y \in Seq(T) /\ Len(x \o y) = Len(x) + Len(y)
      /\ \A i \in 1 .. Len(x) : (x \o y)[i] = x[i]
      /\ \A i \in 1 .. Len(y) : (x \o y)[Len(x) + i] = y[i]
      /\ Len(x) \in Nat /\ Len(y) \in Nat
  OBVIOUS
<1>2. \A i \in DOMAIN x : i \in DOMAIN (x \o y) /\ (x \o y)[i] = x[i]
  BY <1>1
<1>3. \A i \in DOMAIN y : Len(x) + i \in DOMAIN (x \o y) /\ (x \o y)[Len(x) + i] = y[i]
  BY <1>1
<1> QED BY <1>1, <1>2, <1>3 DEF Range

LEMMA SanitizersInPasses ==
    ASSUME NEW o
    PROVE  /\ Passes(o) # <<>>
           /\ o.Enable_Fuzzer => "SanitizerCoverage" \in Range(Passes(o))
           /\ o.Enable_Address_Sanitizer => "AddressSanitizer" \in Range(Passes(o))
<1>1. PICK T : T = {Pipeline(o), "SanitizerCoverage", "AddressSanitizer", "LoopRotate", "OurLoopPass"}
  OBVIOUS
<1>2. \A cond, x : x \in T => OnlyIf(cond, x) \in Seq(T)
  <2> SUFFICES ASSUME NEW cond, NEW x \in T PROVE OnlyIf(cond, x) \in Seq(T)
    OBVIOUS
  <2>1. CASE cond
    BY <2>1 DEF OnlyIf
  <2>2. CASE ~cond
    BY <2>2 DEF OnlyIf
  <2> QED BY <2>1, <2>2
<1>3. PICK f : f = OnlyIf(o.Enable_Fuzzer, "SanitizerCoverage")
  OBVIOUS
<1>4. PICK a : a = OnlyIf(o.Enable_Address_Sanitizer, "AddressSanitizer")
  OBVIOUS
<1>5. PICK l : l = OnlyIf(o.Code_Opt_Level = 0 /\ o.Emit_C, "LoopRotate")
  OBVIOUS
<1>6. PICK c : c = OnlyIf(o.Emit_C, "OurLoopPass")
  OBVIOUS
<1>7. PICK b : b = <<Pipeline(o)>>
  OBVIOUS
<1>8. f \in Seq(T) /\ a \in Seq(T) /\ l \in Seq(T) /\ c \in Seq(T)
  BY <1>1, <1>2, <1>3, <1>4, <1>5, <1>6
<1>9. b \in Seq(T) /\ Len(b) = 1
  <2>1. Pipeline(o) \in T
    BY <1>1
  <2> QED BY <1>7, <2>1
<1>10. Passes(o) = ((b \o (f \o a)) \o l) \o c
  BY <1>3, <1>4, <1>5, <1>6, <1>7 DEF Passes, SanitizerPasses
<1>11. f \o a \in Seq(T) /\ Range(f) \subseteq Range(f \o a) /\ Range(a) \subseteq Range(f \o a)
  BY <1>8, RangeOfConcatenation
<1>12. PICK p : p = f \o a
  OBVIOUS
<1>13. /\ b \o p \in Seq(T) /\ Range(p) \subseteq Range(b \o p) /\ Len(b \o p) > 0
  <2>1. p \in Seq(T) /\ Len(p) \in Nat
    BY <1>11, <1>12
  <2>2. /\ b \o p \in Seq(T) /\ Range(p) \subseteq Range(b \o p) /\ Len(b \o p) = Len(b) + Len(p)
    BY <1>9, <2>1, RangeOfConcatenation
  <2> QED BY <1>9, <2>1, <2>2
<1>14. PICK q : q = b \o p
  OBVIOUS
<1>15. /\ q \o l \in Seq(T) /\ Range(q) \subseteq Range(q \o l) /\ Len(q \o l) > 0
  <2>1. q \in Seq(T) /\ Len(q) > 0 /\ Len(q) \in Nat /\ Len(l) \in Nat
    BY <1>8, <1>13, <1>14
  <2>2. /\ q \o l \in Seq(T) /\ Range(q) \subseteq Range(q \o l) /\ Len(q \o l) = Len(q) + Len(l)
    BY <1>8, <2>1, RangeOfConcatenation
  <2> QED BY <2>1, <2>2
<1>16. PICK r : r = q \o l
  OBVIOUS
<1>17. /\ r \o c \in Seq(T) /\ Range(r) \subseteq Range(r \o c) /\ Len(r \o c) > 0
  <2>1. r \in Seq(T) /\ Len(r) > 0 /\ Len(r) \in Nat /\ Len(c) \in Nat
    BY <1>8, <1>15, <1>16
  <2>2. /\ r \o c \in Seq(T) /\ Range(r) \subseteq Range(r \o c) /\ Len(r \o c) = Len(r) + Len(c)
    BY <1>8, <2>1, RangeOfConcatenation
  <2> QED BY <2>1, <2>2
<1>18. Passes(o) = r \o c
  BY <1>10, <1>12, <1>14, <1>16
<1>19. Range(f) \subseteq Range(Passes(o)) /\ Range(a) \subseteq Range(Passes(o))
  BY <1>11, <1>12, <1>13, <1>14, <1>15, <1>16, <1>17, <1>18
<1>20. Passes(o) # <<>>
  BY <1>17, <1>18
<1>21. \A x : x \in Range(<<x>>)
  BY DEF Range
<1> QED BY <1>3, <1>4, <1>19, <1>20, <1>21 DEF OnlyIf

LEMMA OptimizeIInv ==
    ASSUME IInv, NEW fails \in BOOLEAN, Optimize(fails)
    PROVE  IInv'
<1>1. /\ stage \in {"linked", "verified"} /\ stage' = "optimized" /\ verified
      /\ errors' = IF fails THEN errors \cup {"optimize"} ELSE errors
      /\ module' = IF fails THEN module ELSE [module EXCEPT !.passes = Passes(opts), !.tuning = Tuning(opts)]
      /\ UNCHANGED <<line, scanned, opts, machine, types, verified, written>>
  BY DEF Optimize, OptimizationFailure
<1>2. TypeOK /\ ModeKnown /\ PassesKnown /\ WrittenKnown
  BY DEF IInv
<1>3. /\ DOMAIN module = {"pic", "pie", "passes", "tuning"} /\ verified \in BOOLEAN
      /\ DOMAIN opts = Options
  BY <1>2 DEF TypeOK
<1>4. /\ DOMAIN module' = DOMAIN module /\ module'.pic = module.pic /\ module'.pie = module.pie
      /\ ~fails => module'.passes = Passes(opts)
      /\ fails => errors' # {}
  BY <1>1, <1>3
<1>5. /\ TypeOK' /\ NoMachineYet' /\ PositionIndependence' /\ MachineKnown' /\ SanitizersKnown'
      /\ RequestedMode' = RequestedMode
  BY <1>1, <1>3, <1>4, LateSteps DEF Late, Generating
<1>6. "translation" \in errors' <=> "translation" \in errors
  BY <1>1
<1>7. ModeKnown'
  BY <1>1, <1>2, <1>5, <1>6 DEF ModeKnown, Scanning, Setup, Generating, Written
<1>8. ~fails => Instrumented'
  BY <1>1, <1>4, SanitizersInPasses DEF Instrumented
<1>9. PassesKnown' /\ WrittenKnown'
  BY <1>1, <1>2, <1>4, <1>8 DEF PassesKnown, WrittenKnown, Scanning, Setup, Written
<1> QED BY <1>5, <1>7, <1>9 DEF IInv

LEMMA OutputIInv ==
    ASSUME IInv, NEW fails \in BOOLEAN, Output(fails)
    PROVE  IInv'
<1>1. /\ \/ stage = "optimized"
         \/ stage = "verified" /\ (~Optimizing \/ ~verified)
         \/ stage = "linked" /\ ~verified
      /\ stage' = "output"
      /\ written' = IF fails \/ opts.Code_Generation = "None" THEN "nothing" ELSE opts.Code_Generation
      /\ errors' = IF fails THEN errors \cup {"write"} ELSE errors
      /\ UNCHANGED <<line, scanned, opts, machine, types, module, verified>>
  BY DEF Output
<1>2. TypeOK /\ ModeKnown /\ PassesKnown /\ WrittenKnown
  BY DEF IInv
<1>3. /\ TypeOK' /\ NoMachineYet' /\ PositionIndependence' /\ MachineKnown' /\ SanitizersKnown'
      /\ RequestedMode' = RequestedMode
  BY <1>1, <1>2, LateSteps DEF Late, Generating, Written, TypeOK
<1>4. /\ "translation" \in errors' <=> "translation" \in errors
      /\ errors' = {} => errors = {}
      /\ fails => errors' # {}
  BY <1>1
<1>5. ModeKnown'
  BY <1>1, <1>2, <1>3, <1>4 DEF ModeKnown, Scanning, Setup, Generating, Written
<1>6. WrittenKnown'
  <2>1. opts.Code_Generation \in {RequestedMode, "None"} /\ RequestedMode # "nothing"
    BY <1>1, <1>2 DEF ModeKnown, Generating, RequestedMode
  <2>2. CASE fails
    BY <1>1, <1>4, <2>2 DEF WrittenKnown, Written
  <2>3. CASE ~fails /\ opts.Code_Generation = "None"
    <3>1. written' = "nothing" /\ opts' = opts /\ stage' = "output"
      BY <1>1, <2>3
    <3> QED BY <2>3, <3>1 DEF WrittenKnown, Written
  <2>4. CASE ~fails /\ opts.Code_Generation # "None"
    <3>1. written' = opts.Code_Generation /\ opts' = opts /\ stage' = "output"
      BY <1>1, <2>4
    <3> QED BY <2>1, <2>4, <3>1 DEF WrittenKnown, Written
  <2> QED BY <2>2, <2>3, <2>4
<1>7. opts.Code_Generation \in Code => stage = "optimized"
  <2> SUFFICES ASSUME opts.Code_Generation \in Code PROVE stage = "optimized"
    OBVIOUS
  <2>1. verified /\ ~opts.Decls_Only
    BY <1>1, <1>2 DEF ModeKnown, Generating, Code
  <2> QED BY <1>1, <2>1 DEF Optimizing, Code
<1>8. PassesKnown'
  BY <1>1, <1>2, <1>4, <1>7 DEF PassesKnown, Instrumented, Scanning, Setup, Written
<1> QED BY <1>3, <1>5, <1>6, <1>8 DEF IInv

LEMMA ReleaseIInv ==
    ASSUME IInv, Release
    PROVE  IInv'
<1>1. /\ stage = "output" /\ stage' = IF verified THEN "ended" ELSE "raised"
      /\ UNCHANGED <<line, scanned, opts, machine, types, module, verified, errors, written>>
  BY DEF Release
<1>2. TypeOK /\ ModeKnown /\ PassesKnown /\ WrittenKnown
  BY DEF IInv
<1>3. /\ TypeOK' /\ NoMachineYet' /\ PositionIndependence' /\ MachineKnown' /\ SanitizersKnown'
      /\ RequestedMode' = RequestedMode
  BY <1>1, <1>2, LateSteps DEF Late, Written, TypeOK
<1>4. ModeKnown'
  BY <1>1, <1>2, <1>3 DEF ModeKnown, Scanning, Setup, Generating, Written
<1>5. PassesKnown' /\ WrittenKnown'
  BY <1>1, <1>2 DEF PassesKnown, WrittenKnown, Instrumented, Scanning, Setup, Written
<1> QED BY <1>3, <1>4, <1>5 DEF IInv

LEMMA NextIInv == IInv /\ [Next]_vars => IInv'
<1> SUFFICES ASSUME IInv, [Next]_vars PROVE IInv'
  OBVIOUS
<1>1. CASE Initialize_GNAT_LLVM
  BY <1>1, ProcessSwitchIInv, FinishScanIInv, SetModeIInv, CreateMachineIInv, GetTypesIInv
     DEF Initialize_GNAT_LLVM
<1>2. CASE \E decls, error \in BOOLEAN : Translate(decls, error)
  BY <1>2, TranslateIInv
<1>3. CASE Generate_Code
  BY <1>3, VerifyIInv, LinkLibdeviceIInv, OptimizeIInv, OutputIInv, ReleaseIInv DEF Generate_Code
<1>4. CASE UNCHANGED vars
  <2>1. TypeOK' /\ NoMachineYet' /\ MachineKnown'
    BY <1>4 DEF vars, IInv, TypeOK, NoMachineYet, PICKnown, MachineKnown, Levels, LastOf, Seen,
                NoneSeen, LastSeen
  <2>2. PositionIndependence'
    BY <1>4 DEF vars, IInv, PositionIndependence, LastOf, Given
  <2>3. ModeKnown'
    BY <1>4 DEF vars, IInv, ModeKnown, OutputKnown, RequestedMode, Given, LastOf, Seen, NoneSeen, LastSeen
  <2>4. SanitizersKnown' /\ PassesKnown' /\ WrittenKnown'
    BY <1>4 DEF vars, IInv, SanitizersKnown, Seen, PassesKnown, Instrumented, WrittenKnown
  <2> QED BY <2>1, <2>2, <2>3, <2>4 DEF IInv
<1> QED BY <1>1, <1>2, <1>3, <1>4 DEF Next

LEMMA IInvHolds == Spec => []IInv
<1>1. Init => IInv
  BY InitIInv
<1>2. IInv /\ [Next]_vars => IInv'
  BY NextIInv
<1> QED BY <1>1, <1>2, PTL DEF Spec

(***************************************************************************)
(* The properties                                                          *)
(***************************************************************************)
\* The machine and the module agree with the last PIC or PIE option of the
\* command line, however long it is, and without one with the default of the
\* target that was chosen last.
THEOREM LevelsAgree == Spec => []PositionIndependence
<1>1. IInv => PositionIndependence
  BY DEF IInv
<1> QED BY <1>1, IInvHolds, PTL

\* Generate_Code makes code only of a module that was verified and translated
\* without error, and runs the passes on no other.
THEOREM CodeFromGoodModule == Spec => []NoCodeFromBadModule
<1>1. IInv => NoCodeFromBadModule
  <2> SUFFICES ASSUME IInv PROVE NoCodeFromBadModule
    OBVIOUS
  <2>1. written \in Code => stage \in Written /\ opts.Code_Generation \in Code
    BY DEF IInv, WrittenKnown, Code
  <2>2. written \in Code => verified /\ "translation" \notin errors
    BY <2>1 DEF IInv, ModeKnown
  <2> QED BY <2>2 DEF NoCodeFromBadModule, IInv, PassesKnown, Code
<1> QED BY <1>1, IInvHolds, PTL

\* If nothing is reported, what the switches ask for has been written, and has
\* been optimized if it is code.
THEOREM NoFailureInSilence == Spec => []FailuresReported
<1>1. IInv => FailuresReported
  <2> SUFFICES ASSUME IInv, stage = "ended", errors = {}
               PROVE  /\ written = Requested
                      /\ Requested \in Code => module.passes # <<>>
    BY DEF FailuresReported, Code
  <2>1. ModeKnown /\ PassesKnown /\ WrittenKnown
    BY DEF IInv
  <2>2. Requested = IF opts.Decls_Only THEN "nothing" ELSE RequestedMode
    BY DEF Requested, RequestedMode, Dumps
  <2>3. RequestedMode # "None"
    BY DEF RequestedMode
  <2>4. CASE opts.Decls_Only
    BY <2>1, <2>2, <2>4 DEF ModeKnown, WrittenKnown, Written, Code
  <2>5. CASE ~opts.Decls_Only
    <3>1. opts.Code_Generation = RequestedMode
      BY <2>1, <2>5 DEF ModeKnown, Written
    <3>2. written = RequestedMode
      BY <2>1, <2>3, <3>1 DEF WrittenKnown, Written
    <3> QED BY <2>1, <2>2, <2>5, <3>1, <3>2 DEF PassesKnown, Instrumented, Written
  <2> QED BY <2>4, <2>5
<1> QED BY <1>1, IInvHolds, PTL

\* The sanitizers asked for are among the passes that made the code, at every
\* level of optimization.
THEOREM SanitizersRun == Spec => []SanitizersApplied
<1>1. IInv => SanitizersApplied
  <2> SUFFICES ASSUME IInv, written \in Code, errors = {}
               PROVE  /\ Given("-fsanitize=fuzzer") => "SanitizerCoverage" \in Range(module.passes)
                      /\ Given("-fsanitize=address") => "AddressSanitizer" \in Range(module.passes)
    BY DEF SanitizersApplied, Code
  <2>1. TypeOK /\ SanitizersKnown /\ PassesKnown /\ WrittenKnown
    BY DEF IInv
  <2>2. stage \in Written /\ opts.Code_Generation \in Code
    BY <2>1 DEF WrittenKnown, Code
  <2>3. scanned = Len(line)
    BY <2>1, <2>2 DEF TypeOK, Written
  <2>4. Instrumented
    BY <2>1, <2>2 DEF PassesKnown
  <2> QED BY <2>1, <2>3, <2>4, GivenSeen DEF SanitizersKnown, Instrumented
<1> QED BY <1>1, IInvHolds, PTL

(***************************************************************************)
(* The features                                                            *)
(***************************************************************************)
\* The architectures that -march= and the default can give; the features that
\* they imply and that the switches name.
Arches == {NoArch, March["armv8-a+crc+what"], March["armv9-z"]}
Names == {"neon", "v8a", "crc"}
Features == [on : BOOLEAN, name : Names]

LEMMA FlattenPair ==
    ASSUME NEW a, NEW b
    PROVE  FlattenSeq(<<a, b>>) = a \o b
<1> DEFINE s == <<a, b>>
           Joined(f) == f = [i \in 1 .. 2 |-> IF i = 1 THEN s[i] ELSE f[i - 1] \o s[i]]
           g == [i \in 1 .. 2 |-> IF i = 1 THEN a ELSE a \o b]
<1>1. Len(s) = 2
  OBVIOUS
<1>2. Joined(g)
  OBVIOUS
<1>3. PICK f : f = CHOOSE h : Joined(h)
  BY Zenon
<1>4. Joined(f)
  BY <1>2, <1>3, Zenon
<1>5. f[1] = a /\ f[2] = a \o b
  <2>1. \A i \in 1 .. 2 : f[i] = IF i = 1 THEN s[i] ELSE f[i - 1] \o s[i]
    <3> HIDE DEF s
    <3> QED BY <1>4, Zenon
  <2>2. f[1] = s[1] /\ f[2] = f[2 - 1] \o s[2]
    BY <2>1
  <2>3. s[1] = a /\ s[2] = b /\ 2 - 1 = 1
    OBVIOUS
  <2> HIDE DEF s
  <2> QED BY <2>2, <2>3
<1>6. FlattenSeq(s) = f[Len(s)]
  BY <1>1, <1>3 DEF FlattenSeq
<1> QED BY <1>1, <1>5, <1>6

LEMMA FlattenNone == FlattenSeq(<<>>) = <<>>
BY DEF FlattenSeq

LEMMA FeaturesOfArch ==
    ASSUME NEW t, NEW march \in Arches, NEW cpu
    PROVE  Get_Features(t, march, cpu) \in Seq(Features)
<1> DEFINE exts == FlattenSeq([i \in DOMAIN march.exts |-> ArchExtFeature(march.exts[i])])
<1>1. exts \in Seq(Names)
  <2>1. CASE march = March["armv8-a+crc+what"]
    <3>1. march.exts = <<"crc", "what">>
      BY <2>1 DEF March
    <3>2. [i \in DOMAIN march.exts |-> ArchExtFeature(march.exts[i])] = <<<<"crc">>, <<>>>>
      BY <3>1 DEF ArchExtFeature
    <3>3. exts = <<"crc">> \o <<>>
      BY <3>2, FlattenPair
    <3>4. <<"crc">> \in Seq(Names) /\ <<>> \in Seq(Names)
      BY DEF Names
    <3> HIDE DEF exts
    <3>5. \A x, y \in Seq(Names) : x \o y \in Seq(Names)
      OBVIOUS
    <3> QED BY <3>3, <3>4, <3>5
  <2>2. CASE march \in {NoArch, March["armv9-z"]}
    <3>1. March["armv9-z"].exts = <<>> /\ NoArch.exts = <<>>
      BY DEF March, NoArch
    <3>2. march.exts = <<>>
      BY <2>2, <3>1
    <3>3. [i \in DOMAIN march.exts |-> ArchExtFeature(march.exts[i])] = <<>>
      BY <3>2
    <3> QED BY <3>3, FlattenNone
  <2> QED BY <2>1, <2>2 DEF Arches
<1>2. \A a : ParsedArch(a) \in Seq(Names)
  <2>1. <<"v8a">> \in Seq(Names) /\ <<>> \in Seq(Names)
    BY DEF Names
  <2> QED BY <2>1, Zenon DEF ParsedArch
<1> HIDE DEF exts
<1>3. \A a : <<"neon">> \o ParsedArch(a) \o exts \in Seq(Names)
  <2>1. <<"neon">> \in Seq(Names)
    BY DEF Names
  <2> QED BY <1>1, <1>2, <2>1
<1>4. ASSUME NEW names \in Seq(Names) PROVE On(names) \in Seq(Features)
  <2>1. On(names) \in [1 .. Len(names) -> Features] /\ Len(names) \in Nat
    BY DEF On, Feature, Features
  <2> QED BY <2>1
<1>5. \/ Get_Features(t, march, cpu) = <<>>
      \/ \E a : Get_Features(t, march, cpu) = On(<<"neon">> \o ParsedArch(a) \o exts)
  BY DEF Get_Features, exts
<1>6. <<>> \in Seq(Features)
  OBVIOUS
<1>7. CASE Get_Features(t, march, cpu) = <<>>
  BY <1>6, <1>7
<1> QED BY <1>3, <1>4, <1>5, <1>7

\* The last feature switch so far is the last feature.
FeatureSwitch == DOMAIN FeatureSwitches
FeaturesKnown(fs) ==
    /\ fs \in Seq(Features)
    /\ \/ NoneSeen(FeatureSwitch)
       \/ \E i \in 1 .. scanned :
             LastSeen(FeatureSwitch, i) /\ Len(fs) > 0 /\ fs[Len(fs)] = FeatureSwitches[line[i]]

ArchKnown == stage \in Scanning \cup {"mode"} => opts.Arch \in Arches /\ FeaturesKnown(opts.Features)

FeaturesInv == ArchKnown /\ UserFeaturesWin

\* What a switch does to the architecture and the features.
LEMMA ProcessedFeatures ==
    ASSUME NEW o, DOMAIN o = Options, NEW s \in Switches, o.Arch \in Arches
    PROVE  /\ Processed(o, s).Arch \in Arches
           /\ Processed(o, s).Features = IF s \in FeatureSwitch THEN Append(o.Features, FeatureSwitches[s])
                                         ELSE o.Features
<1> USE DEF Options, FeatureSwitch
<1> DEFINE p == Processed(o, s)
           Same == p.Arch = o.Arch /\ p.Features = o.Features
<1>0. FeatureSwitch = {"-mcrc", "-mno-crc"}
  BY DEF FeatureSwitches
<1>1. CASE s \in {"-fpic", "-fPIC"}
  <2>1. Same
    BY <1>1, ZenonT(60) DEF Processed, PICSwitches, FeatureSwitches, WithPIC
  <2> QED BY <1>0, <1>1, <2>1
<1>2. CASE s \in {"-fpie", "-fPIE", "-fno-pic"}
  <2>1. Same
    BY <1>2, ZenonT(60) DEF Processed, PICSwitches, FeatureSwitches, WithPIC
  <2> QED BY <1>0, <1>2, <2>1
<1>3. CASE s \in {"--dump-ir", "--write-bc", "-emit-c", "-emit-llvm", "-S", "-fno-optimize-ir"}
  <2>1. Same
    BY <1>3, ZenonT(60) DEF Processed, PICSwitches, FeatureSwitches
  <2> QED BY <1>0, <1>3, <2>1
<1>4. CASE s = "--target=x86_64-windows" \/ s = "-mcpu=what"
  <2>1. Same
    BY <1>4, ZenonT(60) DEF Processed, PICSwitches, FeatureSwitches
  <2> QED BY <1>0, <1>4, <2>1
<1>5. CASE s \in {"-march=armv8-a+crc+what", "-march=armv9-z"}
  <2>1. CASE s = "-march=armv8-a+crc+what"
    <3>1. p = [o EXCEPT !.Arch = March["armv8-a+crc+what"]]
      BY <2>1 DEF Processed, PICSwitches, FeatureSwitches
    <3>2. p.Arch = March["armv8-a+crc+what"] /\ p.Features = o.Features
      BY <3>1
    <3> QED BY <1>0, <2>1, <3>2 DEF Arches
  <2>2. CASE s = "-march=armv9-z"
    <3>1. p = [o EXCEPT !.Arch = March["armv9-z"]]
      BY <2>2 DEF Processed, PICSwitches, FeatureSwitches
    <3>2. p.Arch = March["armv9-z"] /\ p.Features = o.Features
      BY <3>1
    <3> QED BY <1>0, <2>2, <3>2 DEF Arches
  <2> QED BY <1>5, <2>1, <2>2
<1>6. CASE s = "-mtune=cortex-a53"
  <2>1. p = IF o.CPU = "generic" /\ o.Arch = NoArch THEN [o EXCEPT !.CPU = "cortex-a53"] ELSE o
    BY <1>6 DEF Processed, PICSwitches, FeatureSwitches
  <2>2. Same
    BY <2>1
  <2> QED BY <1>0, <1>6, <2>2
<1>7. CASE s \in {"-mabi=purecap", "-mabi=lp64", "-mrelocation-model=static"}
  <2>1. Same
    BY <1>7, ZenonT(60) DEF Processed, PICSwitches, FeatureSwitches
  <2> QED BY <1>0, <1>7, <2>1
<1>8. CASE s \in FeatureSwitch
  <2>1. p = [o EXCEPT !.Features = Append(@, FeatureSwitches[s])]
    BY <1>0, <1>8 DEF Processed
  <2>2. p.Features = Append(o.Features, FeatureSwitches[s]) /\ p.Arch = o.Arch
    BY <2>1
  <2> QED BY <1>8, <2>2
<1>9. CASE s \in {"-O2", "-fvectorize", "-fmerge-functions", "-fno-lto", "-flto", "-flto=thin"}
  <2>1. Same
    BY <1>9, ZenonT(60) DEF Processed, PICSwitches, FeatureSwitches
  <2> QED BY <1>0, <1>9, <2>1
<1>10. CASE s \in {"-fsanitize=fuzzer", "-fsanitize=address", "-fpass-plugin=p"}
  <2>1. Same
    BY <1>10, ZenonT(60) DEF Processed, PICSwitches, FeatureSwitches
  <2> QED BY <1>0, <1>10, <2>1
<1> QED BY <1>1, <1>2, <1>3, <1>4, <1>5, <1>6, <1>7, <1>8, <1>9, <1>10 DEF Switches, PICSwitches

\* The features of the machine: those of the options, after those of the
\* architecture.
LEMMA MachineFeatures ==
    ASSUME DOMAIN opts = Options
    PROVE  \E t, cpu : LET o == WithFeatures(WithCPU(WithReloc(WithDefaultPIE(opts))))
                       IN  Machine(o).Features = Get_Features(t, opts.Arch, cpu) \o opts.Features
<1> DEFINE Same(o) == DOMAIN o = Options /\ o.Arch = opts.Arch /\ o.Features = opts.Features
<1>1. PICK o1 : o1 = WithDefaultPIE(opts)
  OBVIOUS
<1>2. Same(o1)
  BY <1>1 DEF WithDefaultPIE, Options
<1>3. PICK o2 : o2 = WithReloc(o1)
  OBVIOUS
<1>4. Same(o2)
  BY <1>2, <1>3 DEF WithReloc, Options
<1>5. PICK o3 : o3 = WithCPU(o2)
  OBVIOUS
<1>6. Same(o3)
  <2>1. \E c : o3 = [o2 EXCEPT !.CPU = c]
    BY <1>5 DEF WithCPU
  <2> QED BY <1>4, <2>1 DEF Options
<1>7. PICK o4 : o4 = WithFeatures(o3)
  OBVIOUS
<1>8. o4.Features = Get_Features(o3.Target_Triple, opts.Arch, o3.CPU) \o opts.Features
  BY <1>6, <1>7 DEF WithFeatures, Options
<1>9. Machine(o4).Features = o4.Features
  BY DEF Machine
<1> QED BY <1>1, <1>3, <1>5, <1>7, <1>8, <1>9

LEMMA InitFeatures == Init => FeaturesInv
<1> SUFFICES ASSUME Init PROVE FeaturesInv
  OBVIOUS
<1>1. PICK t \in Triples : opts = Defaults(t)
  BY DEF Init
<1>2. scanned = 0 /\ machine = NoMachine
  BY DEF Init
<1>3. opts.Arch = NoArch /\ opts.Features = <<>>
  BY <1>1 DEF Defaults
<1>4. NoneSeen(FeatureSwitch)
  BY <1>2 DEF NoneSeen
<1>5. FeaturesKnown(opts.Features)
  BY <1>3, <1>4 DEF FeaturesKnown
<1> QED BY <1>2, <1>3, <1>5 DEF FeaturesInv, ArchKnown, Arches, UserFeaturesWin

LEMMA ProcessSwitchFeatures ==
    ASSUME IInv, FeaturesInv, Process_Switch
    PROVE  FeaturesInv'
<1> DEFINE s == line[scanned + 1]
<1>1. /\ stage = "switches" /\ scanned < Len(line) /\ opts' = Processed(opts, s)
      /\ scanned' = scanned + 1 /\ UNCHANGED <<line, machine, stage>>
  BY DEF Process_Switch
<1>2. s \in Switches /\ scanned \in Nat /\ Len(line) \in Nat /\ DOMAIN opts = Options
  BY <1>1 DEF IInv, TypeOK
<1>3. opts.Arch \in Arches /\ FeaturesKnown(opts.Features)
  BY <1>1 DEF FeaturesInv, ArchKnown, Scanning
<1> HIDE DEF s
<1>4. PICK fs, gs : fs = opts.Features /\ gs = opts'.Features
  OBVIOUS
<1>5. opts'.Arch \in Arches /\ gs = IF s \in FeatureSwitch THEN Append(fs, FeatureSwitches[s]) ELSE fs
  BY <1>1, <1>2, <1>3, <1>4, ProcessedFeatures
<1>6. fs \in Seq(Features)
  BY <1>3, <1>4 DEF FeaturesKnown
<1>7. FeaturesKnown(gs)'
  <2>1. CASE s \in FeatureSwitch
    <3>1. PICK k : k = scanned + 1
      OBVIOUS
    <3>2. FeatureSwitches[s] \in Features
      BY <2>1 DEF FeatureSwitch, FeatureSwitches, Feature, Features, Names
    <3>3. gs \in Seq(Features) /\ Len(gs) > 0 /\ gs[Len(gs)] = FeatureSwitches[s]
      BY <1>5, <1>6, <2>1, <3>2
    <3>4. k \in 1 .. scanned' /\ LastSeen(FeatureSwitch, k)' /\ line'[k] = s
      BY <1>1, <1>2, <2>1, <3>1 DEF LastSeen, s
    <3> QED BY <3>3, <3>4 DEF FeaturesKnown
  <2>2. CASE s \notin FeatureSwitch
    <3>1. gs = fs
      BY <1>5, <2>2
    <3>2. NoneSeen(FeatureSwitch) => NoneSeen(FeatureSwitch)'
      BY <1>1, <1>2, <2>2 DEF NoneSeen, s
    <3>3. \A i \in 1 .. scanned : LastSeen(FeatureSwitch, i) =>
             i \in 1 .. scanned' /\ LastSeen(FeatureSwitch, i)' /\ line'[i] = line[i]
      BY <1>1, <1>2, <2>2 DEF LastSeen, s
    <3> QED BY <1>3, <1>4, <3>1, <3>2, <3>3 DEF FeaturesKnown
  <2> QED BY <2>1, <2>2
<1>8. UserFeaturesWin'
  BY <1>1 DEF FeaturesInv, UserFeaturesWin, LastOf
<1> QED BY <1>4, <1>5, <1>7, <1>8 DEF FeaturesInv, ArchKnown

\* What is last among the options is last in the machine.
LEMMA CreateMachineFeatures ==
    ASSUME IInv, FeaturesInv, NEW found \in BOOLEAN, CreateMachine(found)
    PROVE  FeaturesInv'
<1>1. stage = "mode" /\ UNCHANGED <<line, scanned>> /\ stage' \in {"early_error", "machine"}
  BY DEF CreateMachine, Stop
<1>2. DOMAIN opts = Options /\ scanned = Len(line) /\ TypeOK
  BY <1>1 DEF IInv, TypeOK
<1>3. opts.Arch \in Arches /\ FeaturesKnown(opts.Features)
  BY <1>1 DEF FeaturesInv, ArchKnown
<1>4. ArchKnown'
  BY <1>1 DEF ArchKnown, Scanning
<1>5. CASE ~found
  <2>1. UNCHANGED machine
    BY <1>5 DEF CreateMachine, Stop
  <2> QED BY <1>1, <1>4, <2>1 DEF FeaturesInv, UserFeaturesWin, LastOf
<1>6. CASE found
  <2>1. PICK t, cpu : machine'.Features = Get_Features(t, opts.Arch, cpu) \o opts.Features
    BY <1>2, <1>6, MachineFeatures DEF CreateMachine
  <2>2. PICK fs, gs : fs = opts.Features /\ gs = machine'.Features
    OBVIOUS
  <2>3. PICK arch \in Seq(Features) : gs = arch \o fs
    BY <1>3, <2>1, <2>2, FeaturesOfArch
  <2>4. fs \in Seq(Features)
    BY <1>3, <2>2 DEF FeaturesKnown
  <2>5. LastOf(FeatureSwitch)' = LastOf(FeatureSwitch)
    BY <1>1 DEF LastOf
  <2>6. ASSUME LastOf(FeatureSwitch) # ""
        PROVE  Enabled(gs, "crc") = FeatureSwitches[LastOf(FeatureSwitch)].on
    <3>1. PICK i \in 1 .. scanned :
             LastSeen(FeatureSwitch, i) /\ Len(fs) > 0 /\ fs[Len(fs)] = FeatureSwitches[line[i]]
      BY <1>2, <1>3, <2>2, <2>6, LastOfSeen DEF FeaturesKnown
    <3>2. LastOf(FeatureSwitch) = line[i] /\ line[i] \in FeatureSwitch
      BY <1>2, <3>1, LastOfSeen DEF LastSeen
    <3>3. PICK k : k = Len(gs)
      OBVIOUS
    <3>4. k \in DOMAIN gs /\ (\A j \in DOMAIN gs : j <= k) /\ DOMAIN gs \subseteq Nat /\ gs[k] = fs[Len(fs)]
      BY <2>3, <2>4, <3>1, <3>3
    <3>5. gs[k] = FeatureSwitches[line[i]] /\ gs[k].name = "crc"
      BY <3>1, <3>2, <3>4 DEF FeatureSwitch, FeatureSwitches, Feature
    <3> DEFINE I == {j \in DOMAIN gs : gs[j].name = "crc"}
    <3>6. k \in I /\ \A j \in I : j <= k
      BY <3>4, <3>5
    <3>7. \A n \in I : (\A j \in I : j <= n) => n = k
      BY <3>4, <3>6
    <3>8. (CHOOSE n \in I : \A j \in I : j <= n) = k
      BY <3>6, <3>7
    <3>9. Enabled(gs, "crc") = gs[k].on
      <4>1. gs[k].on \in BOOLEAN
        <5>1. gs[k] \in Features
          BY <2>4, <3>1, <3>4
        <5> QED BY <5>1 DEF Features
      <4> QED BY <3>6, <3>8, <4>1 DEF Enabled
    <3> QED BY <3>2, <3>5, <3>9
  <2>7. UserFeaturesWin'
    BY <2>2, <2>5, <2>6 DEF UserFeaturesWin, FeatureSwitch
  <2> QED BY <1>4, <2>7 DEF FeaturesInv
<1> QED BY <1>5, <1>6

LEMMA NextFeatures == IInv /\ FeaturesInv /\ [Next]_vars => FeaturesInv'
<1> SUFFICES ASSUME IInv, FeaturesInv, [Next]_vars PROVE FeaturesInv'
  OBVIOUS
<1>1. CASE Process_Switch
  BY <1>1, ProcessSwitchFeatures
<1>2. CASE \E b \in BOOLEAN : CreateMachine(b)
  BY <1>2, CreateMachineFeatures
<1>3. ASSUME UNCHANGED <<line, scanned, machine>>,
             stage' \in Scanning \cup {"mode"} =>
                /\ stage \in Scanning \cup {"mode"}
                /\ opts'.Arch = opts.Arch /\ opts'.Features = opts.Features
      PROVE  FeaturesInv'
  <2>1. UserFeaturesWin'
    BY <1>3 DEF FeaturesInv, UserFeaturesWin, LastOf
  <2>2. FeaturesKnown(opts.Features) => FeaturesKnown(opts.Features)'
           \/ stage' \notin Scanning \cup {"mode"}
    BY <1>3 DEF FeaturesKnown, NoneSeen, LastSeen
  <2> QED BY <1>3, <2>1, <2>2 DEF FeaturesInv, ArchKnown
<1>4. DOMAIN opts = Options
  BY DEF IInv, TypeOK
<1>5. CASE FinishScan
  <2>1. opts'.Arch = opts.Arch /\ opts'.Features = opts.Features
    BY <1>4, <1>5 DEF FinishScan, Finished, Options
  <2> QED BY <1>3, <1>5, <2>1 DEF FinishScan, Scanning
<1>6. CASE \E b \in BOOLEAN : SetMode(b)
  <2>1. opts'.Arch = opts.Arch /\ opts'.Features = opts.Features
    BY <1>4, <1>6 DEF SetMode, Stop, Options
  <2> QED BY <1>3, <1>6, <2>1 DEF SetMode, Stop, Scanning
<1>7. CASE GetTypes
  BY <1>3, <1>7 DEF GetTypes, Stop, Scanning
<1>8. CASE \E decls, error \in BOOLEAN : Translate(decls, error)
  BY <1>3, <1>8 DEF Translate, Scanning
<1>9. CASE Generate_Code
  BY <1>3, <1>9 DEF Generate_Code, Verify, LinkLibdevice, Optimize, Output, Release, Scanning
<1>10. CASE UNCHANGED vars
  BY <1>3, <1>10 DEF vars
<1> QED BY <1>1, <1>2, <1>5, <1>6, <1>7, <1>8, <1>9, <1>10 DEF Next, Initialize_GNAT_LLVM

\* The last switch that turns a feature on or off decides, on a command line
\* of any length, whatever -march= implies.
THEOREM UserFeaturesDecide == Spec => []UserFeaturesWin
<1>1. Init => FeaturesInv
  BY InitFeatures
<1>2. IInv /\ FeaturesInv /\ [Next]_vars => FeaturesInv'
  BY NextFeatures
<1>3. FeaturesInv => UserFeaturesWin
  BY DEF FeaturesInv
<1> QED BY <1>1, <1>2, <1>3, IInvHolds, PTL DEF Spec
=============================================================================
