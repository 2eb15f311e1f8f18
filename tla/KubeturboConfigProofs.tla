------------------------ MODULE KubeturboConfigProofs ------------------------
(***************************************************************************)
(* Which edits reach which file, for all values of the fields.              *)
(***************************************************************************)
EXTENDS KubeturboConfig, TLAPS

\* What the cluster holds was made of the spec that was last taken up.
RenderInv ==
    /\ IsSpec(spec)
    /\ \/ taken = None /\ out = None
       \/ IsSpec(taken) /\ out = Render(taken)

-----------------------------------------------------------------------------
(* Defaults                                                                 *)

LEMMA FieldsOfDefault ==
    ASSUME NEW s, IsSpec(s)
    PROVE  /\ \A f \in Field \ {"version", "tag", "annotations", "systemNamespaces"} :
                  SetSpecDefault(s)[f] = s[f]
           /\ \A f \in {"version", "tag"} :
                  SetSpecDefault(s)[f] = IF s[f] \in {None, Placeholder} THEN DefaultVersion
                                         ELSE s[f]
           /\ SetSpecDefault(s)["annotations"] =
                  IF s["annotations"] # None /\ "controllable" \in s["annotations"]
                  THEN s["annotations"] ELSE {"controllable"}
           /\ SetSpecDefault(s)["systemNamespaces"] =
                  IF s["systemNamespaces"] = None THEN DefaultNamespaces
                  ELSE s["systemNamespaces"]
<1>1. {"version", "tag", "annotations", "systemNamespaces"} \subseteq Field
  BY DEF Field, WordField, StaticField, TemplateField, DynamicField
<1>2. s = [f \in Field |-> s[f]]
  BY DEF IsSpec
<1>. QED
  BY <1>1, <1>2 DEF SetSpecDefault

\* Fields with equal values have equal values after the defaults.
LEMMA DefaultKeepsEquality ==
    ASSUME NEW s, NEW t, IsSpec(s), IsSpec(t), NEW f \in Field, s[f] = t[f]
    PROVE  SetSpecDefault(s)[f] = SetSpecDefault(t)[f]
<1>1. CASE f \in {"version", "tag"}
  BY <1>1, FieldsOfDefault
<1>2. CASE f = "annotations"
  BY <1>2, FieldsOfDefault
<1>3. CASE f = "systemNamespaces"
  BY <1>3, FieldsOfDefault
<1>4. CASE f \notin {"version", "tag", "annotations", "systemNamespaces"}
  BY <1>4, FieldsOfDefault
<1>. QED
  BY <1>1, <1>2, <1>3, <1>4

-----------------------------------------------------------------------------
(* The pod is kept                                                          *)

LEMMA CopiedEqual ==
    ASSUME NEW s, NEW t, NEW fields, \A f \in fields : s[f] = t[f]
    PROVE  Copied(s, fields) = Copied(t, fields)
<1>1. {f \in fields : s[f] # None} = {f \in fields : t[f] # None}
  OBVIOUS
<1>. QED
  BY <1>1 DEF Copied

LEMMA TogetherEqual ==
    ASSUME NEW s, NEW t, NEW fields, \A f \in fields : s[f] = t[f]
    PROVE  Together(s, fields) = Together(t, fields)
BY CopiedEqual DEF Together, AllSet

\* turbo.config and the pod template do not depend on the fields of NoRestartField.
LEMMA RestartFieldsOnly ==
    ASSUME NEW s, NEW t, IsSpec(s), IsSpec(t), SameExcept(s, t, NoRestartField)
    PROVE  /\ Render(s).static = Render(t).static
           /\ Render(s).template = Render(t).template
<1>. DEFINE d == SetSpecDefault(s)
            e == SetSpecDefault(t)
<1>1. \A f \in Field \ NoRestartField : d[f] = e[f]
  BY DefaultKeepsEquality DEF SameExcept
<1>. HIDE DEF d, e
<1>2. /\ StaticField \subseteq Field \ NoRestartField
      /\ LoginField \subseteq Field \ NoRestartField
      /\ {"nodeRoles", "annotations", "pre16k8sVersion"} \subseteq Field \ NoRestartField
  <2>1. StaticField \cup LoginField \cup {"nodeRoles", "annotations", "pre16k8sVersion"} \subseteq Field
    BY DEF Field, WordField, SwitchField
  <2>2. \A f \in NoRestartField :
          f \notin StaticField \cup LoginField \cup {"nodeRoles", "annotations", "pre16k8sVersion"}
    BY DEF StaticField, LoginField, NoRestartField, DynamicField, WiremockField, RightsField,
           OrmField
  <2>. QED
    BY <2>1, <2>2
<1>3. /\ ArgField \subseteq Field \ NoRestartField
      /\ TemplateField \subseteq Field \ NoRestartField
  <2>1. ArgField \cup TemplateField \subseteq Field
    BY DEF Field, WordField
  <2>2. \A f \in NoRestartField : f \notin ArgField \cup TemplateField
    BY DEF ArgField, TemplateField, NoRestartField, DynamicField, WiremockField, RightsField,
           OrmField
  <2>. QED
    BY <2>1, <2>2
<1>4. BuildKubeturboConfig(d) = BuildKubeturboConfig(e)
  <2>1. Copied(d, StaticField) = Copied(e, StaticField)
    BY <1>1, <1>2, CopiedEqual
  <2>2. Together(d, LoginField) = Together(e, LoginField)
    BY <1>1, <1>2, TogetherEqual
  <2>3. Roles(d) = Roles(e)
    BY <1>1, <1>2 DEF Roles
  <2>. QED
    BY <2>1, <2>2, <2>3 DEF BuildKubeturboConfig
<1>5. Template(d) = Template(e)
  <2>1. Copied(d, ArgField) = Copied(e, ArgField)
    BY <1>1, <1>3, CopiedEqual
  <2>2. ContainerArgs(d) = ContainerArgs(e)
    BY <2>1, <1>1, <1>2 DEF ContainerArgs
  <2>3. PullPolicy(d) = PullPolicy(e)
    BY <1>1, <1>3 DEF PullPolicy, TemplateField
  <2>4. [f \in TemplateField |-> IF f = "pullPolicy" THEN PullPolicy(d) ELSE d[f]] =
        [f \in TemplateField |-> IF f = "pullPolicy" THEN PullPolicy(e) ELSE e[f]]
    BY <2>3, <1>1, <1>3
  <2>. QED
    BY <2>2, <2>4, <1>1, <1>2 DEF Template
<1>. QED
  BY <1>4, <1>5 DEF Render, d, e

-----------------------------------------------------------------------------
(* The invariant                                                            *)

LEMMA InitRenderInv == Init => RenderInv
<1>. SUFFICES ASSUME Init PROVE RenderInv
  OBVIOUS
<1>1. PICK r \in RolesList, w \in Word :
        spec = [f \in Field |-> IF f = "nodeRoles" THEN r
                               ELSE IF f \in CheckList THEN w ELSE None]
  BY DEF Init
<1>2. \A f \in CheckList \ {"nodeRoles"} : f \in WordField \ VersionField
  BY DEF CheckList, WordField, VersionField, StaticField, TemplateField, RightsField
<1>3. "nodeRoles" \notin WordField \cup SwitchField \cup VersionField
  BY DEF WordField, SwitchField, VersionField, StaticField, LoginField, DynamicField, ArgField,
         TemplateField, RightsField, OrmField
<1>4. ASSUME NEW f \in Field PROVE spec[f] \in ValuesOf(f) \cup {None}
  <2>1. CASE f = "nodeRoles"
    <3>1. ValuesOf("nodeRoles") = RolesList
      BY <1>3 DEF ValuesOf
    <3>. QED
      BY <2>1, <3>1, <1>1
  <2>2. CASE f \in CheckList \ {"nodeRoles"}
    <3>1. ValuesOf(f) = Word
      BY <2>2, <1>2 DEF ValuesOf
    <3>. QED
      BY <2>2, <3>1, <1>1
  <2>3. CASE f \notin CheckList /\ f # "nodeRoles"
    BY <2>3, <1>1
  <2>. QED
    BY <2>1, <2>2, <2>3
<1>. QED
  BY <1>1, <1>4 DEF Init, RenderInv, IsSpec

LEMMA NextRenderInv == RenderInv /\ [Next]_vars => RenderInv'
<1>. SUFFICES ASSUME RenderInv, [Next]_vars PROVE RenderInv'
  OBVIOUS
<1>. USE DEF RenderInv
<1>1. ASSUME NEW f \in Field, NEW v \in ValuesOf(f) \cup {None}, EditCR(f, v) PROVE RenderInv'
  <2>1. spec' = [spec EXCEPT ![f] = v]
    BY <1>1 DEF EditCR
  <2>2. IsSpec(spec')
    BY <2>1 DEF IsSpec
  <2>. QED
    BY <1>1, <2>2 DEF EditCR
<1>2. CASE Reconcile
  BY <1>2 DEF Reconcile
<1>3. CASE Panic
  BY <1>3 DEF Panic
<1>4. CASE Restart
  BY <1>4 DEF Restart
<1>5. CASE UNCHANGED vars
  BY <1>5 DEF vars
<1>. QED
  BY <1>1, <1>2, <1>3, <1>4, <1>5 DEF Next, Operator

LEMMA RenderInvariant == Spec => []RenderInv
BY InitRenderInv, NextRenderInv, PTL DEF Spec

-----------------------------------------------------------------------------
(* The theorems                                                             *)

LEMMA StepKeepsPod ==
    ASSUME RenderInv, RenderInv', [Next]_vars, out # None, SameExcept(taken, taken', NoRestartField)
    PROVE  out'.static = out.static /\ out'.template = out.template
<1>1. IsSpec(taken) /\ out = Render(taken)
  BY DEF RenderInv
<1>2. CASE Reconcile
  BY <1>1, <1>2, RestartFieldsOnly DEF Reconcile, RenderInv
<1>3. CASE out' = out
  BY <1>3
<1>. QED
  BY <1>2, <1>3 DEF Next, EditCR, Operator, Panic, Restart, vars

\* Edits of what a running pod reads again, or does not read, restart nothing: neither
\* turbo.config nor the pod template depends on them (reconciler.go, 100-321, 377-457).
THEOREM EditsKeepPod == Spec => PodKept
<1>1. RenderInv /\ RenderInv' /\ [Next]_vars =>
        [(/\ out # None
          /\ SameExcept(taken, taken', NoRestartField))
           => out'.static = out.static /\ out'.template = out.template]_vars
  BY StepKeepsPod
<1>. QED
  BY <1>1, RenderInvariant, PTL DEF PodKept, Spec

-----------------------------------------------------------------------------
(* No edit is lost                                                          *)

\* What Meaning says of each kind of field.
LEMMA Meanings ==
    ASSUME NEW s
    PROVE  /\ \A f \in StaticField \cup DynamicField \cup ArgField \cup (TemplateField \ {"pullPolicy"})
                         \cup {"annotations", "roleName", "roleBinding", "replicaCount"} :
                  Meaning(s, f) = SetSpecDefault(s)[f]
           /\ \A f \in LoginField :
                  Meaning(s, f) = IF AllSet(SetSpecDefault(s), LoginField)
                                  THEN SetSpecDefault(s)[f] ELSE None
           /\ \A f \in WiremockField :
                  Meaning(s, f) = IF /\ SetSpecDefault(s)["wiremockEnabled"] = TRUE
                                     /\ AllSet(SetSpecDefault(s), WiremockField)
                                  THEN SetSpecDefault(s)[f] ELSE None
           /\ \A f \in OrmField :
                  Meaning(s, f) = IF AllSet(SetSpecDefault(s), OrmField)
                                  THEN SetSpecDefault(s)[f] ELSE None
           /\ Meaning(s, "nodeRoles") = Roles(SetSpecDefault(s))
           /\ Meaning(s, "pullPolicy") = PullPolicy(SetSpecDefault(s))
           /\ Meaning(s, "pre16k8sVersion") = (SetSpecDefault(s)["pre16k8sVersion"] = TRUE)
<1>. DEFINE special == {"nodeRoles", "pullPolicy", "pre16k8sVersion"}
<1>1. ASSUME NEW f \in StaticField \cup DynamicField \cup ArgField \cup (TemplateField \ {"pullPolicy"})
                         \cup {"annotations", "roleName", "roleBinding", "replicaCount"}
      PROVE  Meaning(s, f) = SetSpecDefault(s)[f]
  <2>1. f \notin special \cup LoginField \cup OrmField \cup WiremockField
    BY DEF StaticField, DynamicField, ArgField, TemplateField, LoginField, OrmField, WiremockField
  <2>. QED
    BY <2>1 DEF Meaning
<1>2. ASSUME NEW f \in LoginField
      PROVE  Meaning(s, f) = IF AllSet(SetSpecDefault(s), LoginField)
                             THEN SetSpecDefault(s)[f] ELSE None
  <2>1. f \notin special
    BY DEF LoginField
  <2>2. f \notin OrmField \cup WiremockField
    BY DEF LoginField, OrmField, WiremockField
  <2>. QED
    BY <2>1, <2>2 DEF Meaning
<1>3. ASSUME NEW f \in WiremockField
      PROVE  Meaning(s, f) = IF /\ SetSpecDefault(s)["wiremockEnabled"] = TRUE
                                /\ AllSet(SetSpecDefault(s), WiremockField)
                             THEN SetSpecDefault(s)[f] ELSE None
  <2>1. f \notin special
    BY DEF WiremockField
  <2>2. f \notin LoginField \cup OrmField
    BY DEF LoginField, OrmField, WiremockField
  <2>. QED
    BY <2>1, <2>2 DEF Meaning
<1>4. ASSUME NEW f \in OrmField
      PROVE  Meaning(s, f) = IF AllSet(SetSpecDefault(s), OrmField)
                             THEN SetSpecDefault(s)[f] ELSE None
  <2>1. f \notin special
    BY DEF OrmField
  <2>2. f \notin LoginField \cup WiremockField
    BY DEF LoginField, OrmField, WiremockField
  <2>. QED
    BY <2>1, <2>2 DEF Meaning
<1>5. special \cap (LoginField \cup OrmField \cup WiremockField) = {}
  BY DEF LoginField, OrmField, WiremockField
<1>6. Meaning(s, "nodeRoles") = Roles(SetSpecDefault(s))
  BY <1>5 DEF Meaning
<1>7. Meaning(s, "pullPolicy") = PullPolicy(SetSpecDefault(s))
  BY <1>5 DEF Meaning
<1>8. Meaning(s, "pre16k8sVersion") = (SetSpecDefault(s)["pre16k8sVersion"] = TRUE)
  BY <1>5 DEF Meaning
<1>. QED
  BY <1>1, <1>2, <1>3, <1>4, <1>6, <1>7, <1>8

\* Under the key of its own that a field is copied to, a reader finds the field's value.
LEMMA CopiedIsFound ==
    ASSUME NEW s, NEW fields, NEW f \in fields, NEW A,
           \A g \in fields : Key(g) = Key(f) => g = f,
           \A e \in A : e[1] # Key(f)
    PROVE  Found(Copied(s, fields) \cup A, Key(f)) = {s[f]} \ {None}
<1>. DEFINE file == Copied(s, fields) \cup A
<1>1. ASSUME NEW e \in file, e[1] = Key(f) PROVE s[f] # None /\ e[2] = s[f]
  <2>1. e \in Copied(s, fields)
    BY <1>1
  <2>2. PICK g \in fields : s[g] # None /\ e = <<Key(g), s[g]>>
    BY <2>1 DEF Copied
  <2>. QED
    BY <1>1, <2>2
<1>2. ASSUME s[f] # None PROVE <<Key(f), s[f]>> \in file
  BY <1>2 DEF Copied
<1>. HIDE DEF file
<1>3. ASSUME NEW v \in Found(file, Key(f)) PROVE v \in {s[f]} \ {None}
  BY <1>1, <1>3 DEF Found
<1>4. ASSUME s[f] # None PROVE s[f] \in Found(file, Key(f))
  <2>. DEFINE e == <<Key(f), s[f]>>
  <2>1. e \in file /\ e[1] = Key(f) /\ e[2] = s[f]
    BY <1>2, <1>4
  <2>. QED
    BY <2>1 DEF Found
<1>5. Found(file, Key(f)) = {s[f]} \ {None}
  BY <1>3, <1>4
<1>. QED
  BY <1>5 DEF file

\* Of fields that are written together or not at all, what they count for.
LEMMA TogetherIsFound ==
    ASSUME NEW s, NEW fields, NEW f \in fields, NEW A,
           \A g \in fields : Key(g) = Key(f) => g = f,
           \A e \in A : e[1] # Key(f)
    PROVE  Found(Together(s, fields) \cup A, Key(f)) =
               {IF AllSet(s, fields) THEN s[f] ELSE None} \ {None}
<1>1. CASE AllSet(s, fields)
  BY <1>1, CopiedIsFound DEF Together
<1>2. CASE ~AllSet(s, fields)
  BY <1>2 DEF Together, Found
<1>. QED
  BY <1>1, <1>2

\* The keys of each file, of the arguments and of the rule for the owners differ.
LEMMA KeysDiffer ==
    /\ \A f, g \in StaticField : Key(g) = Key(f) => g = f
    /\ \A f, g \in LoginField : Key(g) = Key(f) => g = f
    /\ \A f \in StaticField, g \in LoginField : Key(f) # Key(g)
    /\ \A f \in StaticField \cup LoginField : Key(f) # Key("nodeRoles")
    /\ \A f, g \in DynamicField : Key(g) = Key(f) => g = f
    /\ \A f, g \in WiremockField : Key(g) = Key(f) => g = f
    /\ \A f \in DynamicField, g \in WiremockField : Key(f) # Key(g)
    /\ \A f, g \in ArgField : Key(g) = Key(f) => g = f
    /\ \A f \in ArgField : Key(f) # "k8sVersion"
    /\ \A f, g \in OrmField : Key(g) = Key(f) => g = f
<1>1. \A f \in LoginField \cup WiremockField \cup ArgField \cup OrmField : Key(f) = f
  BY DEF Key, Renamed, LoginField, WiremockField, ArgField, OrmField
<1>2. \A f, g \in StaticField : Key(g) = Key(f) => g = f
  BY DEF Key, Renamed, StaticField
<1>3. \A f \in StaticField, g \in LoginField : Key(f) # g
  BY DEF Key, Renamed, StaticField, LoginField
<1>4. \A f \in StaticField \cup LoginField : Key(f) # Key("nodeRoles")
  BY DEF Key, Renamed, StaticField, LoginField
<1>5. \A f, g \in DynamicField : Key(g) = Key(f) => g = f
  BY DEF Key, Renamed, DynamicField
<1>6. \A f \in DynamicField, g \in WiremockField : Key(f) # g
  BY DEF Key, Renamed, DynamicField, WiremockField
<1>7. "k8sVersion" \notin ArgField
  BY DEF ArgField
<1>. QED
  BY <1>1, <1>2, <1>3, <1>4, <1>5, <1>6, <1>7

LEMMA KeysOfCopied ==
    ASSUME NEW s, NEW fields, NEW e \in Copied(s, fields) \cup Together(s, fields)
    PROVE  \E g \in fields : e[1] = Key(g)
BY DEF Copied, Together

LEMMA KeysOfWiremock ==
    ASSUME NEW s, NEW e \in Wiremock(s)
    PROVE  \E g \in WiremockField : e[1] = Key(g)
BY KeysOfCopied DEF Wiremock

\* A reader of turbo.config finds what each of its fields counts for.
LEMMA StaticFileShows ==
    ASSUME NEW s, NEW f \in StaticField \cup LoginField
    PROVE  Found(Render(s).static, Key(f)) = {Meaning(s, f)} \ {None}
<1>. DEFINE d == SetSpecDefault(s)
            fixed == Copied(d, StaticField)
            login == Together(d, LoginField)
            roles == {<<Key("nodeRoles"), Roles(d)>>}
<1>1. Render(s).static = fixed \cup login \cup roles
  BY DEF Render, BuildKubeturboConfig
<1>2. \A e \in roles : e[1] # Key(f)
  BY KeysDiffer
<1>3. CASE f \in StaticField
  <2>1. \A e \in login : e[1] # Key(f)
    BY <1>3, KeysOfCopied, KeysDiffer
  <2>2. \A e \in login \cup roles : e[1] # Key(f)
    BY <1>2, <2>1
  <2>3. \A g \in StaticField : Key(g) = Key(f) => g = f
    BY <1>3, KeysDiffer
  <2>. HIDE DEF d, login, roles
  <2>4. Found(fixed \cup (login \cup roles), Key(f)) = {d[f]} \ {None}
    BY <1>3, <2>2, <2>3, CopiedIsFound
  <2>5. fixed \cup (login \cup roles) = fixed \cup login \cup roles
    OBVIOUS
  <2>6. Meaning(s, f) = d[f]
    BY <1>3, Meanings DEF d
  <2>. QED
    BY <1>1, <2>4, <2>5, <2>6
<1>4. CASE f \in LoginField
  <2>1. \A e \in fixed : e[1] # Key(f)
    BY <1>4, KeysOfCopied, KeysDiffer
  <2>2. \A e \in fixed \cup roles : e[1] # Key(f)
    BY <1>2, <2>1
  <2>3. \A g \in LoginField : Key(g) = Key(f) => g = f
    BY <1>4, KeysDiffer
  <2>. HIDE DEF d, fixed, roles
  <2>4. Found(login \cup (fixed \cup roles), Key(f)) =
            {IF AllSet(d, LoginField) THEN d[f] ELSE None} \ {None}
    BY <1>4, <2>2, <2>3, TogetherIsFound
  <2>5. login \cup (fixed \cup roles) = fixed \cup login \cup roles
    OBVIOUS
  <2>6. Meaning(s, f) = IF AllSet(d, LoginField) THEN d[f] ELSE None
    BY <1>4, Meanings DEF d
  <2>. QED
    BY <1>1, <2>4, <2>5, <2>6
<1>. QED
  BY <1>3, <1>4

LEMMA StaticFileShowsRoles ==
    ASSUME NEW s
    PROVE  Found(Render(s).static, Key("nodeRoles")) = {Meaning(s, "nodeRoles")}
<1>. DEFINE d == SetSpecDefault(s)
            others == Copied(d, StaticField) \cup Together(d, LoginField)
            roles == <<Key("nodeRoles"), Roles(d)>>
<1>1. Render(s).static = others \cup {roles}
  BY DEF Render, BuildKubeturboConfig
<1>2. \A e \in others : e[1] # Key("nodeRoles")
  <2>1. \A e \in Copied(d, StaticField) : e[1] # Key("nodeRoles")
    BY KeysOfCopied, KeysDiffer
  <2>2. \A e \in Together(d, LoginField) : e[1] # Key("nodeRoles")
    BY KeysOfCopied, KeysDiffer
  <2>. QED
    BY <2>1, <2>2
<1>3. roles[1] = Key("nodeRoles") /\ roles[2] = Meaning(s, "nodeRoles")
  BY Meanings
<1>. HIDE DEF others, roles
<1>. QED
  BY <1>1, <1>2, <1>3 DEF Found

\* The same of the dynamic file.
LEMMA DynamicFileShows ==
    ASSUME NEW s, NEW f \in DynamicField \cup WiremockField
    PROVE  Found(Render(s).dynamic, Key(f)) = {Meaning(s, f)} \ {None}
<1>. DEFINE d == SetSpecDefault(s)
            copied == Copied(d, DynamicField)
            mock == Wiremock(d)
<1>1. Render(s).dynamic = copied \cup mock
  BY DEF Render, BuildKubeturboDynamicConfig
<1>2. CASE f \in DynamicField
  <2>1. \A e \in mock : e[1] # Key(f)
    BY <1>2, KeysOfWiremock, KeysDiffer
  <2>2. \A g \in DynamicField : Key(g) = Key(f) => g = f
    BY <1>2, KeysDiffer
  <2>. HIDE DEF d, mock
  <2>3. Found(copied \cup mock, Key(f)) = {d[f]} \ {None}
    BY <1>2, <2>1, <2>2, CopiedIsFound
  <2>4. Meaning(s, f) = d[f]
    BY <1>2, Meanings DEF d
  <2>. QED
    BY <1>1, <2>3, <2>4
<1>3. CASE f \in WiremockField
  <2>1. \A e \in copied : e[1] # Key(f)
    BY <1>3, KeysOfCopied, KeysDiffer
  <2>2. \A g \in WiremockField : Key(g) = Key(f) => g = f
    BY <1>3, KeysDiffer
  <2>3. Meaning(s, f) = IF d["wiremockEnabled"] = TRUE /\ AllSet(d, WiremockField)
                        THEN d[f] ELSE None
    BY <1>3, Meanings
  <2>. HIDE DEF d, copied
  <2>4. CASE d["wiremockEnabled"] = TRUE
    <3>1. mock = Together(d, WiremockField)
      BY <2>4 DEF Wiremock
    <3>2. Found(Together(d, WiremockField) \cup copied, Key(f)) =
              {IF AllSet(d, WiremockField) THEN d[f] ELSE None} \ {None}
      BY <1>3, <2>1, <2>2, TogetherIsFound
    <3>3. copied \cup mock = Together(d, WiremockField) \cup copied
      BY <3>1
    <3>. QED
      BY <1>1, <2>3, <2>4, <3>2, <3>3
  <2>5. CASE d["wiremockEnabled"] # TRUE
    <3>1. mock = {}
      BY <2>5 DEF Wiremock
    <3>2. Found(copied, Key(f)) = {}
      BY <2>1 DEF Found
    <3>. QED
      BY <1>1, <2>3, <2>5, <3>1, <3>2
  <2>. QED
    BY <2>4, <2>5
<1>. QED
  BY <1>2, <1>3

\* The same of the arguments, and of the rule for the owners.
LEMMA ArgumentsShow ==
    ASSUME NEW s
    PROVE  /\ \A f \in ArgField : Found(Render(s).template.args, Key(f)) = {Meaning(s, f)} \ {None}
           /\ <<"k8sVersion", "1.5">> \in Render(s).template.args <=> Meaning(s, "pre16k8sVersion")
<1>. DEFINE d == SetSpecDefault(s)
            copied == Copied(d, ArgField)
            old == IF d["pre16k8sVersion"] = TRUE THEN {<<"k8sVersion", "1.5">>} ELSE {}
<1>1. Render(s).template.args = copied \cup old
  BY DEF Render, Template, ContainerArgs
<1>2. ASSUME NEW f \in ArgField
      PROVE  Found(copied \cup old, Key(f)) = {Meaning(s, f)} \ {None}
  <2>1. \A e \in old : e[1] # Key(f)
    BY KeysDiffer
  <2>2. \A g \in ArgField : Key(g) = Key(f) => g = f
    BY KeysDiffer
  <2>3. Meaning(s, f) = d[f]
    BY Meanings
  <2>. HIDE DEF d, old
  <2>4. Found(copied \cup old, Key(f)) = {d[f]} \ {None}
    BY <2>1, <2>2, CopiedIsFound
  <2>. QED
    BY <2>3, <2>4
<1>3. <<"k8sVersion", "1.5">> \notin copied
  <2>1. \A e \in copied : e[1] # "k8sVersion"
    BY KeysOfCopied, KeysDiffer
  <2>. QED
    BY <2>1
<1>4. <<"k8sVersion", "1.5">> \in old <=> d["pre16k8sVersion"] = TRUE
  OBVIOUS
<1>5. Meaning(s, "pre16k8sVersion") = (d["pre16k8sVersion"] = TRUE)
  BY Meanings
<1>. HIDE DEF d, copied, old
<1>6. <<"k8sVersion", "1.5">> \in copied \cup old <=> Meaning(s, "pre16k8sVersion")
  BY <1>3, <1>4, <1>5
<1>. QED
  BY <1>1, <1>2, <1>6

LEMMA OrmShows ==
    ASSUME NEW s, NEW f \in OrmField
    PROVE  Found(Render(s).rights.orm, Key(f)) = {Meaning(s, f)} \ {None}
<1>. DEFINE d == SetSpecDefault(s)
<1>1. Render(s).rights.orm = Together(d, OrmField)
  BY DEF Render, Rights
<1>2. \A g \in OrmField : Key(g) = Key(f) => g = f
  BY KeysDiffer
<1>3. Meaning(s, f) = IF AllSet(d, OrmField) THEN d[f] ELSE None
  BY Meanings
<1>. HIDE DEF d
<1>4. Found(Together(d, OrmField) \cup {}, Key(f)) =
          {IF AllSet(d, OrmField) THEN d[f] ELSE None} \ {None}
  BY <1>2, TogetherIsFound
<1>5. Together(d, OrmField) \cup {} = Together(d, OrmField)
  OBVIOUS
<1>. QED
  BY <1>1, <1>3, <1>4, <1>5

\* Every field outside the files and their arguments is a part of what is rendered.
LEMMA PartsShow ==
    ASSUME NEW s
    PROVE  /\ \A f \in TemplateField : Render(s).template.fields[f] = Meaning(s, f)
           /\ Render(s).template.annotations = Meaning(s, "annotations")
           /\ Render(s).rights.role = Meaning(s, "roleName")
           /\ Render(s).rights.binding = Meaning(s, "roleBinding")
           /\ Render(s).replicas = Meaning(s, "replicaCount")
<1>. DEFINE d == SetSpecDefault(s)
<1>1. /\ Render(s).template = Template(d)
      /\ Render(s).rights = Rights(d)
      /\ Render(s).replicas = d["replicaCount"]
  BY DEF Render
<1>2. ASSUME NEW f \in TemplateField PROVE Template(d).fields[f] = Meaning(s, f)
  <2>1. CASE f = "pullPolicy"
    BY <2>1, Meanings DEF Template
  <2>2. CASE f # "pullPolicy"
    <3>1. Meaning(s, f) = d[f]
      BY <2>2, Meanings
    <3>. QED
      BY <2>2, <3>1 DEF Template
  <2>. QED
    BY <2>1, <2>2
<1>3. /\ Meaning(s, "annotations") = d["annotations"]
      /\ Meaning(s, "roleName") = d["roleName"]
      /\ Meaning(s, "roleBinding") = d["roleBinding"]
      /\ Meaning(s, "replicaCount") = d["replicaCount"]
  BY Meanings
<1>. HIDE DEF d
<1>4. /\ Template(d).annotations = d["annotations"]
      /\ Rights(d).role = d["roleName"]
      /\ Rights(d).binding = d["roleBinding"]
  BY DEF Template, Rights
<1>. QED
  BY <1>1, <1>2, <1>3, <1>4

\* A field that counts for something else shows where it belongs.
LEMMA EditReaches ==
    ASSUME NEW s, NEW t, NEW f \in Field, Meaning(t, f) # Meaning(s, f)
    PROVE  /\ f \in StaticFile => Reaches(f, Render(s).static, Render(t).static, t)
           /\ f \in DynamicFile => Reaches(f, Render(s).dynamic, Render(t).dynamic, t)
           /\ f \in TemplatePart => Render(t).template # Render(s).template
           /\ f \in RightsField => Render(t).rights # Render(s).rights
           /\ f = "replicaCount" => Render(t).replicas # Render(s).replicas
<1>. DEFINE m == Meaning(s, f)
            n == Meaning(t, f)
<1>1. {n} \ {None} # {m} \ {None}
  OBVIOUS
<1>2. f \notin Misnamed => Key(f) = f
  BY DEF Key, Renamed, Misnamed
<1>3. ASSUME NEW file, NEW next, Found(file, Key(f)) = {m} \ {None},
             Found(next, Key(f)) = {n} \ {None}
      PROVE  Reaches(f, file, next, t)
  BY <1>1, <1>2, <1>3 DEF Reaches
<1>4. ASSUME f \in StaticField \cup LoginField
      PROVE  Reaches(f, Render(s).static, Render(t).static, t)
  BY <1>3, <1>4, StaticFileShows
<1>5. ASSUME f = "nodeRoles" PROVE Reaches(f, Render(s).static, Render(t).static, t)
  <2>1. Render(t).static # Render(s).static
    BY <1>5, StaticFileShowsRoles
  <2>2. f \in Misnamed
    BY <1>5 DEF Misnamed
  <2>. QED
    BY <2>1, <2>2 DEF Reaches
<1>6. ASSUME f \in DynamicFile PROVE Reaches(f, Render(s).dynamic, Render(t).dynamic, t)
  BY <1>3, <1>6, DynamicFileShows DEF DynamicFile
<1>7. ASSUME f \in TemplatePart PROVE Render(t).template # Render(s).template
  <2>1. CASE f \in TemplateField
    BY <2>1, PartsShow
  <2>2. CASE f \in ArgField
    BY <1>1, <2>2, ArgumentsShow
  <2>3. CASE f = "annotations"
    BY <2>3, PartsShow
  <2>4. CASE f = "pre16k8sVersion"
    <3>1. Meaning(t, "pre16k8sVersion") # Meaning(s, "pre16k8sVersion")
      BY <2>4
    <3>2. Meaning(t, "pre16k8sVersion") \in BOOLEAN /\ Meaning(s, "pre16k8sVersion") \in BOOLEAN
      BY Meanings
    <3>3. ~(Meaning(t, "pre16k8sVersion") <=> Meaning(s, "pre16k8sVersion"))
      BY <3>1, <3>2
    <3>. QED
      BY <3>3, ArgumentsShow
  <2>. QED
    BY <1>7, <2>1, <2>2, <2>3, <2>4 DEF TemplatePart
<1>8. ASSUME f \in RightsField PROVE Render(t).rights # Render(s).rights
  <2>1. CASE f \in {"roleName", "roleBinding"}
    BY <2>1, PartsShow
  <2>2. CASE f \in OrmField
    BY <1>1, <2>2, OrmShows
  <2>. QED
    BY <1>8, <2>1, <2>2 DEF RightsField
<1>9. ASSUME f = "replicaCount" PROVE Render(t).replicas # Render(s).replicas
  BY <1>9, PartsShow
<1>. QED
  BY <1>4, <1>5, <1>6, <1>7, <1>8, <1>9 DEF StaticFile

\* Every edit that changes what a field counts for reaches the file, the template, the role or
\* the replicas it belongs to, and a reader of a file finds it under the documented key, if the
\* code writes that (reconciler.go, 112-321, 377-524, 582-725).
THEOREM EditsAreNotLost == Spec => NoEditLost
<1>. DEFINE Step ==
       \A f \in Field : Changed(f) =>
          /\ f \in StaticFile => Reaches(f, out.static, out'.static, taken')
          /\ f \in DynamicFile => Reaches(f, out.dynamic, out'.dynamic, taken')
          /\ f \in TemplatePart => out'.template # out.template
          /\ f \in RightsField => out'.rights # out.rights
          /\ f = "replicaCount" => out'.replicas # out.replicas
<1>1. ASSUME RenderInv, RenderInv', [Next]_vars PROVE [Step]_vars
  <2>1. SUFFICES ASSUME NEW f \in Field, Changed(f)
                 PROVE  /\ f \in StaticFile => Reaches(f, out.static, out'.static, taken')
                        /\ f \in DynamicFile => Reaches(f, out.dynamic, out'.dynamic, taken')
                        /\ f \in TemplatePart => out'.template # out.template
                        /\ f \in RightsField => out'.rights # out.rights
                        /\ f = "replicaCount" => out'.replicas # out.replicas
    OBVIOUS
  <2>2. taken # None /\ Meaning(taken', f) # Meaning(taken, f)
    BY <2>1 DEF Changed
  <2>3. out = Render(taken)
    BY <1>1, <2>2 DEF RenderInv
  <2>4. CASE Reconcile
    <3>1. out' = Render(taken')
      BY <2>4 DEF Reconcile
    <3>. QED
      BY <2>2, <2>3, <3>1, EditReaches
  <2>5. CASE taken' = taken
    BY <2>2, <2>5
  <2>. QED
    BY <1>1, <2>4, <2>5 DEF Next, EditCR, Operator, Panic, Restart, vars
<1>. QED
  BY <1>1, RenderInvariant, PTL DEF NoEditLost, Spec
=============================================================================
