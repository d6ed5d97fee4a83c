---------------------------- MODULE ExcelProofs ----------------------------
(***************************************************************************)
(* Proofs about ExcelJobs, for any sets of jobs and of worker slots.       *)
(***************************************************************************)
EXTENDS ExcelJobs, FiniteSetTheorems, TLAPS

LEMMA InicialOK == Init => IInv
  <1> SUFFICES ASSUME Init PROVE IInv OBVIOUS
  <1> USE DEF Init
  <1>1. TypeOK
    BY TrabajosAssumption DEF TypeOK, Turno, Pasos, Libre
  <1>2. ListoTieneArchivo /\ Peticiones
    BY DEF ListoTieneArchivo, Peticiones, Estado
  <1>3. Ejecuciones
    BY DEF Ejecuciones, Libre
  <1>4. EntregaUnica /\ ResultadoUnico
    BY TrabajosAssumption DEF EntregaUnica, ResultadoUnico, Terminado, Estado, SinEntregar, Libre
  <1>5. EntregasContadas
    <2>1. \A j \in Trabajos : SinSubir(j) = {}
      BY TrabajosAssumption DEF SinSubir, Libre
    <2> QED BY <2>1, FS_EmptySet DEF EntregasContadas, PorEntregar
  <1> QED BY <1>1, <1>2, <1>3, <1>4, <1>5 DEF IInv

\* the slot after an upload
LEMMA ListoEsTurno ==
  ASSUME NEW t \in Turno, NEW n \in Nat
  PROVE  [t EXCEPT !.pc = "listo", !.version = 0, !.fileId = n] \in Turno
  <1>1. [t EXCEPT !.version = 0] \in Turno
    BY TrabajosAssumption DEF Turno
  <1>2. [[t EXCEPT !.version = 0] EXCEPT !.pc = "listo", !.fileId = n] \in Turno
    BY <1>1 DEF Turno, Pasos
  <1> QED BY <1>2 DEF Turno

LEMMA TipoPaso == IInv /\ [Next]_vars => TypeOK'
  <1> SUFFICES ASSUME IInv, [Next]_vars PROVE TypeOK' OBVIOUS
  <1> USE TrabajosAssumption, DocAssumption DEF IInv, TypeOK
  <1>1. CASE Publicar BY <1>1 DEF Publicar
  <1>2. ASSUME NEW j \in Trabajos, Crear(j) PROVE TypeOK'
    BY <1>2 DEF Crear, Doc
  <1>3. ASSUME NEW j \in Trabajos, Encolar(j) PROVE TypeOK'
    BY <1>3 DEF Encolar
  <1>4. ASSUME NEW j \in Trabajos, NoEncolar(j) PROVE TypeOK'
    BY <1>4 DEF NoEncolar, Anotar, Causas
  <1>5. ASSUME NEW j \in Trabajos, Estancar(j) PROVE TypeOK'
    <2>1. turno' \in [Turnos -> Turno]
      <3>1. \A w \in Turnos : [turno[w] EXCEPT !.duenio = FALSE] \in Turno
        BY DEF Turno
      <3> QED BY <1>5, <3>1 DEF Estancar
    <2>2. CASE estancos[j] < MaxEstancos
      <3>1. estancos[j] + 1 \in 0 .. MaxEstancos
        BY <2>2
      <3> QED BY <1>5, <2>1, <2>2, <3>1 DEF Estancar
    <2>3. CASE ~(estancos[j] < MaxEstancos)
      <3> DEFINE cs == causas[j] \cup {"descartado"}
      <3>1. causas' = [causas EXCEPT ![j] = cs]
        BY <1>5, <2>3 DEF Estancar, Anotar
      <3>2. cs \in SUBSET Causas
        BY DEF Causas
      <3> HIDE DEF cs
      <3>3. causas' \in [Trabajos -> SUBSET Causas]
        BY <3>1, <3>2
      <3> QED BY <1>5, <2>1, <2>3, <3>3 DEF Estancar
    <2> QED BY <2>2, <2>3
  <1>6. ASSUME NEW j \in Trabajos, ExpirarDoc(j) PROVE TypeOK'
    BY <1>6 DEF ExpirarDoc
  <1>7. ASSUME NEW w \in Turnos, PasoTurno(w) PROVE TypeOK'
    <2> DEFINE j == turno[w].trabajo
    <2>1. turno[w] \in Turno OBVIOUS
    <2>2. turno[w].pc # "libre" => j \in Trabajos
      BY <2>1 DEF Ejecuciones, Turno
    <2>3. ASSUME NEW e \in {"ready", "failed"}, NEW f \in Nat, turno[w].pc # "libre"
          PROVE  Marcado(j, e, f) \in [Trabajos -> Doc \cup {NoExiste}]
      BY <2>2, <2>3 DEF Marcado, Doc
    <2>4. CASE LeerSnapshot(w)
      BY <2>1, <2>4 DEF LeerSnapshot, Ir, Turno, Pasos
    <2>5. CASE Subir(w)
      <3>1. turno[w].version \in 1 .. MaxVersion
        BY <2>1, <2>5 DEF Subir, Ejecuciones, Turno
      <3>2. archivos' \in [Trabajos -> Seq(1 .. MaxVersion)]
        BY <2>2, <2>5, <3>1 DEF Subir
      <3>3. turno' \in [Turnos -> Turno]
        <4>1. Len(archivos[j]) + 1 \in Nat
          <5>1. archivos[j] \in Seq(1 .. MaxVersion)
            BY <2>2, <2>5 DEF Subir
          <5> QED BY <5>1
        <4>2. [turno[w] EXCEPT !.pc = "listo", !.version = 0, !.fileId = Len(archivos[j]) + 1]
                \in Turno
          BY <2>1, <4>1, ListoEsTurno
        <4> QED BY <2>5, <4>2 DEF Subir, Ir
      <3> QED BY <2>5, <3>2, <3>3 DEF Subir
    <2>6. CASE Fallar(w)
      BY <2>1, <2>6 DEF Fallar, Ir, Turno, Pasos
    <2>7. CASE MarcarListo(w)
      BY <2>1, <2>3, <2>7 DEF MarcarListo, Ir, Turno, Pasos
    <2>8. CASE MarcarListoFalla(w)
      <3>1. turno' \in [Turnos -> Turno]
        BY <2>1, <2>8 DEF MarcarListoFalla, Ir, Turno, Pasos
      <3>2. causas' \in [Trabajos -> SUBSET Causas]
        BY <2>2, <2>8 DEF MarcarListoFalla, Anotar, Causas
      <3>3. docs' \in [Trabajos -> Doc \cup {NoExiste}]
        BY <2>1, <2>3, <2>8 DEF MarcarListoFalla, Turno
      <3> QED BY <2>8, <3>1, <3>2, <3>3 DEF MarcarListoFalla
    <2>9. CASE MarcarFallido(w)
      BY <2>1, <2>3, <2>9 DEF MarcarFallido, Ir, Turno, Pasos
    <2>10. CASE MarcarFallidoFalla(w)
      <3>1. turno' \in [Turnos -> Turno]
        BY <2>1, <2>10 DEF MarcarFallidoFalla, Ir, Turno, Pasos
      <3>2. causas' \in [Trabajos -> SUBSET Causas]
        BY <2>2, <2>10 DEF MarcarFallidoFalla, Anotar, Causas
      <3> QED BY <2>10, <3>1, <3>2 DEF MarcarFallidoFalla
    <2>11. CASE Terminar(w)
      BY <2>1, <2>2, <2>11 DEF Terminar, Ir, Turno, Pasos, Libre
    <2> QED BY <1>7, <2>4, <2>5, <2>6, <2>7, <2>8, <2>9, <2>10, <2>11 DEF PasoTurno
  <1>8. ASSUME NEW w \in Turnos, Morir(w) PROVE TypeOK'
    BY <1>8 DEF Morir, Ir, Turno, Pasos, Libre
  <1>9. ASSUME NEW w \in Turnos, NEW j \in Trabajos, Tomar(w, j) PROVE TypeOK'
    <2>1. [Libre EXCEPT !.pc = "leer", !.trabajo = j, !.duenio = TRUE] \in Turno
      <3>1. Libre \in Turno
        BY DEF Turno, Pasos, Libre
      <3> QED BY <3>1 DEF Turno, Pasos
    <2> QED BY <1>9, <2>1 DEF Tomar, Ir
  <1>10. CASE UNCHANGED vars BY <1>10 DEF vars
  <1> QED BY <1>1, <1>2, <1>3, <1>4, <1>5, <1>6, <1>7, <1>8, <1>9, <1>10 DEF Next

LEMMA ArchivoPaso == IInv /\ [Next]_vars => ListoTieneArchivo'
  <1> SUFFICES ASSUME IInv, [Next]_vars PROVE ListoTieneArchivo' OBVIOUS
  <1> USE DocAssumption DEF IInv, ListoTieneArchivo, Estado
  <1>1. CASE UNCHANGED <<docs, archivos>> BY <1>1
  <1>2. ASSUME NEW j \in Trabajos, Crear(j) PROVE ListoTieneArchivo'
    BY <1>2 DEF Crear, TypeOK
  <1>3. ASSUME NEW j \in Trabajos, ExpirarDoc(j) PROVE ListoTieneArchivo'
    BY <1>3 DEF ExpirarDoc, TypeOK
  <1>4. ASSUME NEW w \in Turnos, Subir(w) PROVE ListoTieneArchivo'
    <2>1. turno[w].trabajo \in Trabajos
      BY <1>4 DEF Subir, Ejecuciones, TypeOK, Turno
    <2>2. turno[w].version \in 1 .. MaxVersion
      BY <1>4 DEF Subir, Ejecuciones, TypeOK, Turno
    <2>3. ASSUME NEW i \in Trabajos PROVE DOMAIN archivos[i] \subseteq DOMAIN archivos'[i]
      <3>1. archivos[i] \in Seq(1 .. MaxVersion) BY DEF TypeOK
      <3>2. archivos'[i] \in {archivos[i], Append(archivos[i], turno[w].version)}
        BY <1>4, <2>1 DEF Subir, TypeOK
      <3> QED BY <2>2, <3>1, <3>2
    <2> QED BY <1>4, <2>3 DEF Subir
  <1>5. ASSUME NEW w \in Turnos, turno[w].pc = "listo", archivos' = archivos,
               docs' = Marcado(turno[w].trabajo, "ready", turno[w].fileId)
        PROVE  ListoTieneArchivo'
    <2>1. turno[w].trabajo \in Trabajos
      BY <1>5 DEF Ejecuciones, TypeOK, Turno
    <2>2. turno[w].fileId \in DOMAIN archivos[turno[w].trabajo]
      BY <1>5 DEF Ejecuciones
    <2>3. archivos[turno[w].trabajo] \in Seq(1 .. MaxVersion) BY <2>1 DEF TypeOK
    <2>4. turno[w].fileId # 0 BY <2>2, <2>3
    <2> QED BY <1>5, <2>1, <2>2, <2>4 DEF Marcado, TypeOK
  <1>6. ASSUME NEW w \in Turnos, MarcarFallido(w) PROVE ListoTieneArchivo'
    <2>1. turno[w].trabajo \in Trabajos
      BY <1>6 DEF MarcarFallido, Ejecuciones, TypeOK, Turno
    <2> QED BY <1>6, <2>1 DEF MarcarFallido, Marcado, TypeOK
  <1>7. ASSUME NEW w \in Turnos, MarcarListoFalla(w) PROVE ListoTieneArchivo'
    BY <1>1, <1>5, <1>7 DEF MarcarListoFalla
  <1>8. ASSUME NEW w \in Turnos, PasoTurno(w) PROVE ListoTieneArchivo'
    BY <1>1, <1>4, <1>5, <1>6, <1>7, <1>8
       DEF PasoTurno, LeerSnapshot, Fallar, MarcarListo, MarcarFallidoFalla, Terminar
  <1> QED
    BY <1>1, <1>2, <1>3, <1>8
       DEF Next, vars, Publicar, Encolar, NoEncolar, Estancar, Morir, Tomar

LEMMA PeticionesPaso == IInv /\ [Next]_vars => Peticiones'
  <1> SUFFICES ASSUME IInv, [Next]_vars PROVE Peticiones' OBVIOUS
  <1> USE DocAssumption DEF IInv, Peticiones
  <1>1. CASE UNCHANGED <<peticion, docs, cola>> BY <1>1
  <1>2. ASSUME NEW j \in Trabajos, Crear(j) \/ Encolar(j) \/ NoEncolar(j) PROVE Peticiones'
    BY <1>2 DEF Crear, Encolar, NoEncolar, TypeOK
  <1>3. ASSUME NEW j \in Trabajos, Estancar(j) PROVE Peticiones'
    BY <1>3 DEF Estancar, TypeOK
  <1>4. ASSUME NEW j \in Trabajos, ExpirarDoc(j) PROVE Peticiones'
    BY <1>4 DEF ExpirarDoc, TypeOK
  <1>5. ASSUME NEW w \in Turnos, NEW j \in Trabajos, Tomar(w, j) PROVE Peticiones'
    BY <1>5 DEF Tomar, TypeOK
  <1>6. ASSUME NEW w \in Turnos, PasoTurno(w) PROVE Peticiones'
    <2>1. turno[w].pc # "libre" => turno[w].trabajo \in Trabajos
      BY DEF Ejecuciones, TypeOK, Turno
    <2>2. ASSUME turno[w].pc # "libre" PROVE cola[turno[w].trabajo] # "fuera"
      BY <2>1, <2>2 DEF EntregaUnica, SinEntregar
    <2>3. ASSUME NEW e \in {"ready", "failed"}, NEW f \in Nat, UNCHANGED <<peticion, cola>>,
                 docs' \in {docs, Marcado(turno[w].trabajo, e, f)}
          PROVE  Peticiones'
      BY <2>1, <2>3 DEF Marcado, TypeOK
    <2>4. turno[w].fileId \in Nat BY DEF TypeOK, Turno
    <2>5. CASE Terminar(w)
      BY <2>1, <2>2, <2>5 DEF Terminar, TypeOK
    <2> QED
      BY <1>1, <1>6, <2>3, <2>4, <2>5
         DEF PasoTurno, LeerSnapshot, Subir, Fallar, MarcarListo, MarcarListoFalla,
             MarcarFallido, MarcarFallidoFalla
  <1> QED
    BY <1>1, <1>2, <1>3, <1>4, <1>5, <1>6 DEF Next, vars, Publicar, Morir

\* A step of a slot, as the three invariants below see it: the slot goes on with
\* the same job or is free, and marks the document of no other job.
Sigue(w, t) == (t.trabajo = turno[w].trabajo /\ t.pc # "libre") \/ t = Libre

LEMMA PasoDeTurno ==
  ASSUME IInv, NEW w \in Turnos, PasoTurno(w) \/ Morir(w)
  PROVE  /\ turno[w].pc # "libre" /\ turno[w].trabajo \in Trabajos
         /\ \E t \in Turno : Sigue(w, t) /\ turno' = [turno EXCEPT ![w] = t]
         /\ \A j \in Trabajos : docs'[j] # docs[j] => j = turno[w].trabajo
         /\ UNCHANGED estancos
         /\ cola' \in {cola, [cola EXCEPT ![turno[w].trabajo] = "fin"]}
         /\ \A j \in Trabajos : causas[j] \subseteq causas'[j]
  <1> USE TrabajosAssumption DEF IInv, TypeOK
  <1>0. turno' \in [Turnos -> Turno]
    BY TipoPaso DEF Next
  <1>1. turno[w] \in Turno OBVIOUS
  <1>2. turno[w].pc # "libre"
    BY DEF PasoTurno, LeerSnapshot, Subir, Fallar, MarcarListo, MarcarListoFalla, MarcarFallido,
           MarcarFallidoFalla, Terminar, Morir
  <1>3. turno[w].trabajo \in Trabajos
    BY <1>1, <1>2 DEF Ejecuciones, Turno
  <1>4. \E t \in Turno : Sigue(w, t) /\ turno' = [turno EXCEPT ![w] = t]
    <2>1. turno' = [turno EXCEPT ![w] = turno'[w]]
      BY DEF PasoTurno, LeerSnapshot, Subir, Fallar, MarcarListo, MarcarListoFalla, MarcarFallido,
             MarcarFallidoFalla, Terminar, Morir, Ir
    <2>2. Sigue(w, turno'[w])
      <3> USE <1>1 DEF Ir, Sigue, Turno
      <3>1. CASE LeerSnapshot(w) BY <3>1 DEF LeerSnapshot
      <3>2. CASE Subir(w) BY <3>2 DEF Subir
      <3>3. CASE MarcarListo(w) BY <3>3 DEF MarcarListo
      <3>6. CASE MarcarListoFalla(w) BY <3>6 DEF MarcarListoFalla
      <3>7. CASE Fallar(w) BY <3>7 DEF Fallar
      <3>4. CASE MarcarFallido(w) \/ MarcarFallidoFalla(w)
        BY <3>4 DEF MarcarFallido, MarcarFallidoFalla
      <3>5. CASE Terminar(w) \/ Morir(w) BY <3>5 DEF Terminar, Morir
      <3> QED BY <3>1, <3>2, <3>3, <3>4, <3>5, <3>6, <3>7 DEF PasoTurno
    <2> QED BY <1>0, <2>1, <2>2
  <1>5. \A j \in Trabajos : docs'[j] # docs[j] => j = turno[w].trabajo
    BY <1>3 DEF PasoTurno, LeerSnapshot, Subir, Fallar, MarcarListo, MarcarListoFalla,
           MarcarFallido, MarcarFallidoFalla, Terminar, Morir, Marcado
  <1>6. UNCHANGED estancos /\ cola' \in {cola, [cola EXCEPT ![turno[w].trabajo] = "fin"]}
    BY DEF PasoTurno, LeerSnapshot, Subir, Fallar, MarcarListo, MarcarListoFalla, MarcarFallido,
           MarcarFallidoFalla, Terminar, Morir
  <1>7. \A j \in Trabajos : causas[j] \subseteq causas'[j]
    BY <1>3 DEF PasoTurno, LeerSnapshot, Subir, Fallar, MarcarListo, MarcarListoFalla,
           MarcarFallido, MarcarFallidoFalla, Terminar, Morir, Anotar
  <1> QED BY <1>2, <1>3, <1>4, <1>5, <1>6, <1>7

LEMMA EjecucionesPaso == IInv /\ [Next]_vars => Ejecuciones'
  <1> SUFFICES ASSUME IInv, [Next]_vars PROVE Ejecuciones' OBVIOUS
  <1> USE TrabajosAssumption DEF IInv, Ejecuciones
  <1>1. CASE UNCHANGED <<turno, archivos>> BY <1>1
  <1>2. ASSUME NEW j \in Trabajos, Estancar(j) PROVE Ejecuciones'
    <2>1. \A w \in Turnos : turno'[w] \in {turno[w], [turno[w] EXCEPT !.duenio = FALSE]}
      BY <1>2 DEF Estancar
    <2> QED BY <1>2, <2>1 DEF Estancar, TypeOK, Turno
  <1>3. ASSUME NEW w \in Turnos, NEW j \in Trabajos, Tomar(w, j) PROVE Ejecuciones'
    BY <1>3 DEF Tomar, Ir, Libre, TypeOK, Turno
  <1>4. ASSUME NEW w \in Turnos, Morir(w) PROVE Ejecuciones'
    BY <1>4 DEF Morir, Ir, Libre, TypeOK, Turno
  <1>5. ASSUME NEW w \in Turnos, Subir(w) PROVE Ejecuciones'
    <2> DEFINE j == turno[w].trabajo
    <2>1. j \in Trabajos BY <1>5 DEF Subir, TypeOK, Turno
    <2>2. turno[w].version \in 1 .. MaxVersion BY <1>5 DEF Subir, TypeOK, Turno
    <2>3. archivos[j] \in Seq(1 .. MaxVersion) BY <2>1 DEF TypeOK
    <2>4. archivos' = [archivos EXCEPT ![j] = Append(archivos[j], turno[w].version)]
      BY <1>5 DEF Subir
    <2>5. /\ Len(archivos[j]) + 1 \in DOMAIN archivos'[j]
          /\ DOMAIN archivos[j] \subseteq DOMAIN archivos'[j]
      BY <2>1, <2>2, <2>3, <2>4 DEF TypeOK
    <2>6. \A v \in Turnos : turno[v].pc = "listo" => turno[v].trabajo \in Trabajos
      BY DEF TypeOK, Turno
    <2>7. \A v \in Turnos : turno[v].pc = "listo" =>
             turno[v].fileId \in DOMAIN archivos'[turno[v].trabajo]
      BY <2>1, <2>4, <2>5, <2>6 DEF TypeOK
    <2>8. /\ \A v \in Turnos \ {w} : turno'[v] = turno[v]
          /\ turno'[w].pc = "listo" /\ turno'[w].trabajo = j
          /\ turno'[w].fileId = Len(archivos[j]) + 1
      BY <1>5 DEF Subir, Ir, TypeOK, Turno
    <2> QED BY <2>1, <2>5, <2>7, <2>8
  <1>6. ASSUME NEW w \in Turnos, PasoTurno(w) PROVE Ejecuciones'
    <2> USE DEF Ir, TypeOK, Turno
    <2>1. CASE LeerSnapshot(w) BY <2>1 DEF LeerSnapshot
    <2>2. CASE Fallar(w) BY <2>2 DEF Fallar
    <2>3. CASE MarcarListo(w) BY <2>3 DEF MarcarListo
    <2>4. CASE MarcarListoFalla(w) BY <2>4 DEF MarcarListoFalla
    <2>5. CASE MarcarFallido(w) BY <2>5 DEF MarcarFallido
    <2>6. CASE MarcarFallidoFalla(w) BY <2>6 DEF MarcarFallidoFalla
    <2>7. CASE Terminar(w) BY <2>7 DEF Terminar, Libre
    <2> QED BY <1>5, <1>6, <2>1, <2>2, <2>3, <2>4, <2>5, <2>6, <2>7 DEF PasoTurno
  <1> QED
    BY <1>1, <1>2, <1>3, <1>4, <1>6
       DEF Next, vars, Publicar, Crear, Encolar, NoEncolar, ExpirarDoc

LEMMA EntregaPaso == IInv /\ [Next]_vars => EntregaUnica'
  <1> SUFFICES ASSUME IInv, [Next]_vars PROVE EntregaUnica' OBVIOUS
  <1> USE TrabajosAssumption, DocAssumption DEF IInv, EntregaUnica, SinEntregar, Terminado, Estado
  <1>1. CASE UNCHANGED <<docs, cola, estancos, turno>> BY <1>1
  <1>2. ASSUME NEW j \in Trabajos, Crear(j) PROVE EntregaUnica'
    BY <1>2 DEF Crear, TypeOK
  <1>3. ASSUME NEW j \in Trabajos, Encolar(j) PROVE EntregaUnica'
    BY <1>3 DEF Encolar, Peticiones, TypeOK
  <1>4. ASSUME NEW j \in Trabajos, Estancar(j) PROVE EntregaUnica'
    <2>1. \A w \in Turnos : turno'[w].trabajo = turno[w].trabajo
      BY <1>4 DEF Estancar, TypeOK, Turno
    <2>2. CASE estancos[j] < MaxEstancos
      <3>1. estancos'[j] > 0 /\ cola'[j] = "espera"
        BY <1>4, <2>2 DEF Estancar, TypeOK
      <3>2. \A i \in Trabajos \ {j} : estancos'[i] = estancos[i] /\ cola'[i] = cola[i]
        BY <1>4, <2>2 DEF Estancar, TypeOK
      <3> QED BY <1>4, <2>1, <3>1, <3>2 DEF Estancar
    <2>3. CASE ~(estancos[j] < MaxEstancos)
      <3>1. cola' = [cola EXCEPT ![j] = "fin"] /\ estancos' = estancos /\ docs' = docs
        BY <1>4, <2>3 DEF Estancar
      <3>2. cola[j] = "activo" BY <1>4 DEF Estancar
      <3>3. \A i \in Trabajos : cola'[i] = IF i = j THEN "fin" ELSE cola[i]
        BY <3>1 DEF TypeOK
      <3> QED BY <2>1, <3>1, <3>2, <3>3
    <2> QED BY <2>2, <2>3
  <1>5. ASSUME NEW j \in Trabajos, ExpirarDoc(j) PROVE EntregaUnica'
    BY <1>5 DEF ExpirarDoc, TypeOK
  <1>6. ASSUME NEW w \in Turnos, NEW j \in Trabajos, Tomar(w, j) PROVE EntregaUnica'
    <2>1. /\ \A v \in Turnos \ {w} : turno'[v] = turno[v]
          /\ turno'[w].trabajo = j
      BY <1>6 DEF Tomar, Ir, Libre, TypeOK
    <2>2. \A i \in Trabajos \ {j} : cola'[i] = cola[i]
      BY <1>6 DEF Tomar, TypeOK
    <2>3. cola[j] = "espera" /\ cola'[j] = "activo" /\ UNCHANGED <<docs, estancos>>
      BY <1>6 DEF Tomar, TypeOK
    <2> QED BY <2>1, <2>2, <2>3
  <1>7. ASSUME NEW w \in Turnos, PasoTurno(w) \/ Morir(w) PROVE EntregaUnica'
    <2>1. turno[w].trabajo \in Trabajos /\ UNCHANGED estancos
      BY <1>7, PasoDeTurno
    <2>2. \A v \in Turnos : turno'[v].trabajo \in {turno[v].trabajo, Nadie}
      <3>1. PICK t \in Turno : Sigue(w, t) /\ turno' = [turno EXCEPT ![w] = t]
        BY <1>7, PasoDeTurno
      <3> QED BY <3>1 DEF Sigue, Libre, TypeOK
    <2>3. \A j \in Trabajos : docs'[j] # docs[j] => j = turno[w].trabajo
      BY <1>7, PasoDeTurno
    <2>4. cola' \in {cola, [cola EXCEPT ![turno[w].trabajo] = "fin"]}
      BY <1>7, PasoDeTurno
    <2>5. ASSUME NEW j \in Trabajos, SinEntregar(j)'
          PROVE  SinEntregar(j) /\ j # turno[w].trabajo
      BY <2>1, <2>4, <2>5 DEF TypeOK
    <2>6. \A j \in Trabajos : cola'[j] = "fuera" => cola[j] = "fuera"
      BY <2>1, <2>4 DEF TypeOK
    <2> QED BY <2>1, <2>2, <2>3, <2>5, <2>6
  <1> QED
    BY <1>1, <1>2, <1>3, <1>4, <1>5, <1>6, <1>7 DEF Next, vars, Publicar, NoEncolar

LEMMA ResultadoPaso == IInv /\ [Next]_vars => ResultadoUnico'
  <1> SUFFICES ASSUME IInv, [Next]_vars PROVE ResultadoUnico' OBVIOUS
  <1> USE TrabajosAssumption, DocAssumption DEF IInv, ResultadoUnico, Terminado, Estado
  <1>1. CASE UNCHANGED <<docs, estancos, turno, causas>> BY <1>1
  <1>2. ASSUME NEW j \in Trabajos, Crear(j) PROVE ResultadoUnico'
    BY <1>2 DEF Crear, TypeOK
  <1>3. ASSUME NEW j \in Trabajos, NoEncolar(j) PROVE ResultadoUnico'
    BY <1>3 DEF NoEncolar, Anotar, TypeOK
  <1>4. ASSUME NEW j \in Trabajos, Estancar(j) PROVE ResultadoUnico'
    <2>1. \A w \in Turnos : turno'[w].trabajo = turno[w].trabajo /\ turno'[w].pc = turno[w].pc
      BY <1>4 DEF Estancar, TypeOK, Turno
    <2>2. \A i \in Trabajos : estancos'[i] = 0 => estancos[i] = 0
      <3>1. CASE UNCHANGED estancos BY <3>1
      <3>2. CASE estancos' = [estancos EXCEPT ![j] = @ + 1] BY <3>2 DEF TypeOK
      <3> QED BY <1>4, <3>1, <3>2 DEF Estancar
    <2>3. \A i \in Trabajos : causas[i] \subseteq causas'[i]
      <3>1. CASE UNCHANGED causas BY <3>1
      <3>2. CASE Anotar(j, {"descartado"}) BY <3>2 DEF Anotar, TypeOK
      <3> QED BY <1>4, <3>1, <3>2 DEF Estancar
    <2> QED BY <1>4, <2>1, <2>2, <2>3 DEF Estancar
  <1>5. ASSUME NEW j \in Trabajos, ExpirarDoc(j) PROVE ResultadoUnico'
    BY <1>5 DEF ExpirarDoc, TypeOK
  <1>6. ASSUME NEW w \in Turnos, NEW j \in Trabajos, Tomar(w, j) PROVE ResultadoUnico'
    <2>1. /\ \A v \in Turnos \ {w} : turno'[v] = turno[v]
          /\ turno'[w].trabajo = j
      BY <1>6 DEF Tomar, Ir, Libre, TypeOK
    <2>2. cola[j] = "espera" /\ UNCHANGED <<docs, estancos, causas>>
      BY <1>6 DEF Tomar
    <2>3. estancos[j] = 0 => ~Terminado(j)
      BY <2>2 DEF EntregaUnica, SinEntregar
    <2> QED BY <2>1, <2>2, <2>3
  <1>7. ASSUME NEW w \in Turnos, PasoTurno(w) \/ Morir(w) PROVE ResultadoUnico'
    <2> SUFFICES ASSUME NEW j \in Trabajos, Terminado(j)', estancos'[j] = 0,
                        "respuestaPerdida" \notin causas'[j],
                        NEW v \in Turnos, turno'[v].trabajo = j
                 PROVE  turno'[v].pc = "terminar"
      OBVIOUS
    <2> DEFINE i == turno[w].trabajo
    <2>1. i \in Trabajos /\ estancos[j] = 0 /\ "respuestaPerdida" \notin causas[j]
      BY <1>7, PasoDeTurno
    <2>2. PICK t \in Turno : Sigue(w, t) /\ turno' = [turno EXCEPT ![w] = t]
      BY <1>7, PasoDeTurno
    <2>3. turno[v].trabajo = j
      BY <2>2 DEF Sigue, Libre, TypeOK
    <2>4. CASE Terminado(j)
      <3>1. turno[v].pc = "terminar" BY <2>1, <2>3, <2>4
      <3>2. CASE v = w
        <4>1. Terminar(w) \/ Morir(w)
          BY <1>7, <3>1, <3>2 DEF PasoTurno, LeerSnapshot, Subir, Fallar, MarcarListo,
             MarcarListoFalla, MarcarFallido, MarcarFallidoFalla
        <4>2. turno'[w] = Libre BY <4>1 DEF Terminar, Morir, Ir, TypeOK
        <4> QED BY <3>2, <4>2 DEF Libre
      <3>3. CASE v # w BY <2>2, <3>1, <3>3 DEF TypeOK
      <3> QED BY <3>2, <3>3
    <2>5. CASE ~Terminado(j)
      <3>1. docs'[j] # docs[j] BY <2>5
      <3>2. j = i BY <1>7, <3>1, PasoDeTurno
      <3>3. v = w BY <2>1, <2>3, <3>2 DEF EntregaUnica
      <3>4. MarcarListo(w) \/ MarcarFallido(w)
        BY <1>7, <2>1, <3>1, <3>2 DEF PasoTurno, LeerSnapshot, Subir, Fallar, MarcarListoFalla,
           MarcarFallidoFalla, Terminar, Morir, Anotar, TypeOK
      <3>5. CASE MarcarListo(w) BY <3>3, <3>5 DEF MarcarListo, Ir, TypeOK, Turno
      <3>6. CASE MarcarFallido(w) BY <3>3, <3>6 DEF MarcarFallido, Ir, TypeOK, Turno
      <3> QED BY <3>4, <3>5, <3>6
    <2> QED BY <2>4, <2>5
  <1> QED
    BY <1>1, <1>2, <1>3, <1>4, <1>5, <1>6, <1>7 DEF Next, vars, Publicar, Encolar

\* Whatever takes runs away from a job, or ends it, leaves its count in order.
LEMMA SiguenContadas ==
  ASSUME IInv, TypeOK', NEW j \in Trabajos, SinSubir(j)' \subseteq SinSubir(j),
         archivos'[j] = archivos[j], estancos'[j] = estancos[j],
         PorEntregar(j)' <= PorEntregar(j)
  PROVE  /\ IsFiniteSet(SinSubir(j)')
         /\ Len(archivos'[j]) + Cardinality(SinSubir(j)') + PorEntregar(j)' <= estancos'[j] + 1
  <1> DEFINE antes == SinSubir(j)
             ahora == SinSubir(j)'
  <1>1. IsFiniteSet(antes) /\ Len(archivos[j]) + Cardinality(antes) + PorEntregar(j) <= estancos[j] + 1
    BY DEF IInv, EntregasContadas
  <1>2. IsFiniteSet(ahora) /\ Cardinality(ahora) <= Cardinality(antes)
    <2> HIDE DEF antes, ahora
    <2> QED BY <1>1, FS_Subset DEF antes, ahora
  <1>3. Cardinality(ahora) \in Nat /\ Cardinality(antes) \in Nat
    BY <1>1, <1>2, FS_CardinalityType
  <1>4. Len(archivos[j]) \in Nat /\ estancos[j] \in Nat
    BY DEF IInv, TypeOK
  <1>5. PorEntregar(j) \in Nat /\ PorEntregar(j)' \in Nat
    BY DEF PorEntregar
  <1> HIDE DEF antes, ahora
  <1>6. Len(archivos[j]) + Cardinality(ahora) + PorEntregar(j)' <= estancos[j] + 1
    BY <1>1, <1>2, <1>3, <1>4, <1>5
  <1> QED BY <1>2, <1>6 DEF ahora

LEMMA EntregasPaso == IInv /\ [Next]_vars => EntregasContadas'
  <1> SUFFICES ASSUME IInv, [Next]_vars, NEW j \in Trabajos
               PROVE  /\ IsFiniteSet(SinSubir(j)')
                      /\ Len(archivos'[j]) + Cardinality(SinSubir(j)') + PorEntregar(j)'
                           <= estancos'[j] + 1
    BY DEF EntregasContadas
  <1> DEFINE Meta == /\ IsFiniteSet(SinSubir(j)')
                     /\ Len(archivos'[j]) + Cardinality(SinSubir(j)') + PorEntregar(j)'
                          <= estancos'[j] + 1
  <1>0. TypeOK /\ TypeOK' /\ Ejecuciones /\ Peticiones
    BY TipoPaso DEF IInv
  <1>1. /\ IsFiniteSet(SinSubir(j)) /\ Cardinality(SinSubir(j)) \in Nat
        /\ Len(archivos[j]) + Cardinality(SinSubir(j)) + PorEntregar(j) <= estancos[j] + 1
        /\ Len(archivos[j]) \in Nat /\ estancos[j] \in Nat /\ PorEntregar(j) \in {0, 1}
    BY <1>0, FS_CardinalityType DEF IInv, EntregasContadas, PorEntregar, TypeOK
  <1>2. ASSUME UNCHANGED <<turno, archivos, estancos>>, PorEntregar(j)' <= PorEntregar(j) PROVE Meta
    <2>1. SinSubir(j)' = SinSubir(j) BY <1>2 DEF SinSubir
    <2> QED BY <1>0, <1>2, <2>1, SiguenContadas
  <1>3. CASE UNCHANGED <<turno, archivos, cola, estancos>>
    <2>1. PorEntregar(j)' <= PorEntregar(j) BY <1>3 DEF PorEntregar
    <2> QED BY <1>2, <1>3, <2>1
  <1>4. ASSUME NEW i \in Trabajos, Encolar(i) PROVE Meta
    <2>1. PorEntregar(j)' <= PorEntregar(j)
      BY <1>0, <1>4 DEF Encolar, Peticiones, PorEntregar, TypeOK
    <2> QED BY <1>2, <1>4, <2>1 DEF Encolar
  <1>5. ASSUME NEW i \in Trabajos, Estancar(i) PROVE Meta
    <2>1. SinSubir(j)' = SinSubir(j) /\ archivos' = archivos
      <3>1. \A w \in Turnos : turno'[w].trabajo = turno[w].trabajo /\ turno'[w].pc = turno[w].pc
        BY <1>0, <1>5 DEF Estancar, TypeOK, Turno
      <3> QED BY <1>5, <3>1 DEF SinSubir, Estancar
    <2>2. CASE i # j
      <3>1. estancos'[j] = estancos[j] /\ cola'[j] = cola[j]
        BY <1>0, <1>5, <2>2 DEF Estancar, TypeOK
      <3> QED BY <1>0, <1>1, <2>1, <3>1, SiguenContadas DEF PorEntregar
    <2>3. CASE i = j
      <3>1. PorEntregar(j) = 0 BY <1>5, <2>3 DEF Estancar, PorEntregar
      <3>2. \/ estancos'[j] = estancos[j] + 1 /\ PorEntregar(j)' = 1
            \/ estancos'[j] = estancos[j] /\ PorEntregar(j)' = 0
        BY <1>0, <1>5, <2>3 DEF Estancar, PorEntregar, TypeOK
      <3> QED BY <1>1, <2>1, <3>1, <3>2
    <2> QED BY <2>2, <2>3
  <1>6. ASSUME NEW w \in Turnos, NEW i \in Trabajos, Tomar(w, i) PROVE Meta
    <2>1. /\ \A v \in Turnos \ {w} : turno'[v] = turno[v]
          /\ turno'[w].trabajo = i /\ turno'[w].pc = "leer"
          /\ turno[w].trabajo = Nadie /\ UNCHANGED <<archivos, estancos>>
      BY <1>0, <1>6, TrabajosAssumption DEF Tomar, Ir, Libre, TypeOK, Ejecuciones
    <2>2. CASE i # j
      <3>1. SinSubir(j)' = SinSubir(j) BY <2>1, <2>2, TrabajosAssumption DEF SinSubir
      <3>2. cola'[j] = cola[j] BY <1>0, <1>6, <2>2 DEF Tomar, TypeOK
      <3> QED BY <1>0, <1>1, <2>1, <3>1, <3>2, SiguenContadas DEF PorEntregar
    <2>3. CASE i = j
      <3>1. SinSubir(j)' = SinSubir(j) \cup {w} /\ w \notin SinSubir(j)
        BY <2>1, <2>3, TrabajosAssumption DEF SinSubir
      <3>2. PorEntregar(j) = 1 /\ PorEntregar(j)' = 0
        BY <1>0, <1>6, <2>3 DEF Tomar, PorEntregar, TypeOK
      <3>3. IsFiniteSet(SinSubir(j)') /\ Cardinality(SinSubir(j)') = Cardinality(SinSubir(j)) + 1
        BY <1>1, <3>1, FS_AddElement
      <3> QED BY <1>1, <2>1, <3>2, <3>3
    <2> QED BY <2>2, <2>3
  <1>7. ASSUME NEW w \in Turnos, PasoTurno(w) \/ Morir(w), ~Subir(w) PROVE Meta
    <2>1. SinSubir(j)' \subseteq SinSubir(j)
      <3>1. \A v \in Turnos \ {w} : turno'[v] = turno[v]
        BY <1>0, <1>7, PasoDeTurno DEF TypeOK
      <3>2. w \in SinSubir(j)' => w \in SinSubir(j)
        <4> USE <1>0, TrabajosAssumption DEF SinSubir, TypeOK, Turno, Ir
        <4>1. CASE LeerSnapshot(w) BY <4>1 DEF LeerSnapshot
        <4>2. CASE Fallar(w) BY <4>2 DEF Fallar
        <4>3. CASE MarcarListo(w) BY <4>3 DEF MarcarListo
        <4>4. CASE MarcarListoFalla(w) BY <4>4 DEF MarcarListoFalla
        <4>5. CASE MarcarFallido(w) BY <4>5 DEF MarcarFallido
        <4>6. CASE MarcarFallidoFalla(w) BY <4>6 DEF MarcarFallidoFalla
        <4>7. CASE Terminar(w) \/ Morir(w) BY <4>7 DEF Terminar, Morir, Libre
        <4> QED BY <1>7, <4>1, <4>2, <4>3, <4>4, <4>5, <4>6, <4>7 DEF PasoTurno
      <3> QED BY <3>1, <3>2 DEF SinSubir
    <2>2. PorEntregar(j)' <= PorEntregar(j)
      <3>1. turno[w].trabajo \in Trabajos
            /\ cola' \in {cola, [cola EXCEPT ![turno[w].trabajo] = "fin"]}
        BY <1>7, PasoDeTurno
      <3> QED BY <1>0, <3>1 DEF PorEntregar, TypeOK
    <2>3. UNCHANGED <<archivos, estancos>>
      BY <1>7 DEF PasoTurno, LeerSnapshot, Fallar, MarcarListo, MarcarListoFalla, MarcarFallido,
         MarcarFallidoFalla, Terminar, Morir
    <2> QED BY <1>0, <2>1, <2>2, <2>3, SiguenContadas
  <1>8. ASSUME NEW w \in Turnos, Subir(w) PROVE Meta
    <2> DEFINE i == turno[w].trabajo
    <2>1. i \in Trabajos /\ turno[w].pc = "subir" /\ turno[w].version \in 1 .. MaxVersion
      BY <1>0, <1>8 DEF Subir, Ejecuciones, TypeOK, Turno
    <2>2. /\ \A v \in Turnos \ {w} : turno'[v] = turno[v]
          /\ turno'[w].trabajo = i /\ turno'[w].pc = "listo"
      BY <1>0, <1>8 DEF Subir, Ir, TypeOK, Turno
    <2>3. UNCHANGED <<estancos, cola>> /\ PorEntregar(j)' = PorEntregar(j)
      BY <1>8 DEF Subir, PorEntregar
    <2>4. archivos' = [archivos EXCEPT ![i] = Append(archivos[i], turno[w].version)]
      BY <1>8 DEF Subir
    <2>5. SinSubir(j)' = SinSubir(j) \ {w} /\ (i = j => w \in SinSubir(j))
      BY <2>1, <2>2 DEF SinSubir
    <2>6. CASE i # j
      <3>1. archivos'[j] = archivos[j] BY <1>0, <2>4, <2>6 DEF TypeOK
      <3>2. SinSubir(j)' \subseteq SinSubir(j) BY <2>5
      <3>3. PorEntregar(j)' <= PorEntregar(j) BY <1>1, <2>3
      <3> QED BY <1>0, <2>3, <3>1, <3>2, <3>3, SiguenContadas
    <2>7. CASE i = j
      <3>1. Len(archivos'[j]) = Len(archivos[j]) + 1
        <4>1. archivos[j] \in Seq(1 .. MaxVersion) BY <1>0 DEF TypeOK
        <4>2. archivos'[j] = Append(archivos[j], turno[w].version)
          BY <1>0, <2>4, <2>7 DEF TypeOK
        <4> QED BY <2>1, <4>1, <4>2
      <3>2. IsFiniteSet(SinSubir(j)') /\ Cardinality(SinSubir(j)') = Cardinality(SinSubir(j)) - 1
        BY <1>1, <2>5, <2>7, FS_RemoveElement
      <3> QED BY <1>1, <2>3, <3>1, <3>2
    <2> QED BY <2>6, <2>7
  <1> QED
    BY <1>3, <1>4, <1>5, <1>6, <1>7, <1>8
       DEF Next, vars, Publicar, Crear, NoEncolar, ExpirarDoc, PasoTurno

\* The invariant is inductive.
THEOREM Invariante == Spec => []IInv
  <1>1. IInv /\ [Next]_vars => IInv'
    BY TipoPaso, ArchivoPaso, PeticionesPaso, EjecucionesPaso, EntregaPaso, ResultadoPaso,
       EntregasPaso DEF IInv
  <1> QED BY InicialOK, <1>1, PTL DEF Spec

\* The documents of the jobs, the queue and the slots keep their types.
THEOREM Tipos == Spec => []TypeOK
  <1>1. IInv => TypeOK BY DEF IInv
  <1> QED BY Invariante, <1>1, PTL

\* A job marked ready has its file, for any number of overlapping runs.
THEOREM ListoConArchivo == Spec => []ListoTieneArchivo
  <1>1. IInv => ListoTieneArchivo BY DEF IInv
  <1> QED BY Invariante, <1>1, PTL

\* However many runs of a job overlap, die or are stalled, it stores one file at
\* most for each time the queue has given it out.
THEOREM ArchivosAcotados == Spec => []ArchivosPorEntrega
  <1>1. IInv => ArchivosPorEntrega
    <2> SUFFICES ASSUME IInv, NEW j \in Trabajos PROVE Len(archivos[j]) <= estancos[j] + 1
      BY DEF ArchivosPorEntrega
    <2>1. /\ Len(archivos[j]) \in Nat /\ estancos[j] \in Nat /\ PorEntregar(j) \in {0, 1}
          /\ Cardinality(SinSubir(j)) \in Nat
      BY FS_CardinalityType DEF IInv, EntregasContadas, TypeOK, PorEntregar
    <2> QED BY <2>1 DEF IInv, EntregasContadas
  <1> QED BY Invariante, <1>1, PTL

\* A client never sees its result change, but for the two causes the property names.
THEOREM ResultadoQueSeMantiene == Spec => ResultadoFirme
  <1> DEFINE Paso == \A j \in Trabajos :
               (Estado(j, "ready") \/ Estado(j, "failed")) =>
                 \/ docs'[j] = docs[j] \/ docs'[j] = NoExiste
                 \/ estancos[j] > 0 \/ "respuestaPerdida" \in causas[j]
  <1>1. IInv /\ [Next]_vars => [Paso]_vars
    <2> SUFFICES ASSUME IInv, Next, NEW j \in Trabajos, Terminado(j), docs'[j] # docs[j],
                        docs'[j] # NoExiste, ~(estancos[j] > 0),
                        "respuestaPerdida" \notin causas[j]
                 PROVE  FALSE
      BY DEF Terminado
    <2> USE DEF IInv
    <2>1. estancos[j] = 0 BY DEF TypeOK
    <2>2. \A i \in Trabajos : ~Crear(i)
      BY DEF Crear, Peticiones, Terminado, Estado, TypeOK
    <2>3. \A i \in Trabajos : ~ExpirarDoc(i)
      BY DEF ExpirarDoc, TypeOK
    <2>4. PICK w \in Turnos : PasoTurno(w)
      BY <2>2, <2>3 DEF Next, Publicar, Encolar, NoEncolar, Estancar, Morir, Tomar
    <2>5. turno[w].trabajo = j BY <2>4, PasoDeTurno
    <2>6. turno[w].pc = "terminar" BY <2>1, <2>5 DEF ResultadoUnico
    <2> QED BY <2>4, <2>6 DEF PasoTurno, LeerSnapshot, Subir, Fallar, MarcarListo,
            MarcarListoFalla, MarcarFallido, MarcarFallidoFalla, Terminar
  <1>2. Spec => [][Paso]_vars BY Invariante, <1>1, PTL DEF Spec
  <1> QED BY <1>2 DEF ResultadoFirme

=============================================================================
