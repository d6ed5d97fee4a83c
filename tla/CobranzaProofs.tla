--------------------------- MODULE CobranzaProofs ---------------------------
(***************************************************************************)
(* The lock keeps the snapshot and the cache in order, for any number of   *)
(* readers, rebuilds and writing requests.                                 *)
(***************************************************************************)
EXTENDS CobranzaSnapshot, TLAPS

LEMMA GuionesBien == \A o \in Peticiones : Guiones[o] \in Seq(Fuentes \cup {"programar"})
<1> SUFFICES ASSUME NEW o \in Peticiones
             PROVE  Guiones[o] \in Seq(Fuentes \cup {"programar"})
  OBVIOUS
<1> DEFINE g == Guiones[o]
<1>1. \A i \in DOMAIN g : g[i] \in Fuentes \cup {"programar"}
  <2>1. ToSet(g) \subseteq Fuentes \cup {"programar"}
    BY DEF Fuentes
  <2> QED  BY <2>1 DEF ToSet
<1>2. g \in Seq({"recibos", "pagos", "abonos", "owners", "programar"})
  <2> DEFINE S == {"recibos", "pagos", "abonos", "owners", "programar"}
  <2>1. /\ <<"recibos", "programar", "programar">> \in Seq(S)
        /\ <<"pagos", "recibos", "programar", "programar">> \in Seq(S)
        /\ <<"pagos", "abonos", "recibos", "programar", "programar">> \in Seq(S)
        /\ <<"pagos", "programar">> \in Seq(S)
        /\ <<"pagos">> \in Seq(S)
        /\ <<"owners">> \in Seq(S)
    OBVIOUS
  <2>2. o \in {"emitir", "aceptar", "aceptarConAbono", "aceptarSinDeuda", "rechazar",
               "reportarPago", "editarOwner"}
    BY ActoresAssumption DEF Guiones
  <2>3. /\ Guiones["emitir"] = <<"recibos", "programar", "programar">>
        /\ Guiones["aceptar"] = <<"pagos", "recibos", "programar", "programar">>
        /\ Guiones["aceptarConAbono"] =
             <<"pagos", "abonos", "recibos", "programar", "programar">>
        /\ Guiones["aceptarSinDeuda"] = <<"pagos", "programar">>
        /\ Guiones["rechazar"] = <<"pagos", "programar">>
        /\ Guiones["reportarPago"] = <<"pagos">>
        /\ Guiones["editarOwner"] = <<"owners">>
    BY DEF Guiones
  <2> HIDE DEF S
  <2>4. g \in Seq(S)
    BY <2>1, <2>2, <2>3
  <2> QED  BY <2>4 DEF S
<1> HIDE DEF g
<1>3. \A S, T : \A s \in Seq(S) : (\A i \in DOMAIN s : s[i] \in T) => s \in Seq(T)
  OBVIOUS
<1> QED  BY <1>1, <1>2, <1>3 DEF g

\* a request that schedules a rebuild does so last
LEMMA GuionesTerminan ==
  ASSUME NEW o \in Peticiones, Contains(Guiones[o], "programar")
  PROVE  Guiones[o] # <<>> /\ TerminaProgramando(Guiones[o])
<1>1. o \in {"emitir", "aceptar", "aceptarConAbono", "aceptarSinDeuda", "rechazar",
            "reportarPago", "editarOwner"}
  BY ActoresAssumption DEF Guiones
<1>2. CASE o = "reportarPago"
  <2>1. Guiones[o] = <<"pagos">>
    BY <1>2 DEF Guiones
  <2> QED  BY <2>1 DEF Contains
<1>3. CASE o = "editarOwner"
  <2>1. Guiones[o] = <<"owners">>
    BY <1>3 DEF Guiones
  <2> QED  BY <2>1 DEF Contains
<1>4. CASE o \in {"emitir", "aceptar", "aceptarConAbono", "aceptarSinDeuda", "rechazar"}
  <2>1. /\ Guiones["emitir"] = <<"recibos", "programar", "programar">>
        /\ Guiones["aceptar"] = <<"pagos", "recibos", "programar", "programar">>
        /\ Guiones["aceptarConAbono"] =
             <<"pagos", "abonos", "recibos", "programar", "programar">>
        /\ Guiones["aceptarSinDeuda"] = <<"pagos", "programar">>
        /\ Guiones["rechazar"] = <<"pagos", "programar">>
    BY DEF Guiones
  <2>2. /\ TerminaProgramando(<<"recibos", "programar", "programar">>)
        /\ TerminaProgramando(<<"pagos", "recibos", "programar", "programar">>)
        /\ TerminaProgramando(<<"pagos", "abonos", "recibos", "programar", "programar">>)
        /\ TerminaProgramando(<<"pagos", "programar">>)
    BY DEF TerminaProgramando
  <2>3. TerminaProgramando(Guiones[o])
    BY <1>4, <2>1, <2>2
  <2>4. Guiones[o] # <<>>
    BY <1>4, <2>1
  <2> QED  BY <2>3, <2>4
<1> QED  BY <1>1, <1>2, <1>3, <1>4

LEMMA InitInv == Init => IInv
<1> SUFFICES ASSUME Init PROVE IInv
  OBVIOUS
<1>1. Inicial \in Versiones
  BY DEF Inicial, Versiones
<1>2. Libre \notin Actores /\ NoExiste \notin Versiones /\ NoCache \notin Versiones
  BY ActoresAssumption, SinDatosAssumption
<1>3. Intentos \in Nat /\ MaxPeticiones \in Nat
  BY ActoresAssumption
<1>4. TypeOK
  BY <1>1, <1>3 DEF Init, TypeOK, Actor, Inactivo, Pasos, Causas
<1>5. Locales /\ Titular /\ Persistido
  BY DEF Init, Inactivo, Locales, Titular, Persistido, Retiene
<1>6. Ordenado
  BY <1>1 DEF Init, Inactivo, Ordenado, Anterior, Inicial, Versiones
<1>7. Cubierto
  BY DEF Init, Cubierto, TerminaProgramando
<1> QED  BY <1>4, <1>5, <1>6, <1>7 DEF IInv

LEMMA Basico ==
  /\ Inactivo \in Actor
  /\ \A actor \in Actor : Salida(actor) \in Actor
  /\ Tareas \subseteq Actores /\ Lectores \subseteq Actores
  /\ Intentos \in Nat \ {0} /\ MaxPeticiones \in Nat
<1>1. Inicial \in Versiones
  BY DEF Inicial, Versiones
<1>2. Intentos \in Nat \ {0} /\ MaxPeticiones \in Nat
  BY ActoresAssumption
<1>3. Inactivo \in Actor
  BY <1>1, <1>2 DEF Inactivo, Actor, Pasos
<1>4. ASSUME NEW actor \in Actor PROVE Salida(actor) \in Actor
  <2>1. [actor EXCEPT !.pc = "liberar", !.porLeer = {}, !.reporte = Inicial] \in Actor
    BY <1>1 DEF Actor, Pasos
  <2> QED  BY <2>1, <1>3 DEF Salida
<1> QED  BY <1>2, <1>3, <1>4 DEF Actores

LEMMA TipoIr ==
  ASSUME TypeOK, NEW a \in Actores, NEW actor \in Actor, Ir(a, actor)
  PROVE  act' \in [Actores -> Actor]
BY DEF TypeOK, Ir

LEMMA TipoSig == TypeOK /\ Locales /\ [Next]_vars => TypeOK'
<1> SUFFICES ASSUME TypeOK, Locales, [Next]_vars PROVE TypeOK'
  OBVIOUS
<1> USE Basico
<1>1. ASSUME NEW e \in Escritores, NEW o \in Peticiones, Pedir(e, o) PROVE TypeOK'
  BY <1>1, GuionesBien DEF Pedir, TypeOK, Causas
<1>2. ASSUME NEW e \in Escritores, Escribir(e) PROVE TypeOK'
  BY <1>2 DEF Escribir, TypeOK, Versiones
<1>3. ASSUME NEW e \in Escritores, programarRebuild(e) PROVE TypeOK'
  BY <1>3 DEF programarRebuild, TypeOK
<1>4. ASSUME NEW t \in Tareas, Arrancar(t) PROVE TypeOK'
  <2>1. [Inactivo EXCEPT !.pc = "cerrojo"] \in Actor
    BY DEF Actor, Pasos
  <2>2. act' \in [Actores -> Actor]
    BY <1>4, <2>1, TipoIr DEF Arrancar
  <2>3. programados' \in Nat
    BY <1>4 DEF Arrancar, TypeOK
  <2> QED  BY <1>4, <2>2, <2>3 DEF Arrancar, TypeOK
<1>5. ASSUME NEW l \in Lectores, Consultar(l) PROVE TypeOK'
  BY <1>5 DEF Consultar, Ir, TypeOK, Inactivo, Actor, Pasos
<1>6. ASSUME NEW a \in Actores, Adquirir(a) PROVE TypeOK'
  BY <1>6 DEF Adquirir, Ir, TypeOK, Actor, Pasos
<1>7. ASSUME NEW a \in Actores, NoAdquirir(a) PROVE TypeOK'
  <2>1. [act[a] EXCEPT !.pc = "esperar", !.intentos = Intentos] \in Actor
    <3>1. act[a] \in Actor /\ Intentos \in 0 .. Intentos
      BY DEF TypeOK
    <3> QED  BY <3>1 DEF Actor, Pasos
  <2>2. act' \in [Actores -> Actor]
    <3>1. CASE a \in Tareas
      BY <1>7, <3>1, TipoIr DEF NoAdquirir
    <3>2. CASE a \notin Tareas
      BY <1>7, <2>1, <3>2, TipoIr DEF NoAdquirir
    <3> QED  BY <3>1, <3>2
  <2> QED  BY <1>7, <2>2 DEF NoAdquirir, TypeOK, Causas
<1>8. ASSUME NEW l \in Lectores, LeerSnapshot(l) PROVE TypeOK'
  <2>1. [act[l] EXCEPT !.pc = "fijar", !.reporte = snapshot, !.intentos = 0] \in Actor
    <3>1. act[l] \in Actor /\ 0 \in 0 .. Intentos /\ snapshot \in Versiones
      BY <1>8 DEF LeerSnapshot, TypeOK
    <3> QED  BY <3>1 DEF Actor, Pasos
  <2>2. act' \in [Actores -> Actor]
    BY <1>8, <2>1, TipoIr DEF LeerSnapshot
  <2> QED  BY <1>8, <2>2 DEF LeerSnapshot, TypeOK
<1>9. ASSUME NEW l \in Lectores, SinSnapshot(l) PROVE TypeOK'
  <2>1. /\ [act[l] EXCEPT !.pc = "cerrojo"] \in Actor
        /\ [act[l] EXCEPT !.pc = "build", !.porLeer = Fuentes] \in Actor
    BY DEF TypeOK, Actor, Pasos
  <2>2. ASSUME act[l].pc = "esperar"
        PROVE  [act[l] EXCEPT !.pc = IF act[l].intentos > 1 THEN @ ELSE "recheck",
                              !.intentos = @ - 1] \in Actor
    <3>1. act[l] \in Actor /\ act[l].intentos > 0
      BY <2>2 DEF TypeOK, Locales
    <3>2. act[l].intentos - 1 \in 0 .. Intentos
      BY <3>1 DEF Actor
    <3> QED  BY <3>1, <3>2 DEF Actor, Pasos
  <2>3. act' \in [Actores -> Actor]
    BY <1>9, <2>1, <2>2, TipoIr DEF SinSnapshot
  <2> QED  BY <1>9, <2>3 DEF SinSnapshot, TypeOK, Causas
<1>10. ASSUME NEW a \in Actores, NEW f \in Fuentes, LeerFuente(a, f) PROVE TypeOK'
  BY <1>10 DEF LeerFuente, Ir, TypeOK, Actor, Versiones
<1>11. ASSUME NEW a \in Actores, Persistir(a) PROVE TypeOK'
  BY <1>11 DEF Persistir, Ir, TypeOK, Actor, Pasos, Inicial, Versiones
<1>12. ASSUME NEW t \in Tareas, BorrarCache(t) PROVE TypeOK'
  BY <1>12 DEF BorrarCache, Ir, Redis, TypeOK
<1>13. ASSUME NEW l \in Lectores, FijarCache(l) PROVE TypeOK'
  BY <1>13 DEF FijarCache, Ir, Redis, TypeOK, Actor
<1>14. ASSUME NEW a \in Actores, Liberar(a) PROVE TypeOK'
  BY <1>14 DEF Liberar, Ir, Redis, TypeOK
<1>15. ASSUME NEW a \in Actores, Fallar(a) PROVE TypeOK'
  <2>1. [act[a] EXCEPT !.intentos = 0] \in Actor
    BY DEF TypeOK, Actor
  <2>2. act' \in [Actores -> Actor]
    BY <1>15, <2>1, TipoIr DEF Fallar
  <2> QED  BY <1>15, <2>2 DEF Fallar, TypeOK, Causas
<1>16. CASE Caer
  <2>1. act' \in [Actores -> Actor]
    BY <1>16, TipoIr DEF Caer, TypeOK
  <2>2. programados' \in Nat
    BY <1>16 DEF Caer, TypeOK
  <2>3. guion' \in [Escritores -> Seq(Fuentes \cup {"programar"})]
    <3>1. <<>> \in Seq(Fuentes \cup {"programar"})
      OBVIOUS
    <3> QED  BY <1>16, <3>1 DEF Caer, TypeOK
  <2> QED  BY <1>16, <2>1, <2>2, <2>3 DEF Caer, TypeOK, Causas
<1>17. CASE ExpirarCache
  BY <1>17 DEF ExpirarCache, TypeOK
<1>18. CASE ExpirarCerrojo
  BY <1>18 DEF ExpirarCerrojo, TypeOK, Causas
<1>19. CASE UNCHANGED vars
  BY <1>19 DEF vars, TypeOK
<1> QED
  BY <1>1, <1>2, <1>3, <1>4, <1>5, <1>6, <1>7, <1>8, <1>9, <1>10, <1>11, <1>12, <1>13,
     <1>14, <1>15, <1>16, <1>17, <1>18, <1>19
     DEF Next, PasoEscritor, PasoTarea, PasoLector

\* a step of one actor leaves the others alone
LEMMA IrSolo ==
  ASSUME TypeOK, NEW a \in Actores, NEW actor, Ir(a, actor)
  PROVE  act'[a] = actor /\ \A b \in Actores \ {a} : act'[b] = act[b]
BY DEF TypeOK, Ir

LEMMA SalidaDe ==
  ASSUME NEW actor \in Actor
  PROVE  /\ Salida(actor).pc \in {"liberar", "inactivo"}
         /\ Salida(actor).adquirio = actor.adquirio
         /\ Salida(actor).pc = "liberar" => actor.adquirio
BY DEF Salida, Actor, Inactivo

LEMMA LocalesSig == TypeOK /\ Locales /\ [Next]_vars => Locales'
<1> SUFFICES ASSUME TypeOK, Locales, [Next]_vars PROVE Locales'
  OBVIOUS
<1> USE Basico
<1>0. ASSUME NEW a \in Actores, NEW actor, Ir(a, actor),
             actor.pc = "esperar" => actor.intentos > 0,
             actor.pc = "liberar" => actor.adquirio
      PROVE  Locales'
  BY <1>0, IrSolo DEF Locales
<1>1. ASSUME NEW e \in Escritores, NEW o \in Peticiones, Pedir(e, o) PROVE Locales'
  BY <1>1 DEF Pedir, Locales
<1>2. ASSUME NEW e \in Escritores, PasoEscritor(e) PROVE Locales'
  BY <1>2 DEF PasoEscritor, Escribir, programarRebuild, Locales
<1>3. ASSUME NEW t \in Tareas, Arrancar(t) PROVE Locales'
  BY <1>3, <1>0 DEF Arrancar, Inactivo
<1>4. ASSUME NEW l \in Lectores, Consultar(l) PROVE Locales'
  BY <1>4, <1>0 DEF Consultar, Inactivo
<1>5. ASSUME NEW a \in Actores, Adquirir(a) PROVE Locales'
  <2>1. act[a] \in Actor
    BY DEF TypeOK
  <2> QED  BY <1>5, <2>1, <1>0 DEF Adquirir, Actor
<1>6. ASSUME NEW a \in Actores, NoAdquirir(a) PROVE Locales'
  <2>1. act[a] \in Actor
    BY DEF TypeOK
  <2>2. CASE a \in Tareas
    BY <1>6, <2>2, <1>0 DEF NoAdquirir, Inactivo
  <2>3. CASE a \notin Tareas
    <3> DEFINE x == [act[a] EXCEPT !.pc = "esperar", !.intentos = Intentos]
    <3>1. x.pc = "esperar" /\ x.intentos > 0
      BY <2>1 DEF Actor
    <3> QED  BY <1>6, <2>3, <3>1, <1>0 DEF NoAdquirir
  <2> QED  BY <2>2, <2>3
<1>7. ASSUME NEW l \in Lectores, LeerSnapshot(l) PROVE Locales'
  <2>1. act[l] \in Actor
    BY DEF TypeOK
  <2> QED  BY <1>7, <2>1, <1>0 DEF LeerSnapshot, Actor
<1>8. ASSUME NEW l \in Lectores, SinSnapshot(l) PROVE Locales'
  <2>1. act[l] \in Actor
    BY DEF TypeOK
  <2>2. CASE act[l].pc = "esperar"
    <3> DEFINE x == [act[l] EXCEPT !.pc = IF act[l].intentos > 1 THEN @ ELSE "recheck",
                                   !.intentos = @ - 1]
    <3>1. (x.pc = "esperar" => x.intentos > 0) /\ (x.pc = "liberar" => x.adquirio)
      BY <2>1, <2>2 DEF Actor
    <3>2. Ir(l, x)
      BY <1>8, <2>2 DEF SinSnapshot
    <3> HIDE DEF x
    <3> QED  BY <3>1, <3>2, <1>0
  <2>3. CASE act[l].pc # "esperar"
    BY <1>8, <2>1, <2>3, <1>0 DEF SinSnapshot, Actor
  <2> QED  BY <2>2, <2>3
<1>9. ASSUME NEW a \in Actores, NEW f \in Fuentes, LeerFuente(a, f) PROVE Locales'
  <2>1. act[a] \in Actor
    BY DEF TypeOK
  <2> QED  BY <1>9, <2>1, <1>0 DEF LeerFuente, Locales, Actor
<1>10. ASSUME NEW a \in Actores, Persistir(a) PROVE Locales'
  <2>1. act[a] \in Actor
    BY DEF TypeOK
  <2> QED  BY <1>10, <2>1, <1>0 DEF Persistir, Actor
<1>11. ASSUME NEW a \in Actores, BorrarCache(a) \/ FijarCache(a) PROVE Locales'
  <2>1. act[a] \in Actor
    BY DEF TypeOK
  <2> QED  BY <1>11, <2>1, <1>0, SalidaDe DEF BorrarCache, FijarCache
<1>12. ASSUME NEW a \in Actores, Liberar(a) PROVE Locales'
  BY <1>12, <1>0 DEF Liberar, Inactivo
<1>13. ASSUME NEW a \in Actores, Fallar(a) PROVE Locales'
  <2>1. [act[a] EXCEPT !.intentos = 0] \in Actor
    BY DEF TypeOK, Actor
  <2> QED  BY <1>13, <2>1, <1>0, SalidaDe DEF Fallar
<1>14. CASE Caer
  BY <1>14, <1>0 DEF Caer, Inactivo, Locales
<1>15. CASE ExpirarCache \/ ExpirarCerrojo \/ UNCHANGED vars
  BY <1>15 DEF ExpirarCache, ExpirarCerrojo, vars, Locales
<1> QED
  BY <1>1, <1>2, <1>3, <1>4, <1>5, <1>6, <1>7, <1>8, <1>9, <1>10, <1>11, <1>12, <1>13,
     <1>14, <1>15 DEF Next, PasoTarea, PasoLector

LEMMA CausasCrecen == [Next]_vars => causas \subseteq causas'
BY DEF Next, vars, PasoEscritor, PasoTarea, PasoLector, Pedir, Escribir, programarRebuild,
       Arrancar, Consultar, Adquirir, NoAdquirir, LeerSnapshot, SinSnapshot, LeerFuente,
       Persistir, BorrarCache, FijarCache, Liberar, Fallar, Caer, ExpirarCache, ExpirarCerrojo

LEMMA TitularSig == TypeOK /\ Locales /\ Titular /\ [Next]_vars => Titular'
<1> SUFFICES ASSUME TypeOK, Locales, Titular, [Next]_vars PROVE Titular'
  OBVIOUS
<1> USE Basico, CausasCrecen
<1>t. \A a \in Actores : act[a] \in Actor
  BY DEF TypeOK
<1>0. ASSUME NEW a \in Actores, NEW actor, Ir(a, actor), cerrojo' = cerrojo,
             actor.adquirio => act[a].adquirio
      PROVE  Titular'
  BY <1>0, IrSolo DEF Titular, Retiene
<1>1. ASSUME UNCHANGED <<act, cerrojo>> PROVE Titular'
  BY <1>1 DEF Titular, Retiene
<1>2. ASSUME NEW a \in Actores,
             Arrancar(a) \/ Consultar(a) \/ NoAdquirir(a) \/ LeerSnapshot(a) \/ SinSnapshot(a)
               \/ Persistir(a)
      PROVE  Titular'
  BY <1>2, <1>0, <1>t
     DEF Arrancar, Consultar, NoAdquirir, LeerSnapshot, SinSnapshot, Persistir, Inactivo, Actor
<1>3. ASSUME NEW a \in Actores, NEW f \in Fuentes, LeerFuente(a, f) PROVE Titular'
  BY <1>3, <1>0, <1>t DEF LeerFuente, Actor
<1>4. ASSUME NEW a \in Actores, Adquirir(a) PROVE Titular'
  <2>1. cerrojo = Libre /\ Libre \notin Actores
    BY <1>4, ActoresAssumption DEF Adquirir
  <2>2. "expirado" \notin causas => \A b \in Actores : ~ act[b].adquirio
    BY <2>1 DEF Titular, Retiene
  <2>3. \A b \in Actores \ {a} : act'[b] = act[b]
    BY <1>4, IrSolo DEF Adquirir
  <2> QED  BY <1>4, <2>2, <2>3 DEF Adquirir, Titular, Retiene
<1>5. ASSUME NEW a \in Actores, BorrarCache(a) \/ FijarCache(a) PROVE Titular'
  BY <1>5, <1>0, <1>t, SalidaDe DEF BorrarCache, FijarCache
<1>6. ASSUME NEW a \in Actores, Liberar(a) PROVE Titular'
  <2>1. act'[a] = Inactivo /\ \A b \in Actores \ {a} : act'[b] = act[b]
    BY <1>6, IrSolo DEF Liberar
  <2>2. act[a].adquirio
    BY <1>6 DEF Liberar, Locales
  <2>3. "expirado" \notin causas => \A b \in Actores \ {a} : ~ act[b].adquirio
    BY <2>2 DEF Titular, Retiene
  <2> QED  BY <2>1, <2>3, CausasCrecen DEF Titular, Retiene, Inactivo
<1>7. ASSUME NEW a \in Actores, Fallar(a) PROVE Titular'
  <2>1. [act[a] EXCEPT !.intentos = 0] \in Actor
    BY <1>t DEF Actor
  <2>2. [act[a] EXCEPT !.intentos = 0].adquirio = act[a].adquirio
    BY <1>t DEF Actor
  <2> QED  BY <1>7, <2>1, <2>2, <1>0, SalidaDe DEF Fallar
<1>8. CASE Caer
  BY <1>8, <1>0, <1>1 DEF Caer, Inactivo
<1>9. CASE ExpirarCerrojo
  BY <1>9 DEF ExpirarCerrojo, Titular, Retiene
<1>10. ASSUME NEW e \in Escritores,
              PasoEscritor(e) \/ (\E o \in Peticiones : Pedir(e, o))
       PROVE  Titular'
  BY <1>10, <1>1 DEF PasoEscritor, Escribir, programarRebuild, Pedir
<1>11. CASE ExpirarCache \/ UNCHANGED vars
  BY <1>11, <1>1 DEF ExpirarCache, vars
<1> QED
  BY <1>2, <1>3, <1>4, <1>5, <1>6, <1>7, <1>8, <1>9, <1>10, <1>11
     DEF Next, PasoTarea, PasoLector

LEMMA PersistidoSig == TypeOK /\ Persistido /\ [Next]_vars => Persistido'
<1> SUFFICES ASSUME TypeOK, Persistido, [Next]_vars PROVE Persistido'
  OBVIOUS
<1> USE Basico
<1>t. \A a \in Actores : act[a] \in Actor
  BY DEF TypeOK
<1>0. ASSUME NEW a \in Actores, NEW actor, Ir(a, actor), UNCHANGED <<snapshot, cache>>,
             actor.pc = "fijar" => snapshot # NoExiste
      PROVE  Persistido'
  BY <1>0, IrSolo DEF Persistido
<1>1. ASSUME UNCHANGED act, UNCHANGED snapshot, cache' \in {cache, NoCache} PROVE Persistido'
  BY <1>1 DEF Persistido
<1>2. ASSUME NEW a \in Actores,
             Arrancar(a) \/ Consultar(a) \/ Adquirir(a) \/ NoAdquirir(a) \/ LeerSnapshot(a)
               \/ SinSnapshot(a) \/ Liberar(a)
      PROVE  Persistido'
  BY <1>2, <1>0, <1>t
     DEF Arrancar, Consultar, Adquirir, NoAdquirir, LeerSnapshot, SinSnapshot, Liberar,
         Inactivo, Actor
<1>3. ASSUME NEW a \in Actores, NEW f \in Fuentes, LeerFuente(a, f) PROVE Persistido'
  BY <1>3, <1>0, <1>t DEF LeerFuente, Actor
<1>4. ASSUME NEW a \in Actores, Persistir(a) PROVE Persistido'
  <2>1. snapshot' # NoExiste
    BY <1>4, <1>t, SinDatosAssumption DEF Persistir, Actor
  <2> QED  BY <1>4, <2>1 DEF Persistir, Persistido
<1>5. ASSUME NEW t \in Actores, BorrarCache(t) PROVE Persistido'
  <2>1. act'[t].pc # "fijar" /\ \A b \in Actores \ {t} : act'[b] = act[b]
    BY <1>5, <1>t, IrSolo, SalidaDe DEF BorrarCache
  <2> QED  BY <1>5, <2>1 DEF BorrarCache, Redis, Persistido
<1>6. ASSUME NEW l \in Actores, FijarCache(l) PROVE Persistido'
  <2>1. act'[l].pc # "fijar" /\ \A b \in Actores \ {l} : act'[b] = act[b]
    BY <1>6, <1>t, IrSolo, SalidaDe DEF FijarCache
  <2>2. snapshot # NoExiste
    BY <1>6 DEF FijarCache, Persistido
  <2> QED  BY <1>6, <2>1, <2>2 DEF FijarCache, Persistido
<1>7. ASSUME NEW a \in Actores, Fallar(a) PROVE Persistido'
  <2>1. [act[a] EXCEPT !.intentos = 0] \in Actor
    BY <1>t DEF Actor
  <2> QED  BY <1>7, <2>1, <1>0, SalidaDe DEF Fallar
<1>8. CASE Caer
  BY <1>8, <1>0, <1>1 DEF Caer, Inactivo
<1>9. ASSUME NEW e \in Escritores,
             PasoEscritor(e) \/ (\E o \in Peticiones : Pedir(e, o))
      PROVE  Persistido'
  BY <1>9, <1>1 DEF PasoEscritor, Escribir, programarRebuild, Pedir
<1>10. CASE ExpirarCache \/ ExpirarCerrojo \/ UNCHANGED vars
  BY <1>10, <1>1 DEF ExpirarCache, ExpirarCerrojo, vars
<1> QED
  BY <1>2, <1>3, <1>4, <1>5, <1>6, <1>7, <1>8, <1>9, <1>10 DEF Next, PasoTarea, PasoLector

LEMMA AnteriorTransitiva ==
  ASSUME NEW u \in Versiones, NEW v \in Versiones, NEW w \in Versiones,
         Anterior(u, v), Anterior(v, w)
  PROVE  Anterior(u, w)
BY DEF Anterior, Versiones

\* what a builder has read stays fresh when the collections advance
LEMMA LecturaSigueFresca ==
  ASSUME NEW actor \in Actor, TypeOK, LecturaFresca(actor),
         datos' \in Versiones, Anterior(datos, datos')
  PROVE  \A f \in Fuentes \ actor.porLeer :
           /\ actor.reporte[f] <= datos'[f]
           /\ snapshot # NoExiste => snapshot[f] <= actor.reporte[f]
BY DEF LecturaFresca, Anterior, Actor, TypeOK, Versiones

\* the builder that persists replaces the snapshot with a newer one
LEMMA PersistirAvanza ==
  ASSUME TypeOK, Ordenado, EnOrden, NEW a \in Actores, Persistir(a)
  PROVE  /\ snapshot' \in Versiones
         /\ Anterior(snapshot', datos)
         /\ snapshot # NoExiste => Anterior(snapshot, snapshot')
         /\ act[a].adquirio
<1>1. act[a] \in Actor /\ act[a].pc = "build" /\ act[a].porLeer = {}
  BY DEF Persistir, TypeOK
<1>2. LecturaFresca(act[a]) /\ act[a].adquirio
  BY <1>1 DEF Ordenado
<1>3. snapshot' = act[a].reporte
  BY DEF Persistir
<1> QED  BY <1>1, <1>2, <1>3 DEF LecturaFresca, Anterior, Actor

LEMMA OrdenadoSig == IInv /\ [Next]_vars => Ordenado'
<1> SUFFICES ASSUME IInv, [Next]_vars, EnOrden' PROVE Ordenado'
  BY DEF Ordenado
<1> USE Basico
<1>t. TypeOK /\ \A a \in Actores : act[a] \in Actor
  BY DEF IInv, TypeOK
<1>o. EnOrden /\ Ordenado
  BY CausasCrecen DEF EnOrden, IInv
<1>0. ASSUME NEW a \in Actores, NEW actor, Ir(a, actor), UNCHANGED <<datos, snapshot, cache>>,
             actor.pc = "fijar" => Anterior(actor.reporte, snapshot),
             actor.pc = "build" => actor.adquirio /\ LecturaFresca(actor)
      PROVE  Ordenado'
  <2>1. act'[a] = actor /\ \A b \in Actores \ {a} : act'[b] = act[b]
    BY <1>0, <1>t, IrSolo
  <2> QED  BY <1>0, <1>o, <2>1 DEF Ordenado, LecturaFresca, Anterior
<1>1. ASSUME UNCHANGED <<act, snapshot>>, cache' \in {cache, NoCache},
             datos' \in Versiones, Anterior(datos, datos')
      PROVE  Ordenado'
  <2>1. \A a \in Actores : act[a].pc = "build" => act[a].adquirio /\ LecturaFresca(act[a])'
    BY <1>1, <1>t, <1>o, LecturaSigueFresca DEF LecturaFresca, Ordenado
  <2>2. snapshot # NoExiste => Anterior(snapshot, datos')
    BY <1>1, <1>t, <1>o, AnteriorTransitiva DEF TypeOK, Ordenado
  <2> QED  BY <1>1, <1>o, <2>1, <2>2 DEF Ordenado, Anterior
<1>2. ASSUME UNCHANGED <<act, snapshot, datos>>, cache' \in {cache, NoCache} PROVE Ordenado'
  <2>1. datos \in Versiones /\ Anterior(datos, datos)
    BY <1>t DEF TypeOK, Anterior, Versiones
  <2> QED  BY <1>1, <1>2, <2>1
<1>3. ASSUME NEW a \in Actores, Arrancar(a) \/ Consultar(a) \/ NoAdquirir(a) \/ Liberar(a)
      PROVE  Ordenado'
  BY <1>3, <1>0, <1>t DEF Arrancar, Consultar, NoAdquirir, Liberar, Inactivo, Actor
<1>4. ASSUME NEW a \in Actores, Adquirir(a) PROVE Ordenado'
  <2>1. CASE a \in Tareas
    <3> DEFINE x == [act[a] EXCEPT !.pc = "build", !.adquirio = TRUE, !.porLeer = Fuentes]
    <3>1. x.pc = "build" /\ x.adquirio /\ x.porLeer = Fuentes
      BY <1>t DEF Actor
    <3>2. LecturaFresca(x)
      BY <3>1 DEF LecturaFresca
    <3>3. Ir(a, x) /\ UNCHANGED <<datos, snapshot, cache>>
      BY <1>4, <2>1 DEF Adquirir
    <3> HIDE DEF x
    <3> QED  BY <3>1, <3>2, <3>3, <1>0
  <2>2. CASE a \notin Tareas
    BY <1>4, <2>2, <1>0, <1>t DEF Adquirir, Actor
  <2> QED  BY <2>1, <2>2
<1>5. ASSUME NEW l \in Actores, LeerSnapshot(l) PROVE Ordenado'
  <2> DEFINE x == [act[l] EXCEPT !.pc = "fijar", !.reporte = snapshot, !.intentos = 0]
  <2>1. x.pc = "fijar" /\ x.reporte = snapshot /\ snapshot \in Versiones
    BY <1>5, <1>t DEF LeerSnapshot, TypeOK, Actor
  <2>2. Anterior(snapshot, snapshot)
    BY <2>1 DEF Anterior, Versiones
  <2>3. Ir(l, x) /\ UNCHANGED <<datos, snapshot, cache>>
    BY <1>5 DEF LeerSnapshot
  <2> HIDE DEF x
  <2> QED  BY <2>1, <2>2, <2>3, <1>0
<1>6. ASSUME NEW l \in Actores, SinSnapshot(l) PROVE Ordenado'
  <2>1. CASE act[l].pc = "recheck"
    <3> DEFINE x == [act[l] EXCEPT !.pc = "build", !.porLeer = Fuentes]
    <3>1. act[l].adquirio
      BY <1>6, <2>1 DEF SinSnapshot, EnOrden
    <3>2. x.pc = "build" /\ x.adquirio /\ x.porLeer = Fuentes
      BY <3>1, <1>t DEF Actor
    <3>3. LecturaFresca(x)
      BY <3>2 DEF LecturaFresca
    <3>4. Ir(l, x) /\ UNCHANGED <<datos, snapshot, cache>>
      BY <1>6, <2>1 DEF SinSnapshot
    <3> HIDE DEF x
    <3> QED  BY <3>2, <3>3, <3>4, <1>0
  <2>2. CASE act[l].pc # "recheck"
    BY <1>6, <2>2, <1>0, <1>t DEF SinSnapshot, Actor
  <2> QED  BY <2>1, <2>2
<1>7. ASSUME NEW a \in Actores, NEW f \in Fuentes, LeerFuente(a, f) PROVE Ordenado'
  <2> DEFINE x == [act[a] EXCEPT !.porLeer = @ \ {f}, !.reporte[f] = datos[f]]
  <2>1. act[a].pc = "build" /\ act[a].adquirio /\ LecturaFresca(act[a])
    BY <1>7, <1>o DEF LeerFuente, Ordenado
  <2>2. /\ x.pc = "build" /\ x.adquirio /\ x.porLeer = act[a].porLeer \ {f}
        /\ x.reporte[f] = datos[f]
        /\ \A g \in Fuentes \ {f} : x.reporte[g] = act[a].reporte[g]
    BY <1>t, <2>1 DEF Actor, Versiones
  <2>3. datos[f] <= datos[f] /\ (snapshot # NoExiste => snapshot[f] <= datos[f])
    BY <1>t, <1>o DEF TypeOK, Versiones, Ordenado, Anterior
  <2>4. Ir(a, x) /\ UNCHANGED <<datos, snapshot, cache>>
    BY <1>7 DEF LeerFuente
  <2> HIDE DEF x
  <2>5. LecturaFresca(x)
    BY <2>1, <2>2, <2>3 DEF LecturaFresca
  <2> QED  BY <2>2, <2>4, <2>5, <1>0
<1>8. ASSUME NEW a \in Actores, Persistir(a) PROVE Ordenado'
  <2>1. /\ snapshot' \in Versiones /\ Anterior(snapshot', datos)
        /\ snapshot # NoExiste => Anterior(snapshot, snapshot')
        /\ act[a].adquirio
    BY <1>8, <1>t, <1>o, PersistirAvanza
  <2>2. /\ UNCHANGED <<datos, cache, causas>> /\ act[a].pc = "build"
        /\ \A b \in Actores \ {a} : act'[b] = act[b]
        /\ act'[a].pc \in {"borrar", "fijar"}
        /\ act'[a].pc = "fijar" => act'[a].reporte = snapshot'
    <3>1. CASE a \in Tareas
      <4>1. Ir(a, [act[a] EXCEPT !.pc = "borrar", !.reporte = Inicial])
        BY <1>8, <3>1 DEF Persistir
      <4>2. /\ act'[a] = [act[a] EXCEPT !.pc = "borrar", !.reporte = Inicial]
            /\ \A b \in Actores \ {a} : act'[b] = act[b]
        BY <4>1, <1>t, IrSolo
      <4>3. act'[a].pc = "borrar"
        BY <4>2, <1>t DEF Actor
      <4> QED  BY <1>8, <4>2, <4>3 DEF Persistir
    <3>2. CASE a \notin Tareas
      <4>1. Ir(a, [act[a] EXCEPT !.pc = "fijar"]) /\ snapshot' = act[a].reporte
        BY <1>8, <3>2 DEF Persistir
      <4> QED  BY <1>8, <4>1, <1>t, IrSolo DEF Persistir, Actor
    <3> QED  BY <3>1, <3>2
  <2>3. \A b \in Actores \ {a} : act[b].pc # "build"
    BY <2>1, <1>o DEF IInv, Titular, EnOrden, Retiene, Ordenado
  <2>4. cache # NoCache => Anterior(cache, snapshot')
    BY <1>t, <1>o, <2>1, AnteriorTransitiva DEF IInv, Persistido, Ordenado, TypeOK
  <2>5. \A b \in Actores \ {a} : act[b].pc = "fijar" => Anterior(act[b].reporte, snapshot')
    BY <1>t, <1>o, <2>1, AnteriorTransitiva DEF IInv, Persistido, Ordenado, TypeOK, Actor
  <2>6. Anterior(snapshot', snapshot')
    BY <2>1 DEF Anterior, Versiones
  <2>7. /\ snapshot' # NoExiste => Anterior(snapshot', datos')
        /\ cache' # NoCache => Anterior(cache', snapshot')
    BY <2>1, <2>2, <2>4
  <2>8. \A b \in Actores : act'[b].pc = "fijar" => Anterior(act'[b].reporte, snapshot')
    BY <2>2, <2>5, <2>6
  <2>9. \A b \in Actores : act'[b].pc # "build"
    BY <2>2, <2>3
  <2> QED  BY <2>7, <2>8, <2>9 DEF Ordenado, Anterior
<1>9. ASSUME NEW t \in Actores, BorrarCache(t) PROVE Ordenado'
  <2>1. act'[t].pc \in {"liberar", "inactivo"} /\ \A b \in Actores \ {t} : act'[b] = act[b]
    BY <1>9, <1>t, IrSolo, SalidaDe DEF BorrarCache
  <2> QED  BY <1>9, <1>o, <2>1 DEF BorrarCache, Redis, Ordenado, Anterior, LecturaFresca
<1>10. ASSUME NEW l \in Actores, FijarCache(l) PROVE Ordenado'
  <2>1. act'[l].pc \in {"liberar", "inactivo"} /\ \A b \in Actores \ {l} : act'[b] = act[b]
    BY <1>10, <1>t, IrSolo, SalidaDe DEF FijarCache
  <2>2. cache' \in {act[l].reporte, cache} /\ Anterior(act[l].reporte, snapshot)
    BY <1>10, <1>o DEF FijarCache, Redis, Ordenado
  <2> QED  BY <1>10, <1>o, <2>1, <2>2 DEF FijarCache, Ordenado, Anterior, LecturaFresca
<1>11. ASSUME NEW a \in Actores, Fallar(a) PROVE Ordenado'
  <2>1. [act[a] EXCEPT !.intentos = 0] \in Actor
    BY <1>t DEF Actor
  <2> QED  BY <1>11, <2>1, <1>0, SalidaDe DEF Fallar
<1>12. CASE Caer
  BY <1>12, <1>0, <1>2 DEF Caer, Inactivo
<1>13. ASSUME NEW e \in Escritores, Escribir(e) PROVE Ordenado'
  <2>1. datos' \in Versiones /\ Anterior(datos, datos')
    BY <1>13, <1>t DEF Escribir, TypeOK, Versiones, Anterior
  <2> QED  BY <1>13, <2>1, <1>1 DEF Escribir
<1>14. ASSUME NEW e \in Escritores,
              programarRebuild(e) \/ (\E o \in Peticiones : Pedir(e, o))
       PROVE  Ordenado'
  BY <1>14, <1>2 DEF programarRebuild, Pedir
<1>15. CASE ExpirarCache \/ ExpirarCerrojo \/ UNCHANGED vars
  BY <1>15, <1>2 DEF ExpirarCache, ExpirarCerrojo, vars
<1> QED
  BY <1>3, <1>4, <1>5, <1>6, <1>7, <1>8, <1>9, <1>10, <1>11, <1>12, <1>13, <1>14, <1>15
     DEF Next, PasoTarea, PasoLector, PasoEscritor
\* a version is between itself only
LEMMA AnteriorAntisimetrica ==
  ASSUME NEW v \in Versiones, NEW w \in Versiones, Anterior(v, w), Anterior(w, v)
  PROVE  v = w
<1>1. \A f \in Fuentes : v[f] = w[f]
  BY DEF Anterior, Versiones
<1> QED  BY <1>1 DEF Versiones

\* what is left of a request after one of its steps
LEMMA RestoTermina ==
  ASSUME NEW S, NEW g \in Seq(S), g # <<>>, TerminaProgramando(g)
  PROVE  /\ TerminaProgramando(Tail(g))
         /\ Head(g) # "programar" => Tail(g) # <<>>
<1> DEFINE n == Len(g)
<1>0. \A t \in Seq(S) : t = <<>> \/ Len(t) > 0
  OBVIOUS
<1>1. n \in Nat /\ n > 0
  BY <1>0
<1>2. g[n] = "programar"
  BY DEF TerminaProgramando
<1>3. Tail(g) \in Seq(S) /\ Len(Tail(g)) = n - 1 /\ Head(g) = g[1]
  OBVIOUS
<1>4. n > 1 => Tail(g)[n - 1] = g[n]
  BY <1>1
<1> HIDE DEF n
<1>5. n = 1 \/ n > 1
  BY <1>1
<1>6. CASE n = 1
  <2> DEFINE t == Tail(g)
  <2>t. t \in Seq(S) /\ Len(t) = 0
    BY <1>3, <1>6
  <2> HIDE DEF t
  <2>1. t = <<>>
    BY <1>0, <2>t
  <2> USE DEF t
  <2> QED  BY <2>1, <1>2, <1>3, <1>6 DEF TerminaProgramando
<1>7. CASE n > 1
  <2>1. Len(Tail(g)) = n - 1 /\ n - 1 # 0 /\ Tail(g)[n - 1] = "programar"
    BY <1>1, <1>2, <1>3, <1>4, <1>7
  <2>2. Tail(g) # <<>>
    BY <2>1
  <2> QED  BY <2>1, <2>2 DEF TerminaProgramando
<1> QED  BY <1>5, <1>6, <1>7

LEMMA CubiertoSig == IInv /\ [Next]_vars => Cubierto'
<1> SUFFICES ASSUME IInv, [Next]_vars, causas' = {}
             PROVE  /\ \A e \in Escritores : TerminaProgramando(guion'[e])
                    /\ peticiones' > 0 => PorReconstruir' \/ snapshot' = datos'
  BY DEF Cubierto
<1> USE Basico
<1>t. TypeOK /\ \A a \in Actores : act[a] \in Actor
  BY DEF IInv, TypeOK
<1>o. /\ causas = {} /\ EnOrden /\ Ordenado
      /\ \A e \in Escritores : TerminaProgramando(guion[e])
      /\ peticiones > 0 => PorReconstruir \/ snapshot = datos
  BY CausasCrecen DEF EnOrden, IInv, Cubierto
<1>c. Cubierto' <=>
        /\ \A e \in Escritores : TerminaProgramando(guion'[e])
        /\ peticiones' > 0 => PorReconstruir' \/ snapshot' = datos'
  BY DEF Cubierto
<1>0. ASSUME NEW a \in Actores, NEW actor, Ir(a, actor),
             UNCHANGED <<datos, snapshot, programados, guion, peticiones>>,
             act[a].pc # "build", a \in Tareas => act[a].pc # "cerrojo"
      PROVE  Cubierto'
  <2>1. \A b \in Actores \ {a} : act'[b] = act[b]
    BY <1>0, <1>t, IrSolo
  <2>2. PorReconstruir => PorReconstruir'
    BY <1>0, <2>1 DEF PorReconstruir
  <2> QED  BY <1>0, <1>o, <1>c, <2>2
<1>1. ASSUME UNCHANGED <<datos, snapshot, programados, guion, act, peticiones>> PROVE Cubierto'
  <2>1. PorReconstruir => PorReconstruir'
    BY <1>1 DEF PorReconstruir
  <2> QED  BY <1>1, <1>o, <1>c, <2>1
<1>2. ASSUME NEW e \in Escritores, NEW o \in Peticiones, Pedir(e, o) PROVE Cubierto'
  <2>1. Contains(Guiones[o], "programar")
    BY <1>2 DEF Pedir
  <2>2. guion'[e] = Guiones[o] /\ \A d \in Escritores \ {e} : guion'[d] = guion[d]
    BY <1>2, <1>t DEF Pedir, TypeOK
  <2>3. guion'[e] # <<>> /\ TerminaProgramando(guion'[e])
    BY <2>1, <2>2, GuionesTerminan
  <2> QED  BY <1>o, <1>c, <2>2, <2>3 DEF PorReconstruir
<1>3. ASSUME NEW e \in Escritores, Escribir(e) \/ programarRebuild(e) PROVE Cubierto'
  <2>1. /\ guion'[e] = Tail(guion[e]) /\ guion[e] # <<>>
        /\ \A d \in Escritores \ {e} : guion'[d] = guion[d]
    BY <1>3, <1>t DEF Escribir, programarRebuild, TypeOK
  <2>2. guion[e] \in Seq(Fuentes \cup {"programar"}) /\ programados \in Nat
    BY <1>t DEF TypeOK
  <2>3. TerminaProgramando(guion'[e]) /\ (Head(guion[e]) # "programar" => guion'[e] # <<>>)
    BY <1>o, <2>1, <2>2, RestoTermina
  <2>4. PorReconstruir'
    BY <1>3, <2>2, <2>3 DEF Escribir, programarRebuild, PorReconstruir
  <2> QED  BY <1>o, <1>c, <2>1, <2>3, <2>4
<1>4. ASSUME NEW t \in Tareas, Arrancar(t) PROVE Cubierto'
  <2>1. act'[t].pc = "cerrojo" /\ guion' = guion
    BY <1>4, <1>t, IrSolo DEF Arrancar, Inactivo
  <2> QED  BY <1>o, <1>c, <2>1 DEF PorReconstruir
<1>5. ASSUME NEW l \in Lectores,
             Consultar(l) \/ LeerSnapshot(l) \/ SinSnapshot(l) \/ FijarCache(l)
      PROVE  Cubierto'
  <2>1. l \notin Tareas
    BY ActoresAssumption
  <2>2. \E actor : Ir(l, actor)
    BY <1>5 DEF Consultar, LeerSnapshot, SinSnapshot, FijarCache
  <2>3. act[l].pc # "build" /\ UNCHANGED <<datos, snapshot, programados, guion, peticiones>>
    BY <1>5 DEF Consultar, LeerSnapshot, SinSnapshot, FijarCache
  <2> QED  BY <2>1, <2>2, <2>3, <1>0
<1>6. ASSUME NEW a \in Actores, BorrarCache(a) \/ Liberar(a) PROVE Cubierto'
  <2>1. \E actor : Ir(a, actor)
    BY <1>6 DEF BorrarCache, Liberar
  <2>2. /\ act[a].pc \in {"borrar", "liberar"}
        /\ UNCHANGED <<datos, snapshot, programados, guion, peticiones>>
    BY <1>6 DEF BorrarCache, Liberar
  <2> QED  BY <2>1, <2>2, <1>0
<1>7. ASSUME NEW a \in Actores, Adquirir(a) PROVE Cubierto'
  <2>1. CASE a \in Tareas
    <3>1. act'[a] = [act[a] EXCEPT !.pc = "build", !.adquirio = TRUE, !.porLeer = Fuentes]
      BY <1>7, <1>t, <2>1, IrSolo DEF Adquirir
    <3>2. act'[a].pc = "build" /\ act'[a].porLeer = Fuentes /\ guion' = guion
      BY <1>7, <1>t, <3>1 DEF Adquirir, Actor
    <3> QED  BY <1>o, <1>c, <3>2 DEF PorReconstruir
  <2>2. CASE a \notin Tareas
    BY <1>7, <2>2, <1>0 DEF Adquirir
  <2> QED  BY <2>1, <2>2
<1>8. ASSUME NEW a \in Actores, NoAdquirir(a) PROVE Cubierto'
  <2>1. a \notin Tareas
    BY <1>8 DEF NoAdquirir
  <2> QED  BY <1>8, <2>1, <1>0 DEF NoAdquirir
<1>9. ASSUME NEW a \in Actores, NEW f \in Fuentes, LeerFuente(a, f) PROVE Cubierto'
  <2>1. /\ act'[a] = [act[a] EXCEPT !.porLeer = @ \ {f}, !.reporte[f] = datos[f]]
        /\ \A b \in Actores \ {a} : act'[b] = act[b]
    BY <1>9, <1>t, IrSolo DEF LeerFuente
  <2>2. /\ act'[a].pc = "build" /\ act'[a].porLeer = act[a].porLeer \ {f}
        /\ act'[a].reporte[f] = datos[f]
        /\ \A g \in Fuentes \ {f} : act'[a].reporte[g] = act[a].reporte[g]
    BY <1>9, <1>t, <2>1 DEF LeerFuente, Actor, Versiones
  <2>3. act[a].pc = "build" /\ UNCHANGED <<datos, snapshot, programados, guion, peticiones>>
    BY <1>9 DEF LeerFuente
  <2>4. ASSUME NEW b \in Actores, act[b].pc = "build",
               \A g \in Fuentes \ act[b].porLeer : act[b].reporte[g] = datos[g]
        PROVE  /\ act'[b].pc = "build"
               /\ \A g \in Fuentes \ act'[b].porLeer : act'[b].reporte[g] = datos'[g]
    BY <2>1, <2>2, <2>3, <2>4
  <2>5. \A t \in Tareas : act[t].pc = "cerrojo" => act'[t].pc = "cerrojo"
    BY <2>1, <2>3
  <2>6. PorReconstruir => PorReconstruir'
    BY <2>3, <2>4, <2>5 DEF PorReconstruir
  <2> QED  BY <1>o, <1>c, <2>3, <2>6
<1>10. ASSUME NEW a \in Actores, Persistir(a) PROVE Cubierto'
  <2>1. /\ snapshot' \in Versiones /\ Anterior(snapshot', datos)
        /\ snapshot # NoExiste => Anterior(snapshot, snapshot')
        /\ act[a].adquirio
    BY <1>10, <1>t, <1>o, PersistirAvanza
  <2>2. /\ act[a].pc = "build" /\ act[a].porLeer = {} /\ snapshot' = act[a].reporte
        /\ UNCHANGED <<datos, programados, guion, peticiones>>
        /\ \A b \in Actores \ {a} : act'[b] = act[b]
    BY <1>10, <1>t, IrSolo DEF Persistir
  <2>3. \A b \in Actores \ {a} : act[b].pc # "build"
    BY <2>1, <1>o DEF IInv, Titular, EnOrden, Retiene, Ordenado
  <2>4. datos \in Versiones /\ snapshot \in Versiones \cup {NoExiste}
    BY <1>t DEF TypeOK
  <2>5. ASSUME snapshot = datos PROVE snapshot' = datos'
    BY <2>1, <2>2, <2>4, <2>5, SinDatosAssumption, AnteriorAntisimetrica
  <2>6. ASSUME \A f \in Fuentes : act[a].reporte[f] = datos[f] PROVE snapshot' = datos'
    BY <2>1, <2>2, <2>4, <2>6 DEF Versiones
  <2>7. PorReconstruir => PorReconstruir' \/ snapshot' = datos'
    BY <2>2, <2>3, <2>6 DEF PorReconstruir
  <2> QED  BY <1>o, <1>c, <2>2, <2>5, <2>7
<1>11. ASSUME NEW a \in Actores, Fallar(a) PROVE Cubierto'
  BY <1>11 DEF Fallar
<1>12. CASE Caer
  BY <1>12 DEF Caer
<1>13. CASE ExpirarCache \/ ExpirarCerrojo \/ UNCHANGED vars
  <2>1. UNCHANGED <<datos, snapshot, programados, guion, act, peticiones>>
    BY <1>13 DEF ExpirarCache, ExpirarCerrojo, vars
  <2> QED  BY <2>1, <1>1, <1>c
<1> QED
  BY <1>c, <1>2, <1>3, <1>4, <1>5, <1>6, <1>7, <1>8, <1>9, <1>10, <1>11, <1>12, <1>13
     DEF Next, PasoTarea, PasoLector, PasoEscritor
-----------------------------------------------------------------------------
LEMMA Inductivo == Spec => []IInv
<1>1. IInv /\ [Next]_vars => IInv'
  BY TipoSig, LocalesSig, TitularSig, PersistidoSig, OrdenadoSig, CubiertoSig DEF IInv
<1> QED  BY InitInv, <1>1, PTL DEF Spec

\* Every variable keeps its type: also the polls of a reader stay within Intentos.
THEOREM TipoCorrecto == Spec => []TypeOK
<1>1. IInv => TypeOK
  BY DEF IInv
<1> QED  BY Inductivo, <1>1, PTL

\* acquireLock and releaseLock exclude each other's holders, unless a holder has
\* outlived the 120 s of the key, although the key names no owner.
THEOREM ExclusionMutua == Spec => []UnSoloTitular
<1>1. IInv => UnSoloTitular
  BY DEF IInv, Titular, UnSoloTitular
<1> QED  BY Inductivo, <1>1, PTL

\* The cache never serves a report newer than the snapshot: what obtenerReporte
\* caches has been persisted.
THEOREM CachePersistida == Spec => []CacheTrasSnapshot
<1>1. IInv => CacheTrasSnapshot
  BY DEF IInv, Persistido, Ordenado, EnOrden, CacheTrasSnapshot
<1> QED  BY Inductivo, <1>1, PTL

\* Once everything is quiet the report shows every write, unless a rebuild was
\* skipped, died or was never asked for, or the lock did not protect it: for any
\* number of requests that overlap each other's rebuilds.
THEOREM FrescoEnReposo == Spec => []ReposoFresco
<1>1. IInv => ReposoFresco
  BY Basico DEF IInv, Cubierto, PorReconstruir, Reposo, ReposoFresco, TypeOK
<1> QED  BY Inductivo, <1>1, PTL

\* The snapshot only moves forward while rebuilds and cold starts hold the lock.
THEOREM AvanceDelSnapshot == Spec => SnapshotAvanza
<1> DEFINE A == \/ snapshot = NoExiste
                \/ Anterior(snapshot, snapshot')
                \/ causas \cap {"expirado", "sinCerrojo"} # {}
<1>1. IInv /\ [Next]_vars => [A]_vars
  <2> SUFFICES ASSUME IInv, [Next]_vars, EnOrden, snapshot # NoExiste
               PROVE  Anterior(snapshot, snapshot')
    BY DEF EnOrden
  <2>1. ASSUME NEW a \in Actores, Persistir(a) PROVE Anterior(snapshot, snapshot')
    BY <2>1, PersistirAvanza DEF IInv
  <2>2. ASSUME UNCHANGED snapshot PROVE Anterior(snapshot, snapshot')
    BY <2>2 DEF IInv, TypeOK, Anterior, Versiones
  <2>3. (\E a \in Actores : Persistir(a)) \/ UNCHANGED snapshot
    BY Basico
       DEF Next, vars, PasoEscritor, PasoTarea, PasoLector, Pedir, Escribir, programarRebuild,
           Arrancar, Consultar, Adquirir, NoAdquirir, LeerSnapshot, SinSnapshot, LeerFuente,
           BorrarCache, FijarCache, Liberar, Fallar, Caer, ExpirarCache, ExpirarCerrojo
  <2> QED  BY <2>1, <2>2, <2>3
<1> QED  BY Inductivo, <1>1, PTL DEF Spec, SnapshotAvanza
=============================================================================
