CONSTANTS
    Propostas = {p1}
    Sessoes = {s1, s2}
    Execucoes = {cron}
    Meses = {1}
    PrecoMaximo = 1
    Piso = 1
    Valores = {1}
    MaxSalvos = 2
    MaxForcos = 1
    MaxContratos = 0
    EtapasAtivas = {"ganha", "perdida"}
    Nenhum = Nenhum
SPECIFICATION SpecDecide
PROPERTY PublicadaSeResolve
