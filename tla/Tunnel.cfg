\* One caller of Start, one of Stop, two runs; cloudflared may be downloaded.
SPECIFICATION Spec
CONSTANTS
    api = api
    main = main
    r1 = r1
    r2 = r2
    NoRun = NoRun
    Starters <- MCStarters
    Stoppers <- MCStoppers
    Runs <- MCRuns
    AutoDownload = TRUE
 
PROPERTIES StoppedDies NotShownConnected
